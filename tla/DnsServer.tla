------------------------------ MODULE DnsServer ------------------------------
(***************************************************************************)
(* The DNS server of the engine (rust-dns-engine/src/dns_server.rs): one   *)
(* task per received datagram, all of them sharing the rules behind one    *)
(* fair mutex, one LRU cache of upstream messages, the metrics counters    *)
(* and the query log.                                                      *)
(*                                                                         *)
(* An action is what a task does between two points where another task can *)
(* be seen or can see it.  A critical section of the rule mutex contains   *)
(* no await, so taking the lock at the head of the queue, reading, and     *)
(* releasing is one action; the same holds for the cache's mutex.  Who     *)
(* changes the rules is not this module's business: a writer queues for    *)
(* the same mutex and replaces the rules when it holds it.                 *)
(***************************************************************************)
EXTENDS DnsMessages, FairMutex, FiniteSets

CONSTANTS
    Writer,     \* tasks that change the rules
    Capacity    \* entries the LRU cache holds (5000 in the code)

ASSUME ServerAssumption ==
    /\ Writer \cap Query = {}
    /\ IsFiniteSet(Query)
    /\ IsFiniteSet(Question)
    /\ Capacity \in Nat \ {0}

VARIABLES
    rules,    \* the Blocklist behind the mutex
    server,   \* "up" while dns_server::run loops, "down" once it returned
    pc,       \* pc[q]: where the task of request q is
    ask,      \* ask[q]: the first question of the request
    held,     \* held[q]: what the task copied out of the rules
    reply,    \* reply[q]: the response message
    cache,    \* cache[k]: the message cached for domain k, NoReply if there is none
    older,    \* recency: <<j, k>> when k was used after j
    log,      \* log[q]: the row request q left in the query log
    metrics   \* the counters of METRICS

lockVars == <<rules, queue>>
cacheVars == <<cache, older>>
vars == <<rules, queue, server, pc, ask, held, reply, cache, older, log, metrics>>

Task == Query \cup Writer

Pc == {"idle", "verdict", "log", "local", "cache", "forward", "put", "send", "done"}

Held == [blocked : BOOLEAN, why : Reason, upstream : Upstream, privacy : Privacy]

NotHeld == [blocked |-> FALSE, why |-> "none", upstream |-> Cloudflare,
            privacy |-> "Default"]

Metrics == [total : Nat, last : Nat, hits : Nat, misses : Nat]

TypeOK ==
    /\ rules \in RuleStates
    /\ queue \in Seq(Task)
    /\ server \in {"up", "down"}
    /\ pc \in [Query -> Pc]
    /\ ask \in [Query -> Asked \cup {NoAsk}]
    /\ held \in [Query -> Held]
    /\ reply \in [Query -> Reply]
    /\ cache \in [Question -> Reply]
    /\ older \subseteq Question \X Question
    /\ log \in [Query -> Row \cup {NoRow}]
    /\ metrics \in Metrics

Init ==
    /\ rules \in RuleStates
    /\ queue = <<>>
    /\ server = "up"
    /\ pc = [q \in Query |-> "idle"]
    /\ ask = [q \in Query |-> NoAsk]
    /\ held = [q \in Query |-> NotHeld]
    /\ reply = [q \in Query |-> NoReply]
    /\ cache = [k \in Question |-> NoReply]
    /\ older = {}
    /\ log = [q \in Query |-> NoRow]
    /\ metrics = [total |-> 0, last |-> 0, hits |-> 0, misses |-> 0]

-----------------------------------------------------------------------------
(***************************************************************************)
(* The cache (the lru crate): get and put make their key the most recently *)
(* used one, and a put of a new key at capacity drops the least recently   *)
(* used one.  What it holds is a message like any response: nothing in its *)
(* type keeps a refusal or a SERVFAIL out.                                 *)
(***************************************************************************)

Cached == {k \in Question : cache[k] # NoReply}

\* Mutant: a key regardless of case, although the cached message quotes the
\* domain as it was asked.
KeyInLowerCase(a) == [a.dom EXCEPT !.upper = FALSE]

\* The key a lookup uses: the domain as the request spells it, and nothing else.
CacheKey(a) == a.dom

\* Recency once the keys S are kept and k, kept or new, is used.
Touch(S, k) ==
    LET others == S \ {k}
    IN  (older \cap (others \X others)) \cup (others \X {k})

\* Mutant: room is left for one entry too many.
KeptOneTooMany(k) ==
    IF k \in Cached \/ Cardinality(Cached) <= Capacity
    THEN {Cached}
    ELSE {Cached \ {v} : v \in {u \in Cached : \A j \in Cached \ {u} : <<u, j>> \in older}}

\* The sets of keys a put of k may leave: all of them while there is room,
\* otherwise all but the least recently used one.
Kept(k) ==
    IF k \in Cached \/ Cardinality(Cached) < Capacity
    THEN {Cached}
    ELSE {Cached \ {v} : v \in {u \in Cached : \A j \in Cached \ {u} : <<u, j>> \in older}}

CachePut(k, r) ==
    \E S \in Kept(k) :
        /\ cache' = [j \in Question |->
                        IF j = k THEN r ELSE IF j \in S THEN cache[j] ELSE NoReply]
        /\ older' = Touch(S, k)

-----------------------------------------------------------------------------
(***************************************************************************)
(* The query log's row for a request.                                      *)
(***************************************************************************)

\* The category is guessed from the reason, then from the domain as spelled.
CategoryOf(h, d) ==
    IF ~h.blocked THEN "allowed"
    ELSE IF h.why = "AI Heuristic Block" THEN "malware"
    ELSE IF d.name \in TrackerName /\ ~d.upper THEN "tracker"
    ELSE "ads"

\* Mutant: the row tells the name as it was matched.
RowOfCleanName(h, a) ==
    [domain   |-> IF h.privacy = "Anonymous" THEN Hidden ELSE Clean(a.dom),
     client   |-> a.client,
     blocked  |-> h.blocked,
     reason   |-> h.why,
     category |-> CategoryOf(h, a.dom)]

\* Mutant: only Ghost is heeded.
RowUnmasked(h, a) ==
    [domain |-> a.dom, client |-> a.client, blocked |-> h.blocked, reason |-> h.why,
     category |-> CategoryOf(h, a.dom)]

RowOf(h, a) ==
    [domain   |-> IF h.privacy = "Anonymous" THEN Hidden ELSE a.dom,
     client   |-> a.client,
     blocked  |-> h.blocked,
     reason   |-> h.why,
     category |-> CategoryOf(h, a.dom)]

-----------------------------------------------------------------------------
(***************************************************************************)
(* The steps of the task of request q.                                     *)
(***************************************************************************)

Goto(q, from, to) ==
    /\ pc[q] = from
    /\ pc' = [pc EXCEPT ![q] = to]

Respond(q, from, r) ==
    /\ Goto(q, from, "send")
    /\ reply' = [reply EXCEPT ![q] = r]

\* Mutant: the total is forgotten.
CountedThisSecond == [metrics EXCEPT !.last = @ + 1]

Counted == [metrics EXCEPT !.total = @ + 1, !.last = @ + 1]

\* A datagram arrives and its task starts: a request with a question goes and
\* waits for the rules.
Receive(q) ==
    /\ server = "up"
    /\ Goto(q, "idle", "verdict")
    /\ \E a \in Asked : ask' = [ask EXCEPT ![q] = a]
    /\ Join(q)
    /\ metrics' = Counted
    /\ UNCHANGED <<rules, server, held, reply, cacheVars, log>>

\* A request without a question gets the bare response.
ReceiveEmpty(q) ==
    /\ server = "up"
    /\ Respond(q, "idle", Plain("empty"))
    /\ metrics' = Counted
    /\ UNCHANGED <<lockVars, server, ask, held, cacheVars, log>>

\* A datagram that does not decode is dropped, but was counted.
ReceiveGarbage(q) ==
    /\ server = "up"
    /\ Goto(q, "idle", "done")
    /\ metrics' = Counted
    /\ UNCHANGED <<lockVars, server, ask, held, reply, cacheVars, log>>

\* First critical section: judge, and copy out the upstream and the privacy level.
TakeVerdict(q) ==
    LET v == IsBlocked(rules, ask[q].dom)
    IN  /\ server = "up"
        /\ Goto(q, "verdict", "log")
        /\ Leave(q)
        /\ held' = [held EXCEPT ![q] = [blocked  |-> v.blocked,
                                        why      |-> v.why,
                                        upstream |-> rules.upstream,
                                        privacy  |-> rules.privacy]]
        /\ UNCHANGED <<rules, server, ask, reply, cacheVars, log, metrics>>

\* The row is written outside the lock, under the privacy level copied above;
\* a failed insert is ignored.  Then the task queues for the lock again.  No
\* await comes before that, so a task here gets this far even when the server
\* is being torn down.
WriteLog(q) ==
    /\ Goto(q, "log", "local")
    /\ \/ /\ held[q].privacy # "Ghost"
          /\ log' = [log EXCEPT ![q] = RowOf(held[q], ask[q])]
       \/ UNCHANGED log
    /\ Join(q)
    /\ UNCHANGED <<rules, server, ask, held, reply, cacheVars, metrics>>

\* Second critical section: a local mapping that parses as an IPv4 address
\* answers the query whatever the verdict was.
ResolveLocally(q) ==
    LET ip == ResolveLocal(rules, ask[q].dom)
    IN  /\ server = "up"
        /\ Respond(q, "local", LocalReply(ip))
        /\ ip \in Ipv4
        /\ Leave(q)
        /\ UNCHANGED <<rules, server, ask, held, cacheVars, log, metrics>>

\* Mutant: the verdict is taken again, on the rules of this moment.
RefuseByRulesNow(q) ==
    /\ server = "up"
    /\ Respond(q, "local", Plain("blocked"))
    /\ ResolveLocal(rules, ask[q].dom) \notin Ipv4
    /\ IsBlocked(rules, ask[q].dom).blocked
    /\ Leave(q)
    /\ UNCHANGED <<rules, server, ask, held, cacheVars, log, metrics>>

\* The same critical section when there is none: a blocked domain is refused,
Refuse(q) ==
    /\ server = "up"
    /\ Respond(q, "local", Plain("blocked"))
    /\ ResolveLocal(rules, ask[q].dom) \notin Ipv4
    /\ held[q].blocked
    /\ Leave(q)
    /\ UNCHANGED <<rules, server, ask, held, cacheVars, log, metrics>>

\* Mutant: the guard lives on past the critical section.
LetPassHolding(q) ==
    /\ server = "up"
    /\ Goto(q, "local", "cache")
    /\ ResolveLocal(rules, ask[q].dom) \notin Ipv4
    /\ ~held[q].blocked
    /\ Holds(q)
    /\ UNCHANGED <<lockVars, server, ask, held, reply, cacheVars, log, metrics>>

\* and any other goes on to the cache.
LetPass(q) ==
    /\ server = "up"
    /\ Goto(q, "local", "cache")
    /\ ResolveLocal(rules, ask[q].dom) \notin Ipv4
    /\ ~held[q].blocked
    /\ Leave(q)
    /\ UNCHANGED <<rules, server, ask, held, reply, cacheVars, log, metrics>>

CacheHit(q) ==
    LET k == CacheKey(ask[q])
    IN  /\ server = "up"
        /\ pc[q] = "cache" /\ k \in Cached
        /\ Respond(q, "cache", cache[k])
        /\ older' = Touch(Cached, k)
        /\ metrics' = [metrics EXCEPT !.hits = @ + 1]
        /\ UNCHANGED <<lockVars, server, ask, held, cache, log>>

\* Mutant: the upstream is looked up in the rules, which must be free.
CacheMissReadingRules(q) ==
    /\ server = "up"
    /\ Goto(q, "cache", "forward")
    /\ CacheKey(ask[q]) \notin Cached
    /\ queue = <<>>
    /\ metrics' = [metrics EXCEPT !.misses = @ + 1]
    /\ UNCHANGED <<lockVars, server, ask, held, reply, cacheVars, log>>

CacheMiss(q) ==
    /\ server = "up"
    /\ Goto(q, "cache", "forward")
    /\ CacheKey(ask[q]) \notin Cached
    /\ metrics' = [metrics EXCEPT !.misses = @ + 1]
    /\ UNCHANGED <<lockVars, server, ask, held, reply, cacheVars, log>>

\* The upstream copied with the verdict answers the question forwarded to it.
\* That it does is assumed of the environment: the code takes the first message
\* that decodes, whoever sent it, and compares neither its id nor its question.
Forward(q) ==
    /\ server = "up"
    /\ Goto(q, "forward", "put")
    /\ reply' = [reply EXCEPT ![q] = Resolved(AnswerTo(ask[q], held[q].upstream))]
    /\ UNCHANGED <<lockVars, server, ask, held, cacheVars, log, metrics>>

\* Mutant: whatever the exchange came to is remembered.
FailureIsCached(q) ==
    /\ server = "up"
    /\ Goto(q, "forward", "put")
    /\ reply' = [reply EXCEPT ![q] = Plain("servfail")]
    /\ UNCHANGED <<lockVars, server, ask, held, cacheVars, log, metrics>>

\* A socket error, a timeout (2 s over UDP, 3 s over DoH) or a bad message.
ForwardFails(q) ==
    /\ server = "up"
    /\ Respond(q, "forward", Plain("servfail"))
    /\ UNCHANGED <<lockVars, server, ask, held, cacheVars, log, metrics>>

PutAnswer(q) ==
    /\ server = "up"
    /\ Goto(q, "put", "send")
    /\ CachePut(CacheKey(ask[q]), reply[q])
    /\ UNCHANGED <<lockVars, server, ask, held, reply, log, metrics>>

\* The response is sent; the result of send_to is ignored, so that a response
\* that was lost leaves the same state.
Send(q) ==
    /\ server = "up"
    /\ Goto(q, "send", "done")
    /\ UNCHANGED <<lockVars, server, ask, held, reply, cacheVars, log, metrics>>

-----------------------------------------------------------------------------
(***************************************************************************)
(* What else happens around the requests.                                  *)
(***************************************************************************)

\* A task that will change the rules queues for the mutex.
WriterQueues(w) ==
    /\ server = "up"
    /\ ~Queued(w)
    /\ Join(w)
    /\ UNCHANGED <<rules, server, pc, ask, held, reply, cacheVars, log, metrics>>

\* Its caller may hang up first: the handler of a control-API request is dropped
\* with the connection it came on.
WriterGivesUp(w) ==
    /\ server = "up"
    /\ Abandon(w)
    /\ UNCHANGED <<rules, server, pc, ask, held, reply, cacheVars, log, metrics>>

\* Otherwise it replaces the rules when it holds it.
ChangeRules(w) ==
    /\ server = "up"
    /\ rules' \in RuleStates
    /\ Leave(w)
    /\ UNCHANGED <<server, pc, ask, held, reply, cacheVars, log, metrics>>

\* The once-a-second task.
ResetSecond ==
    /\ server = "up"
    /\ metrics.last # 0
    /\ metrics' = [metrics EXCEPT !.last = 0]
    /\ UNCHANGED <<lockVars, server, pc, ask, held, reply, cacheVars, log>>

\* A socket is bound for every datagram received, needed or not, and an error
\* of that bind leaves run(): the runtime is dropped with every task on it.
ServerFails ==
    /\ server = "up"
    /\ server' = "down"
    /\ UNCHANGED <<lockVars, pc, ask, held, reply, cacheVars, log, metrics>>

TaskStep(q) ==
    \/ TakeVerdict(q)
    \/ WriteLog(q)
    \/ ResolveLocally(q)
    \/ Refuse(q)
    \/ LetPass(q)
    \/ CacheHit(q)
    \/ CacheMiss(q)
    \/ Forward(q)
    \/ ForwardFails(q)
    \/ PutAnswer(q)
    \/ Send(q)

RequestStep ==
    \E q \in Query :
        \/ Receive(q)
        \/ ReceiveEmpty(q)
        \/ ReceiveGarbage(q)
        \/ TaskStep(q)

Next ==
    \/ RequestStep
    \/ \E w \in Writer : WriterQueues(w) \/ WriterGivesUp(w) \/ ChangeRules(w)
    \/ ResetSecond
    \/ ServerFails

Spec == Init /\ [][Next]_vars

\* tokio polls every task that can run, an upstream exchange ends by its
\* timeout, and a writer's critical section ends.
Fairness ==
    /\ \A q \in Query : WF_vars(TaskStep(q))
    /\ \A w \in Writer : WF_vars(ChangeRules(w))

FairSpec == Spec /\ Fairness

=============================================================================
