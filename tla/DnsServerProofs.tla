-------------------------- MODULE DnsServerProofs --------------------------
(***************************************************************************)
(* Proofs about DnsServer, for any set of requests, names, rules and       *)
(* writers and any capacity of the cache.                                  *)
(*                                                                         *)
(* Everything rests on one inductive invariant.  The types alone are not   *)
(* inductive: a task uses the question it decoded, and the answer it got,  *)
(* several steps later, so how far a task is has to say what it carries    *)
(* (Phases); and a cache entry outlives the step that made it, so it has   *)
(* to say whose answer it is (CacheIsUpstreams), a request that has got    *)
(* its reply being one that no step touches any more.  The lock, the order *)
(* of the cache, its counters and the origin of each message are proved    *)
(* relative to it.                                                         *)
(***************************************************************************)
EXTENDS DnsServerProperties, FairMutexProofs, FiniteSetTheorems, TLAPS

\* Between the verdict and the put, a task carries a decoded question.
Busy == {"verdict", "log", "local", "cache", "forward", "put"}

\* What the upstream q was routed to makes of its question.
Fetched(q) == Resolved(AnswerTo(ask[q], held[q].upstream))

\* What a task carries at each point of its way.
Carries(q) ==
    /\ pc[q] = "idle" => ask[q] = NoAsk
    /\ pc[q] \in Busy => ask[q] \in Asked
    /\ pc[q] \in (Busy \cup {"idle"}) \ {"put"} => reply[q] = NoReply
    /\ pc[q] \in {"cache", "forward", "put"} => ~held[q].blocked
    /\ pc[q] = "put" => reply[q] = Fetched(q)
    /\ pc[q] \in {"idle", "verdict", "log"} => log[q] = NoRow

Phases == \A q \in Query : Carries(q)

IInv == TypeOK /\ Phases /\ CacheIsUpstreams

-----------------------------------------------------------------------------
(***************************************************************************)
(* The operators the actions are built from.                               *)
(***************************************************************************)

\* is_blocked always returns a verdict: a flag and one of the known reasons.
LEMMA VerdictIsTyped ==
    \A r, d : IsBlocked(r, d) \in [blocked : BOOLEAN, why : Reason]
BY DEF IsBlocked, Pass, Block, Reason

\* Every row fits the table's columns.
LEMMA RowIsTyped ==
    ASSUME NEW h \in Held, NEW a \in Asked
    PROVE  RowOf(h, a) \in Row
<1>1. CategoryOf(h, a.dom) \in Category
  BY DEF CategoryOf, Category
<1>2. QED
  BY <1>1 DEF RowOf, Row, Held, Asked

\* What comes back from an upstream is a reply, and one to be told from none.
LEMMA FetchedIsReply ==
    ASSUME NEW a \in Asked, NEW u \in Upstream
    PROVE  /\ AnswerTo(a, u) \in Answer
           /\ Resolved(AnswerTo(a, u)) \in Reply
           /\ Resolved(AnswerTo(a, u)) # NoReply
<1>1. ServerOf(u) \in Upstream
  BY MessageAssumption DEF ServerOf
<1>2. AnswerTo(a, u) \in Answer
  BY <1>1 DEF AnswerTo, Answer, Asked
<1>3. QED
  BY <1>2 DEF Resolved, Reply, NoReply, Plain

\* The counters only count.
LEMMA CountersAreTyped ==
    ASSUME metrics \in Metrics
    PROVE  /\ Counted \in Metrics
           /\ [metrics EXCEPT !.hits = @ + 1] \in Metrics
           /\ [metrics EXCEPT !.misses = @ + 1] \in Metrics
           /\ [metrics EXCEPT !.last = 0] \in Metrics
<1>1. Counted \in Metrics
  <2> DEFINE m == [metrics EXCEPT !.total = @ + 1]
  <2>1. m \in Metrics
    BY DEF Metrics
  <2>2. Counted = [m EXCEPT !.last = @ + 1]
    BY DEF Counted, Metrics
  <2> HIDE DEF m
  <2>3. QED
    BY <2>1, <2>2 DEF Metrics
<1>2. [metrics EXCEPT !.hits = @ + 1] \in Metrics
  BY DEF Metrics
<1>3. [metrics EXCEPT !.misses = @ + 1] \in Metrics
  BY DEF Metrics
<1>4. [metrics EXCEPT !.last = 0] \in Metrics
  BY DEF Metrics
<1>5. QED
  BY <1>1, <1>2, <1>3, <1>4

\* After a put the key holds the message put, and every other key what it held
\* or nothing.
LEMMA PutAffectsOneKey ==
    ASSUME NEW k \in Question, NEW m \in Reply, CachePut(k, m),
           cache \in [Question -> Reply]
    PROVE  /\ cache' \in [Question -> Reply]
           /\ cache'[k] = m
           /\ \A j \in Question \ {k} : cache'[j] \in {cache[j], NoReply}
           /\ older \subseteq Question \X Question => older' \subseteq Question \X Question
<1>1. PICK S \in Kept(k) :
         /\ cache' = [j \in Question |->
                        IF j = k THEN m ELSE IF j \in S THEN cache[j] ELSE NoReply]
         /\ older' = Touch(S, k)
  BY DEF CachePut
<1>2. S \subseteq Question
  BY DEF Kept, Cached
<1>3. older \subseteq Question \X Question => older' \subseteq Question \X Question
  BY <1>1, <1>2 DEF Touch
<1>4. NoReply \in Reply
  BY DEF NoReply, Plain, Reply
<1>5. QED
  BY <1>1, <1>3, <1>4

-----------------------------------------------------------------------------
(***************************************************************************)
(* IInv is inductive.                                                      *)
(***************************************************************************)

LEMMA InitIInv == Init => IInv
<1> SUFFICES ASSUME Init PROVE IInv
  OBVIOUS
<1>1. TypeOK
  BY MessageAssumption DEF Init, TypeOK, Pc, NotHeld, Held, Reason, Privacy, Metrics,
     Reply, NoReply, Plain
<1>2. Phases
  BY MessageAssumption DEF Init, Phases, Carries, Busy
<1>3. CacheIsUpstreams
  BY DEF Init, CacheIsUpstreams, Cached
<1>4. QED
  BY <1>1, <1>2, <1>3 DEF IInv

\* What is put into the cache is what the upstream made of the question of the
\* task, which was not blocked.
LEMMA PutStoresAnswer ==
    ASSUME IInv, NEW q \in Query, PutAnswer(q)
    PROVE  /\ ask[q] \in Asked /\ CacheKey(ask[q]) \in Question
           /\ ~held[q].blocked
           /\ reply[q] = Fetched(q) /\ reply[q] \in Reply /\ reply[q] # NoReply
           /\ CachePut(CacheKey(ask[q]), reply[q])
<1>1. pc[q] = "put" /\ CachePut(CacheKey(ask[q]), reply[q])
  BY DEF PutAnswer, Goto
<1>2. ask[q] \in Asked /\ reply[q] = Fetched(q) /\ ~held[q].blocked
  BY <1>1 DEF IInv, Phases, Carries, Busy
<1>3. held[q].upstream \in Upstream
  BY DEF IInv, TypeOK, Held
<1>4. reply[q] \in Reply /\ reply[q] # NoReply
  BY <1>2, <1>3, FetchedIsReply DEF Fetched
<1>5. QED
  BY <1>1, <1>2, <1>4 DEF CacheKey, Asked

\* Every step keeps every variable within its type.
LEMMA StepKeepsTypes ==
    ASSUME IInv, [Next]_vars
    PROVE  TypeOK'
<1> USE DEF IInv
<1>1. ASSUME NEW q \in Query, Receive(q) PROVE TypeOK'
  <2>1. queue' \in Seq(Task)
    BY <1>1, QueueIsTyped DEF TypeOK, Receive, Task
  <2>2. pc' \in [Query -> Pc] /\ ask' \in [Query -> Asked \cup {NoAsk}]
    BY <1>1 DEF TypeOK, Receive, Goto, Pc
  <2>3. metrics' \in Metrics
    BY <1>1, CountersAreTyped DEF TypeOK, Receive
  <2>4. QED
    BY <1>1, <2>1, <2>2, <2>3 DEF TypeOK, Receive, cacheVars
<1>2. ASSUME NEW q \in Query, ReceiveEmpty(q) PROVE TypeOK'
  <2>1. pc' \in [Query -> Pc] /\ reply' \in [Query -> Reply]
    BY <1>2 DEF TypeOK, ReceiveEmpty, Respond, Goto, Pc, Plain, Reply
  <2>2. metrics' \in Metrics
    BY <1>2, CountersAreTyped DEF TypeOK, ReceiveEmpty
  <2>3. QED
    BY <1>2, <2>1, <2>2 DEF TypeOK, ReceiveEmpty, lockVars, cacheVars
<1>3. ASSUME NEW q \in Query, ReceiveGarbage(q) PROVE TypeOK'
  <2>1. metrics' \in Metrics
    BY <1>3, CountersAreTyped DEF TypeOK, ReceiveGarbage
  <2>2. QED
    BY <1>3, <2>1 DEF TypeOK, ReceiveGarbage, Goto, Pc, lockVars, cacheVars
<1>4. ASSUME NEW q \in Query, TakeVerdict(q) PROVE TypeOK'
  <2>1. queue' \in Seq(Task)
    BY <1>4, QueueIsTyped DEF TypeOK, TakeVerdict, Task
  <2>2. rules.upstream \in Upstream /\ rules.privacy \in Privacy
    BY MessageAssumption DEF TypeOK, Rules
  <2>3. held' \in [Query -> Held]
    <3>1. [blocked  |-> IsBlocked(rules, ask[q].dom).blocked,
           why      |-> IsBlocked(rules, ask[q].dom).why,
           upstream |-> rules.upstream,
           privacy  |-> rules.privacy] \in Held
      BY <2>2, VerdictIsTyped DEF Held
    <3>2. QED
      BY <1>4, <3>1 DEF TypeOK, TakeVerdict
  <2>4. QED
    BY <1>4, <2>1, <2>3 DEF TypeOK, TakeVerdict, Goto, Pc, cacheVars
<1>5. ASSUME NEW q \in Query, WriteLog(q) PROVE TypeOK'
  <2>1. queue' \in Seq(Task)
    BY <1>5, QueueIsTyped DEF TypeOK, WriteLog, Task
  <2>2. RowOf(held[q], ask[q]) \in Row
    BY <1>5, RowIsTyped DEF TypeOK, WriteLog, Goto, Phases, Carries, Busy
  <2>3. log' \in [Query -> Row \cup {NoRow}]
    BY <1>5, <2>2 DEF TypeOK, WriteLog
  <2>4. QED
    BY <1>5, <2>1, <2>3 DEF TypeOK, WriteLog, Goto, Pc, cacheVars
<1>6. ASSUME NEW q \in Query, ResolveLocally(q) PROVE TypeOK'
  <2>1. queue' \in Seq(Task)
    BY <1>6, QueueIsTyped DEF TypeOK, ResolveLocally, Task
  <2>2. reply' \in [Query -> Reply]
    BY <1>6, NameAssumption DEF TypeOK, ResolveLocally, Respond, LocalReply, Reply
  <2>3. QED
    BY <1>6, <2>1, <2>2 DEF TypeOK, ResolveLocally, Respond, Goto, Pc, cacheVars
<1>7. ASSUME NEW q \in Query, Refuse(q) PROVE TypeOK'
  <2>1. queue' \in Seq(Task)
    BY <1>7, QueueIsTyped DEF TypeOK, Refuse, Task
  <2>2. reply' \in [Query -> Reply]
    BY <1>7 DEF TypeOK, Refuse, Respond, Plain, Reply
  <2>3. QED
    BY <1>7, <2>1, <2>2 DEF TypeOK, Refuse, Respond, Goto, Pc, cacheVars
<1>8. ASSUME NEW q \in Query, LetPass(q) PROVE TypeOK'
  <2>1. queue' \in Seq(Task)
    BY <1>8, QueueIsTyped DEF TypeOK, LetPass, Task
  <2>2. QED
    BY <1>8, <2>1 DEF TypeOK, LetPass, Goto, Pc, cacheVars
<1>9. ASSUME NEW q \in Query, CacheHit(q) PROVE TypeOK'
  <2> DEFINE k == CacheKey(ask[q])
  <2>1. k \in Cached
    BY <1>9 DEF CacheHit
  <2>2. cache[k] \in Reply
    BY <2>1 DEF TypeOK, Cached
  <2>3. reply' \in [Query -> Reply]
    BY <1>9, <2>2 DEF TypeOK, CacheHit, Respond
  <2>4. pc' \in [Query -> Pc]
    BY <1>9 DEF TypeOK, CacheHit, Respond, Goto, Pc
  <2>5. older' \subseteq Question \X Question
    BY <1>9, <2>1 DEF TypeOK, CacheHit, Touch, Cached
  <2>6. metrics' \in Metrics
    BY <1>9, CountersAreTyped DEF TypeOK, CacheHit
  <2>7. QED
    BY <1>9, <2>3, <2>4, <2>5, <2>6 DEF TypeOK, CacheHit, lockVars
<1>10. ASSUME NEW q \in Query, CacheMiss(q) PROVE TypeOK'
  <2>1. metrics' \in Metrics
    BY <1>10, CountersAreTyped DEF TypeOK, CacheMiss
  <2>2. QED
    BY <1>10, <2>1 DEF TypeOK, CacheMiss, Goto, Pc, lockVars, cacheVars
<1>11. ASSUME NEW q \in Query, Forward(q) PROVE TypeOK'
  <2>1. ask[q] \in Asked /\ held[q].upstream \in Upstream
    BY <1>11 DEF Forward, Goto, Phases, Carries, Busy, TypeOK, Held
  <2>2. reply' \in [Query -> Reply]
    BY <1>11, <2>1, FetchedIsReply DEF TypeOK, Forward
  <2>3. QED
    BY <1>11, <2>2 DEF TypeOK, Forward, Goto, Pc, lockVars, cacheVars
<1>12. ASSUME NEW q \in Query, ForwardFails(q) PROVE TypeOK'
  <2>1. reply' \in [Query -> Reply]
    BY <1>12 DEF TypeOK, ForwardFails, Respond, Plain, Reply
  <2>2. QED
    BY <1>12, <2>1 DEF TypeOK, ForwardFails, Respond, Goto, Pc, lockVars, cacheVars
<1>13. ASSUME NEW q \in Query, PutAnswer(q) PROVE TypeOK'
  <2>1. /\ CacheKey(ask[q]) \in Question /\ reply[q] \in Reply
        /\ CachePut(CacheKey(ask[q]), reply[q])
    BY <1>13, PutStoresAnswer
  <2>2. /\ cache' \in [Question -> Reply]
        /\ older' \subseteq Question \X Question
    BY <2>1, PutAffectsOneKey DEF TypeOK
  <2>3. QED
    BY <1>13, <2>2 DEF TypeOK, PutAnswer, Goto, Pc, lockVars
<1>14. ASSUME NEW q \in Query, Send(q) PROVE TypeOK'
  BY <1>14 DEF TypeOK, Send, Goto, Pc, lockVars, cacheVars
<1>15. ASSUME NEW w \in Writer, WriterQueues(w) \/ WriterGivesUp(w) \/ ChangeRules(w) PROVE TypeOK'
  <2>1. queue' \in Seq(Task)
    BY <1>15, QueueIsTyped DEF TypeOK, WriterQueues, WriterGivesUp, ChangeRules, Task
  <2>2. QED
    BY <1>15, <2>1 DEF TypeOK, WriterQueues, WriterGivesUp, ChangeRules, cacheVars
<1>16. CASE ResetSecond
  <2>1. metrics' \in Metrics
    BY <1>16, CountersAreTyped DEF TypeOK, ResetSecond
  <2>2. QED
    BY <1>16, <2>1 DEF TypeOK, ResetSecond, lockVars, cacheVars
<1>17. CASE ServerFails
  BY <1>17 DEF TypeOK, ServerFails, lockVars, cacheVars
<1>18. CASE UNCHANGED vars
  BY <1>18 DEF TypeOK, vars
<1>19. QED
  BY <1>1, <1>2, <1>3, <1>4, <1>5, <1>6, <1>7, <1>8, <1>9, <1>10, <1>11, <1>12,
     <1>13, <1>14, <1>15, <1>16, <1>17, <1>18 DEF Next, RequestStep, TaskStep

\* Every step keeps what each task carries in agreement with where it is.  A
\* step of one task disturbs no other.
LEMMA StepKeepsPhases ==
    ASSUME IInv, [Next]_vars
    PROVE  Phases'
<1> USE DEF IInv, TypeOK, Phases, Carries, Busy, Fetched
<1>1. ASSUME NEW q \in Query, Receive(q) PROVE Phases'
  BY <1>1 DEF Receive, Goto
<1>2. ASSUME NEW q \in Query, ReceiveEmpty(q) PROVE Phases'
  BY <1>2 DEF ReceiveEmpty, Respond, Goto
<1>3. ASSUME NEW q \in Query, ReceiveGarbage(q) PROVE Phases'
  BY <1>3 DEF ReceiveGarbage, Goto
<1>4. ASSUME NEW q \in Query, TakeVerdict(q) PROVE Phases'
  BY <1>4 DEF TakeVerdict, Goto
<1>5. ASSUME NEW q \in Query, WriteLog(q) PROVE Phases'
  BY <1>5 DEF WriteLog, Goto
<1>6. ASSUME NEW q \in Query, ResolveLocally(q) PROVE Phases'
  BY <1>6 DEF ResolveLocally, Respond, Goto
<1>7. ASSUME NEW q \in Query, Refuse(q) PROVE Phases'
  BY <1>7 DEF Refuse, Respond, Goto
<1>8. ASSUME NEW q \in Query, LetPass(q) PROVE Phases'
  BY <1>8 DEF LetPass, Goto
<1>9. ASSUME NEW q \in Query, CacheHit(q) PROVE Phases'
  BY <1>9 DEF CacheHit, Respond, Goto
<1>10. ASSUME NEW q \in Query, CacheMiss(q) PROVE Phases'
  BY <1>10 DEF CacheMiss, Goto
<1>11. ASSUME NEW q \in Query, Forward(q) PROVE Phases'
  BY <1>11 DEF Forward, Goto
<1>12. ASSUME NEW q \in Query, ForwardFails(q) PROVE Phases'
  BY <1>12 DEF ForwardFails, Respond, Goto
<1>13. ASSUME NEW q \in Query, PutAnswer(q) PROVE Phases'
  BY <1>13 DEF PutAnswer, Goto
<1>14. ASSUME NEW q \in Query, Send(q) PROVE Phases'
  BY <1>14 DEF Send, Goto
<1>15. ASSUME NEW w \in Writer, WriterQueues(w) \/ WriterGivesUp(w) \/ ChangeRules(w) PROVE Phases'
  BY <1>15 DEF WriterQueues, WriterGivesUp, ChangeRules
<1>16. CASE ResetSecond \/ ServerFails \/ UNCHANGED vars
  BY <1>16 DEF ResetSecond, ServerFails, vars
<1>17. QED
  BY <1>1, <1>2, <1>3, <1>4, <1>5, <1>6, <1>7, <1>8, <1>9, <1>10, <1>11, <1>12,
     <1>13, <1>14, <1>15, <1>16 DEF Next, RequestStep, TaskStep

\* Only the put that ends an upstream exchange writes to the cache.
LEMMA OnlyPutChangesCache ==
    ASSUME [Next]_vars
    PROVE  cache' = cache \/ \E q \in Query : PutAnswer(q)
<1>1. ASSUME NEW q \in Query, TaskStep(q), ~PutAnswer(q) PROVE cache' = cache
  BY <1>1 DEF TaskStep, TakeVerdict, WriteLog, ResolveLocally, Refuse, LetPass,
     CacheHit, CacheMiss, Forward, ForwardFails, Send, cacheVars
<1>2. ASSUME NEW q \in Query, Receive(q) \/ ReceiveEmpty(q) \/ ReceiveGarbage(q)
      PROVE cache' = cache
  BY <1>2 DEF Receive, ReceiveEmpty, ReceiveGarbage, cacheVars
<1>3. ASSUME NEW w \in Writer, WriterQueues(w) \/ WriterGivesUp(w) \/ ChangeRules(w) PROVE cache' = cache
  BY <1>3 DEF WriterQueues, WriterGivesUp, ChangeRules, cacheVars
<1>4. CASE ResetSecond \/ ServerFails \/ UNCHANGED vars
  BY <1>4 DEF ResetSecond, ServerFails, vars, cacheVars
<1>5. QED
  BY <1>1, <1>2, <1>3, <1>4 DEF Next, RequestStep

\* A request that has got a reply keeps it, with the question it was given to and
\* what the task had copied out of the rules.
LEMMA AnsweredStays ==
    ASSUME IInv, [Next]_vars, NEW q \in Query, reply[q] # NoReply
    PROVE  reply'[q] = reply[q] /\ ask'[q] = ask[q] /\ held'[q] = held[q]
<1>1. pc[q] \in {"put", "send", "done"}
  BY DEF IInv, TypeOK, Pc, Phases, Carries, Busy
<1>2. ASSUME NEW r \in Query, Receive(r) \/ ReceiveEmpty(r) \/ ReceiveGarbage(r)
      PROVE  reply'[q] = reply[q] /\ ask'[q] = ask[q] /\ held'[q] = held[q]
  BY <1>1, <1>2 DEF Receive, ReceiveEmpty, ReceiveGarbage, Respond, Goto, IInv, TypeOK
<1>3. ASSUME NEW r \in Query, TaskStep(r)
      PROVE  reply'[q] = reply[q] /\ ask'[q] = ask[q] /\ held'[q] = held[q]
  BY <1>1, <1>3 DEF TaskStep, TakeVerdict, WriteLog, ResolveLocally, Refuse, LetPass,
     CacheHit, CacheMiss, Forward, ForwardFails, PutAnswer, Send, Respond, Goto, IInv, TypeOK
<1>4. ASSUME NEW w \in Writer, WriterQueues(w) \/ WriterGivesUp(w) \/ ChangeRules(w)
      PROVE  reply'[q] = reply[q] /\ ask'[q] = ask[q] /\ held'[q] = held[q]
  BY <1>4 DEF WriterQueues, WriterGivesUp, ChangeRules
<1>5. CASE ResetSecond \/ ServerFails \/ UNCHANGED vars
  BY <1>5 DEF ResetSecond, ServerFails, vars
<1>6. QED
  BY <1>2, <1>3, <1>4, <1>5 DEF Next, RequestStep

\* q vouches for the message m in the cache under k.
Vouches(q, k, m) ==
    /\ ask[q] # NoAsk /\ ask[q].dom = k
    /\ ~held[q].blocked
    /\ reply[q] = m
    /\ m = Fetched(q)

\* Whoever vouches for a message goes on doing so, whatever the rules become.
LEMMA VouchingLasts ==
    ASSUME IInv, [Next]_vars, NEW q \in Query, NEW k \in Question, NEW m, Vouches(q, k, m)
    PROVE  Vouches(q, k, m)'
<1>1. reply[q] # NoReply
  BY DEF Vouches, Fetched, Resolved, NoReply, Plain
<1>2. reply'[q] = reply[q] /\ ask'[q] = ask[q] /\ held'[q] = held[q]
  BY <1>1, AnsweredStays
<1>3. QED
  BY <1>2 DEF Vouches, Fetched

LEMMA StepKeepsCacheIsUpstreams ==
    ASSUME IInv, [Next]_vars
    PROVE  CacheIsUpstreams'
<1>1. \A k \in Cached : \E q \in Query : Vouches(q, k, cache[k])
  BY DEF IInv, CacheIsUpstreams, Vouches, Fetched
<1>2. SUFFICES ASSUME NEW k \in Question, cache'[k] # NoReply
               PROVE  \E q \in Query : Vouches(q, k, cache[k])'
  BY DEF CacheIsUpstreams, Cached, Vouches, Fetched
<1>3. CASE cache'[k] = cache[k]
  <2>1. k \in Cached
    BY <1>2, <1>3 DEF Cached
  <2>2. PICK q \in Query : Vouches(q, k, cache[k])
    BY <1>1, <2>1
  <2>3. Vouches(q, k, cache[k])'
    BY <1>3, <2>2, VouchingLasts DEF Vouches, Fetched
  <2>4. QED
    BY <2>3
<1>4. ASSUME NEW q \in Query, PutAnswer(q), cache'[k] # cache[k]
      PROVE  Vouches(q, k, cache[k])'
  <2>1. /\ CacheKey(ask[q]) \in Question /\ reply[q] \in Reply
        /\ CachePut(CacheKey(ask[q]), reply[q])
    BY <1>4, PutStoresAnswer
  <2>2. /\ cache'[CacheKey(ask[q])] = reply[q]
        /\ \A j \in Question \ {CacheKey(ask[q])} : cache'[j] \in {cache[j], NoReply}
    BY <2>1, PutAffectsOneKey DEF IInv, TypeOK
  <2>3. k = CacheKey(ask[q]) /\ cache'[k] = reply[q]
    BY <1>2, <1>4, <2>2
  <2>4. ask[q] \in Asked /\ ~held[q].blocked /\ reply[q] = Fetched(q)
    BY <1>4, PutStoresAnswer
  <2>5. ask' = ask /\ held' = held /\ reply' = reply
    BY <1>4 DEF PutAnswer
  <2>6. ask[q] # NoAsk /\ ask[q].dom = k
    BY <2>3, <2>4, MessageAssumption DEF CacheKey, Asked
  <2>7. QED
    BY <2>3, <2>4, <2>5, <2>6 DEF Vouches, Fetched
<1>5. QED
  BY <1>3, <1>4, OnlyPutChangesCache

\* In particular it holds upstream messages only.
LEMMA CachedIsResolved ==
    ASSUME IInv, NEW k \in Cached
    PROVE  cache[k].kind = "resolved"
<1>1. PICK q \in Query : cache[k] = Resolved(AnswerTo(ask[q], held[q].upstream))
  BY DEF IInv, CacheIsUpstreams
<1>2. QED
  BY <1>1 DEF Resolved

THEOREM Invariance == Spec => []IInv
<1>1. IInv /\ [Next]_vars => IInv'
  BY StepKeepsTypes, StepKeepsPhases, StepKeepsCacheIsUpstreams DEF IInv
<1>2. QED
  BY InitIInv, <1>1, PTL DEF Spec

\* Types are kept: no step leaves a variable of the server outside its type,
\* whatever rules, names and messages there are.
THEOREM TypeCorrectness == Spec => []TypeOK
<1>1. IInv => TypeOK
  BY DEF IInv
<1>2. QED
  BY Invariance, <1>1, PTL

\* Whatever the cache holds under a domain is the answer that a request for that
\* domain got from the upstream named by the rules that let it pass: no reply the
\* engine made itself is ever remembered, whatever the interleaving.
THEOREM CacheHoldsUpstreamsOnly == Spec => []CacheIsUpstreams
<1>1. IInv => CacheIsUpstreams
  BY DEF IInv
<1>2. QED
  BY Invariance, <1>1, PTL

-----------------------------------------------------------------------------
(***************************************************************************)
(* The log and the answers.                                                *)
(***************************************************************************)

\* What ties a row and a reply, written at different times, to the one verdict
\* both stem from.
FollowsVerdict(q) ==
    /\ log[q] # NoRow => log[q].blocked = held[q].blocked
    /\ reply[q].kind \in {"resolved", "servfail"} => ~held[q].blocked
    /\ reply[q].kind = "blocked" => held[q].blocked
    /\ reply[q].kind = "empty" => ask[q] = NoAsk
    /\ ask[q] = NoAsk => log[q] = NoRow

VerdictsRule == \A q \in Query : FollowsVerdict(q)

LEMMA StepKeepsVerdicts ==
    ASSUME IInv, VerdictsRule, [Next]_vars
    PROVE  VerdictsRule'
<1> USE MessageAssumption DEF IInv, TypeOK, Phases, Carries, Busy, Asked, NoReply, Plain,
        VerdictsRule, FollowsVerdict
<1>1. ASSUME NEW q \in Query, Receive(q) PROVE VerdictsRule'
  BY <1>1 DEF Receive, Goto
<1>2. ASSUME NEW q \in Query, ReceiveEmpty(q) PROVE VerdictsRule'
  BY <1>2 DEF ReceiveEmpty, Respond, Goto
<1>3. ASSUME NEW q \in Query, ReceiveGarbage(q) PROVE VerdictsRule'
  BY <1>3 DEF ReceiveGarbage, Goto
<1>4. ASSUME NEW q \in Query, TakeVerdict(q) PROVE VerdictsRule'
  BY <1>4 DEF TakeVerdict, Goto
<1>5. ASSUME NEW q \in Query, WriteLog(q) PROVE VerdictsRule'
  BY <1>5 DEF WriteLog, Goto, RowOf
<1>6. ASSUME NEW q \in Query, ResolveLocally(q) PROVE VerdictsRule'
  BY <1>6 DEF ResolveLocally, Respond, Goto, LocalReply
<1>7. ASSUME NEW q \in Query, Refuse(q) PROVE VerdictsRule'
  BY <1>7 DEF Refuse, Respond, Goto
<1>8. ASSUME NEW q \in Query, LetPass(q) PROVE VerdictsRule'
  BY <1>8 DEF LetPass, Goto
<1>9. ASSUME NEW q \in Query, CacheHit(q) PROVE VerdictsRule'
  <2>1. reply' = [reply EXCEPT ![q] = cache[CacheKey(ask[q])]]
        /\ cache[CacheKey(ask[q])].kind = "resolved"
    BY <1>9, CachedIsResolved DEF CacheHit, Respond
  <2>2. QED
    BY <1>9, <2>1 DEF CacheHit, Respond, Goto
<1>10. ASSUME NEW q \in Query, CacheMiss(q) PROVE VerdictsRule'
  BY <1>10 DEF CacheMiss, Goto
<1>11. ASSUME NEW q \in Query, Forward(q) PROVE VerdictsRule'
  BY <1>11 DEF Forward, Goto, Resolved
<1>12. ASSUME NEW q \in Query, ForwardFails(q) PROVE VerdictsRule'
  BY <1>12 DEF ForwardFails, Respond, Goto
<1>13. ASSUME NEW q \in Query, PutAnswer(q) PROVE VerdictsRule'
  BY <1>13 DEF PutAnswer, Goto
<1>14. ASSUME NEW q \in Query, Send(q) PROVE VerdictsRule'
  BY <1>14 DEF Send, Goto
<1>15. ASSUME NEW w \in Writer, WriterQueues(w) \/ WriterGivesUp(w) \/ ChangeRules(w) PROVE VerdictsRule'
  BY <1>15 DEF WriterQueues, WriterGivesUp, ChangeRules
<1>16. CASE ResetSecond \/ ServerFails \/ UNCHANGED vars
  BY <1>16 DEF ResetSecond, ServerFails, vars
<1>17. QED
  BY <1>1, <1>2, <1>3, <1>4, <1>5, <1>6, <1>7, <1>8, <1>9, <1>10, <1>11, <1>12,
     <1>13, <1>14, <1>15, <1>16 DEF Next, RequestStep, TaskStep

\* The log never contradicts an answer: no request logged as blocked is answered
\* by an upstream, and none logged as allowed is refused.
THEOREM LogAndAnswerAgree == Spec => []LogAgreesWithAnswer
<1>1. Init => VerdictsRule
  BY MessageAssumption DEF Init, VerdictsRule, FollowsVerdict, NoReply, Plain
<1>2. IInv /\ VerdictsRule /\ [Next]_vars => VerdictsRule'
  BY StepKeepsVerdicts
<1>3. IInv /\ VerdictsRule => LogAgreesWithAnswer
  BY DEF IInv, TypeOK, Reply, VerdictsRule, FollowsVerdict, LogAgreesWithAnswer
<1>4. QED
  BY Invariance, <1>1, <1>2, <1>3, PTL DEF Spec

-----------------------------------------------------------------------------
(***************************************************************************)
(* The lock.                                                               *)
(***************************************************************************)

\* A request that is not at one of its two lock().await points is not queued and
\* does not become so.
LEMMA StepKeepsDiscipline ==
    ASSUME TypeOK, LockDiscipline, [Next]_vars
    PROVE  LockDiscipline'
<1> USE ServerAssumption DEF LockDiscipline
<1>0. /\ queue \in Seq(Task) /\ pc \in [Query -> Pc]
      /\ \A q \in Query : q \in Task
      /\ \A w \in Writer : w \in Task /\ w \notin Query
  BY DEF TypeOK, Task
<1> USE <1>0
<1>1. ASSUME NEW q \in Query, pc[q] \notin {"verdict", "local"}, Join(q),
             pc' = [pc EXCEPT ![q] = "verdict"] \/ pc' = [pc EXCEPT ![q] = "local"]
      PROVE  LockDiscipline'
  <2>1. ~Queued(q)
    BY <1>1
  <2>2. NoneTwice' /\ \A u : Queued(u)' <=> Queued(u) \/ u = q
    BY <1>1, <2>1, JoinQueuesOnce
  <2>3. QED
    BY <1>1, <2>2
<1>2. ASSUME NEW q \in Query, Leave(q),
             NEW at \in Pc \ {"verdict", "local"}, pc' = [pc EXCEPT ![q] = at]
      PROVE  LockDiscipline'
  <2>1. NoneTwice' /\ \A u : Queued(u)' <=> Queued(u) /\ u # q
    BY <1>2, LeaveUnqueues
  <2>2. QED
    BY <1>2, <2>1
<1>3. ASSUME NEW q \in Query, pc[q] \notin {"verdict", "local"}, UNCHANGED queue,
             NEW at \in Pc \ {"verdict", "local"}, pc' = [pc EXCEPT ![q] = at]
      PROVE  LockDiscipline'
  BY <1>3 DEF NoneTwice, Queued
<1>4. ASSUME UNCHANGED <<queue, pc>> PROVE LockDiscipline'
  BY <1>4 DEF NoneTwice, Queued
<1>5. ASSUME NEW q \in Query, Receive(q) \/ WriteLog(q) PROVE LockDiscipline'
  BY <1>1, <1>5 DEF Receive, WriteLog, Goto
<1>6. ASSUME NEW q \in Query, TakeVerdict(q) \/ ResolveLocally(q) \/ Refuse(q) \/ LetPass(q)
      PROVE LockDiscipline'
  BY <1>2, <1>6 DEF TakeVerdict, ResolveLocally, Refuse, LetPass, Respond, Goto, Pc
<1>7. ASSUME NEW q \in Query,
             \/ ReceiveEmpty(q) \/ ReceiveGarbage(q) \/ CacheHit(q) \/ CacheMiss(q)
             \/ Forward(q) \/ ForwardFails(q) \/ PutAnswer(q) \/ Send(q)
      PROVE LockDiscipline'
  BY <1>3, <1>7 DEF ReceiveEmpty, ReceiveGarbage, CacheHit, CacheMiss, Forward,
     ForwardFails, PutAnswer, Send, Respond, Goto, Pc, lockVars
<1>8. ASSUME NEW w \in Writer, WriterQueues(w) PROVE LockDiscipline'
  <2>1. NoneTwice' /\ \A u : Queued(u)' <=> Queued(u) \/ u = w
    BY <1>8, JoinQueuesOnce DEF WriterQueues
  <2>2. QED
    BY <1>8, <2>1 DEF WriterQueues
<1>9. ASSUME NEW w \in Writer, ChangeRules(w) PROVE LockDiscipline'
  <2>1. NoneTwice' /\ \A u : Queued(u)' <=> Queued(u) /\ u # w
    BY <1>9, LeaveUnqueues DEF ChangeRules
  <2>2. QED
    BY <1>9, <2>1 DEF ChangeRules
<1>10. ASSUME NEW w \in Writer, WriterGivesUp(w) PROVE LockDiscipline'
  <2>1. NoneTwice' /\ \A u : Queued(u)' <=> Queued(u) /\ u # w
    BY <1>10, AbandonUnqueues DEF WriterGivesUp
  <2>2. QED
    BY <1>10, <2>1 DEF WriterGivesUp
<1>11. CASE ResetSecond \/ ServerFails \/ UNCHANGED vars
  BY <1>4, <1>11 DEF ResetSecond, ServerFails, vars, lockVars
<1>12. QED
  BY <1>5, <1>6, <1>7, <1>8, <1>9, <1>10, <1>11 DEF Next, RequestStep, TaskStep

\* The rules are queued for once per wait, and exactly by the requests at one of
\* their two lock().await points: no request holds them while it writes its row,
\* looks up the cache, waits for an upstream or sends.
THEOREM LockIsDisciplined == Spec => []LockDiscipline
<1>1. Init => LockDiscipline
  BY DEF Init, LockDiscipline, NoneTwice, Queued
<1>2. TypeOK /\ LockDiscipline /\ [Next]_vars => LockDiscipline'
  BY StepKeepsDiscipline
<1>3. QED
  BY TypeCorrectness, <1>1, <1>2, PTL DEF Spec

-----------------------------------------------------------------------------
(***************************************************************************)
(* The cache stays a least-recently-used cache of bounded size however its *)
(* lookups and late puts interleave, and the counters count each lookup    *)
(* once.                                                                   *)
(***************************************************************************)

\* R orders the set S strictly and totally.
StrictOrder(R, S) ==
    /\ R \subseteq S \X S
    /\ \A j, k \in S : j # k => (<<j, k>> \in R <=> <<k, j>> \notin R)
    /\ \A k \in S : <<k, k>> \notin R
    /\ \A i, j, k \in S : <<i, j>> \in R /\ <<j, k>> \in R => <<i, k>> \in R

\* Using k makes it the last of what is kept.
LEMMA TouchOrders ==
    ASSUME NEW S \in SUBSET Cached, NEW k, StrictOrder(older, Cached)
    PROVE  StrictOrder(Touch(S, k), S \cup {k})
<1> DEFINE T == Touch(S, k)
<1>1. /\ T \subseteq (S \cup {k}) \X (S \cup {k})
      /\ \A i, j \in S \ {k} : <<i, j>> \in T <=> <<i, j>> \in older
      /\ \A i \in S \ {k} : <<i, k>> \in T /\ <<k, i>> \notin T
      /\ <<k, k>> \notin T
  <2>2. T = (older \cap ((S \ {k}) \X (S \ {k}))) \cup ((S \ {k}) \X {k})
    BY DEF Touch
  <2> HIDE DEF T
  <2>3. T \subseteq (S \cup {k}) \X (S \cup {k})
    BY <2>2
  <2>4. \A i, j \in S \ {k} : <<i, j>> \in T <=> <<i, j>> \in older
    BY <2>2
  <2>5. \A i \in S \ {k} : <<i, k>> \in T
    BY <2>2
  <2>6. \A i : <<k, i>> \notin T
    BY <2>2
  <2>7. QED
    BY <2>3, <2>4, <2>5, <2>6
<1>2. \A i \in S \ {k} : i \in Cached
  OBVIOUS
<1> HIDE DEF T
<1>3. \A i, j \in S \cup {k} : i # j => (<<i, j>> \in T <=> <<j, i>> \notin T)
  BY <1>1, <1>2 DEF StrictOrder
<1>4. \A i \in S \cup {k} : <<i, i>> \notin T
  BY <1>1, <1>2 DEF StrictOrder
<1>5. ASSUME NEW h \in S \cup {k}, NEW i \in S \cup {k}, NEW j \in S \cup {k},
             <<h, i>> \in T, <<i, j>> \in T
      PROVE  <<h, j>> \in T
  <2>1. h # k /\ i # k
    BY <1>1, <1>5
  <2>2. CASE j = k
    BY <1>1, <2>1, <2>2
  <2>3. CASE j # k
    BY <1>1, <1>2, <1>5, <2>1, <2>3 DEF StrictOrder
  <2>4. QED
    BY <2>2, <2>3
<1>6. QED
  BY <1>1, <1>3, <1>4, <1>5 DEF StrictOrder, T

\* A put leaves the kept keys and its own, and no more than there is room for.
LEMMA PutStaysWithinCapacity ==
    ASSUME TypeOK, Cardinality(Cached) <= Capacity,
           NEW k \in Question, NEW S \in Kept(k)
    PROVE  S \subseteq Cached /\ Cardinality(S \cup {k}) <= Capacity
<1>1. IsFiniteSet(Cached) /\ Cardinality(Cached) \in Nat /\ Capacity \in Nat \ {0}
  <2>1. Cached \subseteq Question
    BY DEF Cached
  <2>2. QED
    BY <2>1, FS_Subset, FS_CardinalityType, ServerAssumption
<1>2. CASE k \in Cached
  <2>1. S = Cached /\ S \cup {k} = Cached
    BY <1>2 DEF Kept
  <2>2. QED
    BY <2>1
<1>3. CASE k \notin Cached /\ Cardinality(Cached) < Capacity
  <2>1. S = Cached
    BY <1>3 DEF Kept
  <2>2. Cardinality(Cached \cup {k}) = Cardinality(Cached) + 1
    BY <1>1, <1>3, FS_AddElement
  <2>3. QED
    BY <1>1, <1>3, <2>1, <2>2
<1>4. CASE k \notin Cached /\ ~(Cardinality(Cached) < Capacity)
  <2>1. PICK v \in Cached : S = Cached \ {v}
    BY <1>4 DEF Kept
  <2>2. IsFiniteSet(S) /\ Cardinality(S) = Cardinality(Cached) - 1
    BY <1>1, <2>1, FS_RemoveElement
  <2>3. Cardinality(S \cup {k}) = Cardinality(S) + 1
    BY <1>4, <2>1, <2>2, FS_AddElement
  <2>4. QED
    BY <1>1, <2>1, <2>2, <2>3
<1>5. QED
  BY <1>2, <1>3, <1>4

-----------------------------------------------------------------------------

\* A hit and a put are the only steps that touch the cache.
LEMMA StepKeepsLru ==
    ASSUME IInv, CacheIsLru, [Next]_vars
    PROVE  CacheIsLru'
<1> USE DEF CacheIsLru
<1>1. StrictOrder(older, Cached)
  BY DEF StrictOrder
<1>2. CASE UNCHANGED cacheVars
  BY <1>2 DEF cacheVars, Cached
<1>3. ASSUME NEW q \in Query, CacheHit(q) PROVE CacheIsLru'
  <2> DEFINE k == CacheKey(ask[q])
  <2>1. k \in Cached /\ older' = Touch(Cached, k) /\ Cached' = Cached
    BY <1>3 DEF CacheHit, Cached
  <2>2. StrictOrder(older', Cached)
    <3>1. Cached \cup {k} = Cached
      BY <2>1
    <3>2. QED
      BY <1>1, <2>1, <3>1, TouchOrders
  <2>3. QED
    BY <2>1, <2>2 DEF StrictOrder
<1>4. ASSUME NEW q \in Query, PutAnswer(q) PROVE CacheIsLru'
  <2> DEFINE k == CacheKey(ask[q])
  <2>1. k \in Question /\ reply[q] # NoReply
    BY <1>4, PutStoresAnswer
  <2>2. CachePut(k, reply[q])
    BY <1>4, PutStoresAnswer
  <2>3. PICK S \in Kept(k) :
          /\ cache' = [j \in Question |->
                         IF j = k THEN reply[q] ELSE IF j \in S THEN cache[j] ELSE NoReply]
          /\ older' = Touch(S, k)
    BY <2>2 DEF CachePut
  <2>4. S \subseteq Cached /\ Cardinality(S \cup {k}) <= Capacity
    BY <2>1, PutStaysWithinCapacity DEF IInv
  <2>5. Cached' = S \cup {k}
    BY <2>1, <2>3, <2>4 DEF Cached
  <2>6. StrictOrder(older', Cached')
    BY <1>1, <2>3, <2>4, <2>5, TouchOrders
  <2>7. QED
    BY <2>4, <2>5, <2>6 DEF StrictOrder
<1>5. ASSUME NEW q \in Query, TaskStep(q), ~CacheHit(q), ~PutAnswer(q)
      PROVE  UNCHANGED cacheVars
  BY <1>5 DEF TaskStep, TakeVerdict, WriteLog, ResolveLocally, Refuse, LetPass,
     CacheMiss, Forward, ForwardFails, Send
<1>6. ASSUME NEW q \in Query, Receive(q) \/ ReceiveEmpty(q) \/ ReceiveGarbage(q)
      PROVE  UNCHANGED cacheVars
  BY <1>6 DEF Receive, ReceiveEmpty, ReceiveGarbage
<1>7. ASSUME NEW w \in Writer, WriterQueues(w) \/ WriterGivesUp(w) \/ ChangeRules(w)
      PROVE  UNCHANGED cacheVars
  BY <1>7 DEF WriterQueues, WriterGivesUp, ChangeRules
<1>8. ASSUME ResetSecond \/ ServerFails \/ UNCHANGED vars
      PROVE  UNCHANGED cacheVars
  BY <1>8 DEF ResetSecond, ServerFails, vars, cacheVars
<1>9. QED
  BY <1>2, <1>3, <1>4, <1>5, <1>6, <1>7, <1>8 DEF Next, RequestStep

\* For every capacity and every interleaving of hits and late puts, the cache
\* holds at most its capacity of entries, and their recency is a strict total
\* order of exactly the keys it holds.
THEOREM CacheStaysLru == Spec => []CacheIsLru
<1>1. Init => CacheIsLru
  <2> SUFFICES ASSUME Init PROVE CacheIsLru
    OBVIOUS
  <2>1. Cached = {}
    BY DEF Init, Cached
  <2>2. Cardinality(Cached) <= Capacity
    BY <2>1, FS_EmptySet, ServerAssumption
  <2>3. QED
    BY <2>1, <2>2 DEF Init, CacheIsLru
<1>2. IInv /\ CacheIsLru /\ [Next]_vars => CacheIsLru'
  BY StepKeepsLru
<1>3. QED
  BY Invariance, <1>1, <1>2, PTL DEF Spec

-----------------------------------------------------------------------------
(***************************************************************************)
(* The counters.                                                           *)
(***************************************************************************)

Arrived == {q \in Query : pc[q] # "idle"}

\* Each counter is the size of a set of requests.
Counters ==
    /\ metrics.total = Cardinality(Arrived)
    /\ metrics.hits + metrics.misses = Cardinality(LookedUp)
    /\ metrics.last <= metrics.total

LEMMA RequestSetsAreFinite ==
    /\ IsFiniteSet(Arrived) /\ Cardinality(Arrived) \in Nat
    /\ IsFiniteSet(LookedUp) /\ Cardinality(LookedUp) \in Nat
<1>1. Arrived \subseteq Query /\ LookedUp \subseteq Query
  BY DEF Arrived, LookedUp
<1>2. QED
  BY <1>1, ServerAssumption, FS_Subset, FS_CardinalityType

\* A request that is looked up has arrived.
LEMMA LookedUpArrived ==
    ASSUME IInv
    PROVE  LookedUp \subseteq Arrived
BY DEF IInv, Phases, Carries, Busy, LookedUp, Arrived, NoReply, Plain

\* A datagram is counted as it arrives.
LEMMA ArrivalIsCounted ==
    ASSUME IInv, Counters, NEW q \in Query,
           Receive(q) \/ ReceiveEmpty(q) \/ ReceiveGarbage(q)
    PROVE  Counters'
<1>1. pc[q] = "idle" /\ reply[q] = NoReply
  BY DEF IInv, Phases, Carries, Busy, Receive, ReceiveEmpty, ReceiveGarbage, Respond, Goto
<1>2. Arrived' = Arrived \cup {q} /\ q \notin Arrived
  BY <1>1 DEF Arrived, IInv, TypeOK, Receive, ReceiveEmpty, ReceiveGarbage, Respond, Goto
<1>3. LookedUp' = LookedUp
  BY <1>1 DEF LookedUp, IInv, TypeOK, Receive, ReceiveEmpty, ReceiveGarbage, Respond, Goto,
     NoReply, Plain
<1>4. Cardinality(Arrived') = Cardinality(Arrived) + 1
  BY <1>2, RequestSetsAreFinite, FS_AddElement
<1>5. /\ metrics'.total = metrics.total + 1 /\ metrics'.last = metrics.last + 1
      /\ metrics'.hits = metrics.hits /\ metrics'.misses = metrics.misses
  <2>1. metrics' = Counted
    BY DEF Receive, ReceiveEmpty, ReceiveGarbage
  <2>2. QED
    BY <2>1 DEF Counted, IInv, TypeOK, Metrics
<1>6. QED
  BY <1>3, <1>4, <1>5 DEF Counters, IInv, TypeOK, Metrics

\* A lookup is counted as a hit or as a miss when it is made.
LEMMA LookupIsCounted ==
    ASSUME IInv, Counters, NEW q \in Query, CacheHit(q) \/ CacheMiss(q)
    PROVE  Counters'
<1>1. pc[q] = "cache" /\ reply[q] = NoReply
  BY DEF IInv, Phases, Carries, Busy, CacheHit, CacheMiss, Respond, Goto
<1>2. Arrived' = Arrived
  BY <1>1 DEF Arrived, IInv, TypeOK, CacheHit, CacheMiss, Respond, Goto
<1>3. LookedUp' = LookedUp \cup {q} /\ q \notin LookedUp
  <2>1. q \notin LookedUp
    BY <1>1 DEF LookedUp, NoReply, Plain
  <2>2. CASE CacheHit(q)
    <3>1. reply' = [reply EXCEPT ![q] = cache[CacheKey(ask[q])]]
          /\ cache[CacheKey(ask[q])].kind = "resolved"
      BY <2>2, CachedIsResolved DEF CacheHit, Respond
    <3>2. QED
      BY <1>1, <2>1, <2>2, <3>1 DEF LookedUp, IInv, TypeOK, CacheHit, Respond, Goto
  <2>3. CASE CacheMiss(q)
    BY <1>1, <2>1, <2>3 DEF LookedUp, IInv, TypeOK, CacheMiss, Goto
  <2>4. QED
    BY <2>2, <2>3
<1>4. Cardinality(LookedUp') = Cardinality(LookedUp) + 1
  BY <1>3, RequestSetsAreFinite, FS_AddElement
<1>5. /\ metrics'.total = metrics.total /\ metrics'.last = metrics.last
      /\ metrics'.hits + metrics'.misses = metrics.hits + metrics.misses + 1
  BY DEF CacheHit, CacheMiss, IInv, TypeOK, Metrics
<1>6. QED
  BY <1>2, <1>4, <1>5 DEF Counters

\* Every other step of a task leaves the counters and what they count alone.
LEMMA RestIsNotCounted ==
    ASSUME IInv, Counters, NEW q \in Query, TaskStep(q), ~CacheHit(q), ~CacheMiss(q)
    PROVE  Counters'
<1>1. Arrived' = Arrived /\ metrics' = metrics
  BY DEF Arrived, IInv, TypeOK, TaskStep, TakeVerdict, WriteLog, ResolveLocally, Refuse,
     LetPass, Forward, ForwardFails, PutAnswer, Send, Respond, Goto
<1>2. LookedUp' = LookedUp
  <2> USE DEF LookedUp, IInv, TypeOK, Phases, Carries, Busy, NoReply, Plain, Goto
  <2>1. CASE TakeVerdict(q) \/ WriteLog(q) \/ LetPass(q) \/ Send(q)
    BY <2>1 DEF TakeVerdict, WriteLog, LetPass, Send
  <2>2. CASE ResolveLocally(q) \/ Refuse(q)
    BY <2>2 DEF ResolveLocally, Refuse, Respond, LocalReply
  <2>3. CASE Forward(q) \/ ForwardFails(q)
    BY <2>3 DEF Forward, ForwardFails, Respond, Resolved
  <2>4. CASE PutAnswer(q)
    BY <2>4 DEF PutAnswer, Fetched, Resolved
  <2>5. QED
    BY <2>1, <2>2, <2>3, <2>4 DEF TaskStep
<1>3. QED
  BY <1>1, <1>2 DEF Counters

\* Each request past the filter is counted as exactly one hit or miss, no other
\* request is, and no count exceeds the total, however the requests interleave.
THEOREM LookupsAreCountedOnce == Spec => []LookupsCountedOnce
<1>1. Init => Counters
  <2> SUFFICES ASSUME Init PROVE Counters
    OBVIOUS
  <2>1. Arrived = {} /\ LookedUp = {}
    BY DEF Init, Arrived, LookedUp, NoReply, Plain
  <2>2. QED
    BY <2>1, FS_EmptySet DEF Init, Counters
<1>2. ASSUME IInv, Counters, [Next]_vars PROVE Counters'
  <2>1. ASSUME UNCHANGED <<pc, reply>>,
               \/ UNCHANGED metrics
               \/ metrics' = [metrics EXCEPT !.last = 0]
        PROVE  Counters'
    BY <1>2, <2>1 DEF Counters, Arrived, LookedUp, IInv, TypeOK, Metrics
  <2>2. ASSUME NEW w \in Writer, WriterQueues(w) \/ WriterGivesUp(w) \/ ChangeRules(w) PROVE Counters'
    BY <2>1, <2>2 DEF WriterQueues, WriterGivesUp, ChangeRules
  <2>3. CASE ResetSecond \/ ServerFails \/ UNCHANGED vars
    BY <2>1, <2>3 DEF ResetSecond, ServerFails, vars
  <2>4. QED
    BY <1>2, <2>2, <2>3, ArrivalIsCounted, LookupIsCounted, RestIsNotCounted
       DEF Next, RequestStep, TaskStep
<1>3. IInv /\ Counters => LookupsCountedOnce
  <2> SUFFICES ASSUME IInv, Counters PROVE LookupsCountedOnce
    OBVIOUS
  <2>1. Cardinality(LookedUp) <= Cardinality(Arrived)
    BY LookedUpArrived, RequestSetsAreFinite, FS_Subset
  <2>2. QED
    BY <2>1 DEF Counters, LookupsCountedOnce
<1>4. QED
  BY Invariance, <1>1, <1>2, <1>3, PTL DEF Spec

-----------------------------------------------------------------------------
(***************************************************************************)
(* Where the messages come from.                                           *)
(***************************************************************************)

\* Among the questions f, one asks what m answers.
AskedIn(f, m) == \E r \in Query : f[r] \in Asked /\ f[r].dom = m.dom /\ f[r].qtype = m.qtype

\* Every message in a reply answers a question that was asked, about the domain
\* of its own request.  (Of the cache, CacheIsUpstreams says so already.)
Sourced ==
    \A q \in Query : reply[q].kind = "resolved" =>
        AskedIn(ask, reply[q].answer) /\ reply[q].answer.dom = ask[q].dom

RequestStepOf(r) == Receive(r) \/ ReceiveEmpty(r) \/ ReceiveGarbage(r) \/ TaskStep(r)

\* A question, once asked, stays asked.
LEMMA AskedForLasts ==
    ASSUME IInv, [Next]_vars, NEW m, AskedIn(ask, m)
    PROVE  AskedIn(ask', m)
<1>1. ASSUME NEW q \in Query, Receive(q) PROVE \A r \in Query : ask[r] \in Asked => ask'[r] = ask[r]
  BY <1>1, MessageAssumption
     DEF Receive, Goto, IInv, TypeOK, Phases, Carries, Asked
<1>2. (\A q \in Query : ~Receive(q)) => ask' = ask
  BY DEF Next, RequestStep, TaskStep, ReceiveEmpty, ReceiveGarbage, TakeVerdict, WriteLog,
     ResolveLocally, Refuse, LetPass, CacheHit, CacheMiss, Forward, ForwardFails, PutAnswer,
     Send, WriterQueues, WriterGivesUp, ChangeRules, ResetSecond, ServerFails, vars
<1>3. QED
  BY <1>1, <1>2 DEF AskedIn

LEMMA StepKeepsSourced ==
    ASSUME IInv, Sourced, [Next]_vars
    PROVE  Sourced'
<1> USE DEF Sourced
<1>1. \A k \in Cached : AskedIn(ask, cache[k].answer) /\ cache[k].answer.dom = k
  <2>1. ASSUME NEW k \in Cached PROVE AskedIn(ask, cache[k].answer) /\ cache[k].answer.dom = k
    <3>1. PICK q \in Query : /\ ask[q] # NoAsk /\ ask[q].dom = k
                            /\ cache[k] = Resolved(AnswerTo(ask[q], held[q].upstream))
      BY DEF IInv, CacheIsUpstreams
    <3>2. ask[q] \in Asked
      BY <3>1 DEF IInv, TypeOK
    <3>3. QED
      BY <3>1, <3>2 DEF AskedIn, Resolved, AnswerTo
  <2>2. QED
    BY <2>1
<1>2. ASSUME NEW q \in Query, reply'[q].kind = "resolved"
      PROVE  AskedIn(ask', reply'[q].answer) /\ reply'[q].answer.dom = ask'[q].dom
  <2>1. CASE reply'[q] = reply[q] /\ ask'[q] = ask[q]
    BY <1>2, <2>1, AskedForLasts
  <2>2. CASE CacheHit(q)
    <3>1. CacheKey(ask[q]) \in Cached /\ reply'[q] = cache[CacheKey(ask[q])]
      BY <2>2 DEF CacheHit, Respond, IInv, TypeOK
    <3>2. /\ AskedIn(ask, cache[CacheKey(ask[q])].answer)
          /\ cache[CacheKey(ask[q])].answer.dom = ask[q].dom
      BY <1>1, <3>1 DEF CacheKey
    <3>3. ask' = ask
      BY <2>2 DEF CacheHit
    <3>4. QED
      BY <3>1, <3>2, <3>3
  <2>3. CASE Forward(q)
    <3>1. ask[q] \in Asked /\ ask' = ask
      BY <2>3 DEF Forward, Goto, IInv, Phases, Carries, Busy
    <3>2. reply'[q].answer = AnswerTo(ask[q], held[q].upstream)
      BY <2>3 DEF Forward, Resolved, IInv, TypeOK
    <3>3. QED
      BY <3>1, <3>2 DEF AskedIn, AnswerTo
  <2>4. CASE Receive(q)
    BY <1>2, <2>4 DEF Receive, Goto, IInv, Phases, Carries, Busy, NoReply, Plain
  <2>5. CASE ReceiveEmpty(q) \/ ResolveLocally(q) \/ Refuse(q) \/ ForwardFails(q)
    BY <1>2, <2>5 DEF ReceiveEmpty, ResolveLocally, Refuse, ForwardFails, Respond, IInv, TypeOK,
       Plain, LocalReply
  <2>6. ASSUME NEW r \in Query \ {q}, RequestStepOf(r) PROVE reply'[q] = reply[q] /\ ask'[q] = ask[q]
    BY <2>6 DEF RequestStepOf, TaskStep, Receive, ReceiveEmpty, ReceiveGarbage, TakeVerdict,
       WriteLog, ResolveLocally, Refuse, LetPass, CacheHit, CacheMiss, Forward, ForwardFails,
       PutAnswer, Send, Respond, IInv, TypeOK
  <2>7. CASE \/ ReceiveGarbage(q) \/ TakeVerdict(q) \/ WriteLog(q) \/ LetPass(q)
             \/ CacheMiss(q) \/ PutAnswer(q) \/ Send(q)
    BY <2>1, <2>7 DEF ReceiveGarbage, TakeVerdict, WriteLog, LetPass, CacheMiss, PutAnswer, Send
  <2>8. CASE \/ \E w \in Writer : WriterQueues(w) \/ WriterGivesUp(w) \/ ChangeRules(w)
             \/ ResetSecond \/ ServerFails \/ UNCHANGED vars
    BY <2>1, <2>8 DEF WriterQueues, WriterGivesUp, ChangeRules, ResetSecond, ServerFails, vars
  <2>9. QED
    BY <2>1, <2>2, <2>3, <2>4, <2>5, <2>6, <2>7, <2>8
       DEF Next, RequestStep, RequestStepOf, TaskStep
<1>3. QED
  BY <1>2

\* An answer of another record type than the one asked for is always one that
\* another request asked about the same domain.
THEOREM OtherTypesWereAskedFor == Spec => []OtherTypeWasAskedFor
<1>1. Init => Sourced
  BY DEF Init, Sourced, NoReply, Plain
<1>2. IInv /\ Sourced /\ [Next]_vars => Sourced'
  BY StepKeepsSourced
<1>3. Sourced => OtherTypeWasAskedFor
  BY MessageAssumption DEF Sourced, AskedIn, OtherTypeWasAskedFor, Asked
<1>4. QED
  BY Invariance, <1>1, <1>2, <1>3, PTL DEF Spec

=============================================================================
