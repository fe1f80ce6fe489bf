------------------------- MODULE DnsContractProofs -------------------------
(***************************************************************************)
(* DnsServer implements QueryContract: each step of a request's task is a  *)
(* step of the contract or invisible to it.                                *)
(***************************************************************************)
EXTENDS DnsServerProofs

\* The contract speaks of the same questions, verdicts and replies.
LEMMA SameWords ==
    /\ Contract!Asked = Asked /\ Contract!Answer = Answer /\ Contract!Row = Row
    /\ Contract!NoReply = NoReply
    /\ \A kind : Contract!Plain(kind) = Plain(kind)
    /\ \A ip : Contract!LocalReply(ip) = LocalReply(ip)
    /\ \A m : Contract!Resolved(m) = Resolved(m)
<1>1. Contract!Asked = Asked
  BY DEF Contract!Asked, Asked
<1>2. Contract!Answer = Answer
  BY DEF Contract!Answer, Answer
<1>3. Contract!Row = Row
  BY DEF Contract!Row, Row, Contract!Reason, Reason, Contract!Category, Category
<1>4. \A kind : Contract!Plain(kind) = Plain(kind)
  BY DEF Contract!Plain, Plain
<1>5. \A ip : Contract!LocalReply(ip) = LocalReply(ip)
  BY DEF Contract!LocalReply, LocalReply
<1>6. \A m : Contract!Resolved(m) = Resolved(m)
  BY DEF Contract!Resolved, Resolved
<1>7. Contract!NoReply = NoReply
  BY <1>4 DEF Contract!NoReply, NoReply
<1>8. QED
  BY <1>1, <1>2, <1>3, <1>4, <1>5, <1>6, <1>7

\* The contract judges and maps as the code does.
LEMMA SameJudgement ==
    /\ \A r, d : Contract!IsBlocked(r, d) = IsBlocked(r, d)
    /\ \A r, d : Contract!ResolveLocal(r, d) = ResolveLocal(r, d)
<1>1. \A r, d : Contract!IsBlocked(r, d) = IsBlocked(r, d)
  BY DEF Contract!IsBlocked, IsBlocked, Contract!Clean, Clean, Contract!Block, Block,
     Contract!Pass, Pass
<1>2. \A r, d : Contract!ResolveLocal(r, d) = ResolveLocal(r, d)
  BY DEF Contract!ResolveLocal, ResolveLocal, Contract!Clean, Clean
<1>3. QED
  BY <1>1, <1>2

-----------------------------------------------------------------------------
(***************************************************************************)
(* How a step of the server looks through the mapping.                     *)
(***************************************************************************)

\* A task step that moves q from one stage to another, and nobody else.
LEMMA OneStageMoves ==
    ASSUME IInv, NEW q \in Query, NEW to \in Pc, pc' = [pc EXCEPT ![q] = to],
           \A r \in Query \ {q} : ask'[r] = ask[r]
    PROVE  Stages' = [Stages EXCEPT ![q] = StageOf(q)']
BY DEF Stages, StageOf, IInv, TypeOK

LEMMA ReplyStays ==
    ASSUME UNCHANGED <<ask, reply>>
    PROVE  Replies' = Replies
BY DEF Replies

LEMMA OneReplyGiven ==
    ASSUME IInv, NEW q \in Query, NEW r, ask[q] # NoAsk, UNCHANGED ask,
           reply' = [reply EXCEPT ![q] = r]
    PROVE  Replies' = [Replies EXCEPT ![q] = r]
BY DEF Replies, IInv, TypeOK

LEMMA VerdictStays ==
    ASSUME UNCHANGED held
    PROVE  Verdicts' = Verdicts
BY DEF Verdicts

-----------------------------------------------------------------------------

LEMMA InitKeepsContract == Init => Contract!Init
<1> SUFFICES ASSUME Init PROVE Contract!Init
  OBVIOUS
<1>1. Stages = [q \in Query |-> "open"]
  BY DEF Init, Stages, StageOf
<1>2. Verdicts = [q \in Query |-> Contract!Unjudged]
  BY DEF Init, Verdicts, NotHeld, Contract!Unjudged
<1>3. Replies = [q \in Query |-> NoReply]
  BY DEF Init, Replies
<1>4. QED
  BY <1>1, <1>2, <1>3, SameWords DEF Init, Contract!Init

LEMMA ReceiveAsks ==
    ASSUME IInv, NEW q \in Query, Receive(q)
    PROVE  Contract!Ask(q)
<1>1. pc[q] = "idle" /\ ask[q] = NoAsk /\ reply[q] = NoReply
  BY DEF IInv, Phases, Carries, Busy, Receive, Goto
<1>2. PICK a \in Asked : ask' = [ask EXCEPT ![q] = a]
  BY DEF Receive
<1>3. a # NoAsk
  BY MessageAssumption DEF Asked
<1>4. StageOf(q) = "open" /\ StageOf(q)' = "asked"
  BY <1>1, <1>2, <1>3 DEF StageOf, Receive, Goto, IInv, TypeOK
<1>5. Stages' = [Stages EXCEPT ![q] = "asked"]
  BY <1>2, <1>4, OneStageMoves DEF Receive, Goto, Pc, IInv, TypeOK
<1>6. Replies' = Replies
  BY <1>1, <1>2, <1>3 DEF Replies, Receive, IInv, TypeOK
<1>7. QED
  BY <1>2, <1>4, <1>5, <1>6, VerdictStays, SameWords
     DEF Contract!Ask, Contract!Move, Stages, Receive

LEMMA TakeVerdictJudges ==
    ASSUME IInv, NEW q \in Query, TakeVerdict(q)
    PROVE  Contract!Judge(q)
<1> DEFINE v == IsBlocked(rules, ask[q].dom)
<1>1. pc[q] = "verdict" /\ ask[q] # NoAsk /\ UNCHANGED ask
  BY MessageAssumption DEF IInv, Phases, Carries, Busy, Asked, TakeVerdict, Goto
<1>2. StageOf(q) = "asked" /\ StageOf(q)' = "judged"
  BY <1>1 DEF StageOf, TakeVerdict, Goto, IInv, TypeOK
<1>3. Stages' = [Stages EXCEPT ![q] = "judged"]
  BY <1>1, <1>2, OneStageMoves DEF TakeVerdict, Goto, Pc
<1>4. Verdicts' = [Verdicts EXCEPT ![q] = [blocked |-> v.blocked, why |-> v.why,
                                           privacy |-> rules.privacy]]
  BY DEF Verdicts, TakeVerdict, IInv, TypeOK
<1>5. UNCHANGED <<rules, log>> /\ Replies' = Replies
  BY ReplyStays DEF TakeVerdict
<1>6. QED
  BY <1>1, <1>2, <1>3, <1>4, <1>5, SameJudgement
     DEF Contract!Judge, Contract!Move, Stages

LEMMA WriteLogRecords ==
    ASSUME IInv, NEW q \in Query, WriteLog(q)
    PROVE  Contract!Record(q) \/ UNCHANGED Contract!vars
<1>1. pc[q] = "log" /\ ask[q] \in Asked /\ ask[q] # NoAsk /\ log[q] = NoRow
  BY MessageAssumption DEF IInv, Phases, Carries, Busy, Asked, WriteLog, Goto
<1>2. StageOf(q) = "judged" /\ StageOf(q)' = "judged"
  BY <1>1 DEF StageOf, WriteLog, Goto, IInv, TypeOK
<1>3. Stages' = Stages
  <2>1. Stages' = [Stages EXCEPT ![q] = "judged"]
    BY <1>2, OneStageMoves DEF WriteLog, Goto, Pc
  <2>2. QED
    BY <1>2, <2>1 DEF Stages
<1>4. UNCHANGED <<rules, ask, held>> /\ Replies' = Replies /\ Verdicts' = Verdicts
  BY ReplyStays, VerdictStays DEF WriteLog
<1>5. CASE UNCHANGED log
  BY <1>3, <1>4, <1>5 DEF Contract!vars
<1>6. CASE held[q].privacy # "Ghost" /\ log' = [log EXCEPT ![q] = RowOf(held[q], ask[q])]
  <2> DEFINE row == RowOf(held[q], ask[q])
  <2>1. row \in Row
    BY <1>1, RowIsTyped DEF IInv, TypeOK
  <2>2. /\ row.blocked = held[q].blocked
        /\ row.reason = held[q].why
        /\ row.domain = IF held[q].privacy = "Anonymous" THEN Hidden ELSE ask[q].dom
    BY DEF RowOf
  <2>3. /\ Verdicts[q].blocked = held[q].blocked
        /\ Verdicts[q].why = held[q].why
        /\ Verdicts[q].privacy = held[q].privacy
    BY DEF Verdicts
  <2>4. log' = [log EXCEPT ![q] = row]
    BY <1>6
  <2>5. Stages[q] = "judged"
    BY <1>2 DEF Stages
  <2> HIDE DEF row
  <2>6. Contract!Record(q)
    BY <1>1, <1>3, <1>4, <1>6, <2>1, <2>2, <2>3, <2>4, <2>5, SameWords DEF Contract!Record
  <2>7. QED
    BY <2>6
<1>7. QED
  BY <1>5, <1>6 DEF WriteLog

\* The three ways on from the second critical section.
LEMMA RouteIsContracts ==
    ASSUME IInv, NEW q \in Query
    PROVE  /\ ResolveLocally(q) => Contract!RouteLocal(q)
           /\ Refuse(q) => Contract!Refuse(q)
           /\ LetPass(q) => Contract!LetPass(q)
<1>1. Verdicts[q].blocked = held[q].blocked
  BY DEF Verdicts
<1>2. ASSUME ResolveLocally(q) PROVE Contract!RouteLocal(q)
  <2>1. pc[q] = "local" /\ ask[q] # NoAsk /\ UNCHANGED ask
    BY <1>2, MessageAssumption
       DEF IInv, Phases, Carries, Busy, Asked, ResolveLocally, Respond, Goto
  <2>2. StageOf(q) = "judged" /\ StageOf(q)' = "answered"
    BY <1>2, <2>1 DEF StageOf, ResolveLocally, Respond, Goto, IInv, TypeOK
  <2>3. Stages' = [Stages EXCEPT ![q] = "answered"]
    BY <1>2, <2>1, <2>2, OneStageMoves DEF ResolveLocally, Respond, Goto, Pc
  <2>4. Replies' = [Replies EXCEPT ![q] = LocalReply(ResolveLocal(rules, ask[q].dom))]
    BY <1>2, <2>1, OneReplyGiven DEF ResolveLocally, Respond
  <2>5. QED
    BY <1>2, <2>1, <2>2, <2>3, <2>4, VerdictStays, SameJudgement, SameWords
       DEF ResolveLocally, Contract!RouteLocal, Contract!Move, Stages
<1>3. ASSUME Refuse(q) PROVE Contract!Refuse(q)
  <2>1. pc[q] = "local" /\ ask[q] # NoAsk /\ UNCHANGED ask
    BY <1>3, MessageAssumption
       DEF IInv, Phases, Carries, Busy, Asked, Refuse, Respond, Goto
  <2>2. StageOf(q) = "judged" /\ StageOf(q)' = "answered"
    BY <1>3, <2>1 DEF StageOf, Refuse, Respond, Goto, IInv, TypeOK
  <2>3. Stages' = [Stages EXCEPT ![q] = "answered"]
    BY <1>3, <2>1, <2>2, OneStageMoves DEF Refuse, Respond, Goto, Pc
  <2>4. Replies' = [Replies EXCEPT ![q] = Plain("blocked")]
    BY <1>3, <2>1, OneReplyGiven DEF Refuse, Respond
  <2>5. QED
    BY <1>1, <1>3, <2>1, <2>2, <2>3, <2>4, VerdictStays, SameJudgement, SameWords
       DEF Refuse, Contract!Refuse, Contract!Move, Stages
<1>4. ASSUME LetPass(q) PROVE Contract!LetPass(q)
  <2>1. pc[q] = "local" /\ ask[q] # NoAsk /\ UNCHANGED ask
    BY <1>4, MessageAssumption DEF IInv, Phases, Carries, Busy, Asked, LetPass, Goto
  <2>2. StageOf(q) = "judged" /\ StageOf(q)' = "passed"
    BY <1>4, <2>1 DEF StageOf, LetPass, Goto, IInv, TypeOK
  <2>3. Stages' = [Stages EXCEPT ![q] = "passed"]
    BY <1>4, <2>1, <2>2, OneStageMoves DEF LetPass, Goto, Pc
  <2>4. QED
    BY <1>1, <1>4, <2>1, <2>2, <2>3, VerdictStays, ReplyStays, SameJudgement
       DEF LetPass, Contract!LetPass, Contract!Move, Stages
<1>5. QED
  BY <1>2, <1>3, <1>4

\* An answer given past the filter is the contract's Resolve.
LEMMA AnswerResolves ==
    ASSUME IInv, NEW q \in Query, pc[q] \in {"cache", "forward"},
           NEW to \in {"put", "send"}, pc' = [pc EXCEPT ![q] = to],
           NEW r, reply' = [reply EXCEPT ![q] = r],
           r = Plain("servfail") \/ \E m \in Answer : m.dom = ask[q].dom /\ r = Resolved(m),
           UNCHANGED <<rules, ask, held, log>>
    PROVE  Contract!Resolve(q)
<1>1. ask[q] # NoAsk
  BY MessageAssumption DEF IInv, Phases, Carries, Busy, Asked
<1>2. StageOf(q) = "passed" /\ StageOf(q)' = "answered"
  BY <1>1 DEF StageOf, IInv, TypeOK
<1>3. Stages' = [Stages EXCEPT ![q] = "answered"]
  BY <1>2, OneStageMoves DEF Pc
<1>4. Replies' = [Replies EXCEPT ![q] = r]
  BY <1>1, OneReplyGiven
<1>5. QED
  BY <1>2, <1>3, <1>4, VerdictStays, SameWords DEF Contract!Resolve, Contract!Move, Stages

LEMMA PastFilterIsContracts ==
    ASSUME IInv, NEW q \in Query, CacheHit(q) \/ Forward(q) \/ ForwardFails(q)
    PROVE  Contract!Resolve(q)
<1>1. CASE CacheHit(q)
  <2> DEFINE k == CacheKey(ask[q])
  <2>1. k \in Cached
    BY <1>1 DEF CacheHit
  <2>2. \E m \in Answer : m.dom = ask[q].dom /\ cache[k] = Resolved(m)
    <3>1. PICK r \in Query : /\ ask[r] # NoAsk /\ ask[r].dom = k
                            /\ cache[k] = Resolved(AnswerTo(ask[r], held[r].upstream))
      BY <2>1 DEF IInv, CacheIsUpstreams
    <3>2. ask[r] \in Asked /\ held[r].upstream \in Upstream
      BY <3>1 DEF IInv, TypeOK, Held
    <3>3. AnswerTo(ask[r], held[r].upstream) \in Answer
      BY <3>2, FetchedIsReply
    <3>4. QED
      BY <3>1, <3>3 DEF AnswerTo, CacheKey
  <2> HIDE DEF k
  <2>3. reply' = [reply EXCEPT ![q] = cache[k]] /\ pc' = [pc EXCEPT ![q] = "send"]
    BY <1>1 DEF CacheHit, Respond, Goto, k
  <2>4. pc[q] = "cache" /\ UNCHANGED <<rules, ask, held, log>>
    BY <1>1 DEF CacheHit, lockVars
  <2>5. QED
    BY <2>2, <2>3, <2>4, AnswerResolves
<1>2. CASE Forward(q)
  <2>1. /\ reply' = [reply EXCEPT ![q] = Fetched(q)]
        /\ \E m \in Answer : m.dom = ask[q].dom /\ Fetched(q) = Resolved(m)
    <3>1. ask[q] \in Asked /\ held[q].upstream \in Upstream
      BY <1>2 DEF Forward, Goto, IInv, Phases, Carries, Busy, TypeOK, Held
    <3>2. AnswerTo(ask[q], held[q].upstream) \in Answer
      BY <3>1, FetchedIsReply
    <3>3. QED
      BY <1>2, <3>2 DEF Forward, Fetched, AnswerTo
  <2>2. /\ pc[q] = "forward" /\ pc' = [pc EXCEPT ![q] = "put"]
        /\ UNCHANGED <<rules, ask, held, log>>
    BY <1>2 DEF Forward, Goto, lockVars
  <2>3. QED
    BY <2>1, <2>2, AnswerResolves
<1>3. CASE ForwardFails(q)
  <2>1. /\ pc[q] = "forward" /\ pc' = [pc EXCEPT ![q] = "send"]
        /\ reply' = [reply EXCEPT ![q] = Plain("servfail")]
        /\ UNCHANGED <<rules, ask, held, log>>
    BY <1>3 DEF ForwardFails, Respond, Goto, lockVars
  <2>2. QED
    BY <2>1, AnswerResolves
<1>4. QED
  BY <1>1, <1>2, <1>3

\* Steps the contract does not see: a datagram without a question, a cache miss,
\* the put, the send, and the lock.
LEMMA RestIsInvisible ==
    ASSUME IInv,
           \/ \E q \in Query : \/ ReceiveEmpty(q) \/ ReceiveGarbage(q) \/ CacheMiss(q)
                              \/ PutAnswer(q) \/ Send(q)
           \/ \E w \in Writer : WriterQueues(w) \/ WriterGivesUp(w)
           \/ ResetSecond
           \/ ServerFails
           \/ UNCHANGED vars
    PROVE  UNCHANGED Contract!vars
<1>1. ASSUME NEW q \in Query, ReceiveEmpty(q) \/ ReceiveGarbage(q)
      PROVE  UNCHANGED Contract!vars
  <2>1. ask[q] = NoAsk
    BY <1>1 DEF IInv, Phases, Carries, ReceiveEmpty, ReceiveGarbage, Respond, Goto
  <2>2. Stages' = Stages
    BY <1>1, <2>1 DEF Stages, StageOf, ReceiveEmpty, ReceiveGarbage, Respond, Goto, IInv, TypeOK
  <2>3. Replies' = Replies
    BY <1>1, <2>1 DEF Replies, ReceiveEmpty, ReceiveGarbage, Respond, IInv, TypeOK
  <2>4. QED
    BY <1>1, <2>2, <2>3, VerdictStays DEF Contract!vars, ReceiveEmpty, ReceiveGarbage, lockVars
<1>2. ASSUME NEW q \in Query, CacheMiss(q) \/ PutAnswer(q) \/ Send(q)
      PROVE  UNCHANGED Contract!vars
  <2>1. Stages' = Stages
    BY <1>2 DEF Stages, StageOf, CacheMiss, PutAnswer, Send, Goto, IInv, TypeOK
  <2>2. UNCHANGED <<rules, ask, held, log, reply>>
    BY <1>2 DEF CacheMiss, PutAnswer, Send, lockVars
  <2>3. QED
    BY <2>1, <2>2, VerdictStays, ReplyStays DEF Contract!vars
<1>3. ASSUME \/ \E w \in Writer : WriterQueues(w) \/ WriterGivesUp(w)
             \/ ResetSecond \/ ServerFails \/ UNCHANGED vars
      PROVE  UNCHANGED Contract!vars
  <2>1. UNCHANGED <<rules, pc, ask, held, log, reply>>
    BY <1>3 DEF WriterQueues, WriterGivesUp, ResetSecond, ServerFails, vars, lockVars
  <2>2. Stages' = Stages
    BY <2>1 DEF Stages, StageOf
  <2>3. QED
    BY <2>1, <2>2, VerdictStays, ReplyStays DEF Contract!vars
<1>4. QED
  BY <1>1, <1>2, <1>3

LEMMA ChangeRulesChanges ==
    ASSUME IInv, NEW w \in Writer, ChangeRules(w)
    PROVE  Contract!Change
<1>1. UNCHANGED <<pc, ask, held, log, reply>> /\ rules' \in RuleStates
  BY DEF ChangeRules
<1>2. Stages' = Stages
  BY <1>1 DEF Stages, StageOf
<1>3. QED
  BY <1>1, <1>2, VerdictStays, ReplyStays DEF Contract!Change

-----------------------------------------------------------------------------

\* The DNS server implements the contract of one query, whatever the rules, the
\* writers, the interleaving of the requests and the capacity of the cache: each
\* query is judged once and routed once, each time by the rules of one instant,
\* its row tells that verdict at the privacy level of that instant, and a query
\* judged blocked is never answered from the cache or by an upstream.
THEOREM ServerKeepsContract == Spec => KeepsContract
<1>1. IInv /\ [Next]_vars => [Contract!Next]_(Contract!vars)
  <2> SUFFICES ASSUME IInv, [Next]_vars
               PROVE  Contract!Next \/ UNCHANGED Contract!vars
    OBVIOUS
  <2>1. ASSUME NEW q \in Query, Receive(q) \/ TakeVerdict(q) PROVE Contract!Next
    BY <2>1, ReceiveAsks, TakeVerdictJudges DEF Contract!Next
  <2>2. ASSUME NEW q \in Query, WriteLog(q) PROVE Contract!Next \/ UNCHANGED Contract!vars
    BY <2>2, WriteLogRecords DEF Contract!Next
  <2>3. ASSUME NEW q \in Query, ResolveLocally(q) \/ Refuse(q) \/ LetPass(q)
        PROVE Contract!Next
    BY <2>3, RouteIsContracts DEF Contract!Next
  <2>4. ASSUME NEW q \in Query, CacheHit(q) \/ Forward(q) \/ ForwardFails(q)
        PROVE Contract!Next
    BY <2>4, PastFilterIsContracts DEF Contract!Next
  <2>5. ASSUME NEW w \in Writer, ChangeRules(w) PROVE Contract!Next
    BY <2>5, ChangeRulesChanges DEF Contract!Next
  <2>6. QED
    BY <2>1, <2>2, <2>3, <2>4, <2>5, RestIsInvisible DEF Next, RequestStep, TaskStep
<1>2. QED
  BY InitKeepsContract, Invariance, <1>1, PTL DEF Spec, KeepsContract, Contract!Spec

=============================================================================
