---------------------------- MODULE QueryContract ----------------------------
(***************************************************************************)
(* What the engine promises about one query, with no lock, no cache and no *)
(* task in sight.  The rules change atomically.  A query is judged once,   *)
(* by the rules of one instant after it was asked, and the privacy level   *)
(* of that same instant says what the log may record of it.  Once judged,  *)
(* it is routed once, by the rules of one later instant: to its local      *)
(* mapping if it has one, to a refusal if it was judged blocked, and only  *)
(* otherwise upstream.  Whatever an upstream is quoted as saying is about  *)
(* the domain that was asked.                                              *)
(***************************************************************************)
EXTENDS DnsMessages

VARIABLES
    rules,   \* the rules in force
    asked,   \* asked[q]: what q asked, or NoAsk
    stage,   \* stage[q]: how far q is
    judged,  \* judged[q]: the verdict on q and the privacy level it came with
    log,     \* log[q]: what the query log records of q
    reply    \* reply[q]: the answer given

vars == <<rules, asked, stage, judged, log, reply>>

Stage == {"open", "asked", "judged", "passed", "answered"}

Verdict == [blocked : BOOLEAN, why : Reason, privacy : Privacy]

Unjudged == [blocked |-> FALSE, why |-> "none", privacy |-> "Default"]

Init ==
    /\ rules \in RuleStates
    /\ asked = [q \in Query |-> NoAsk]
    /\ stage = [q \in Query |-> "open"]
    /\ judged = [q \in Query |-> Unjudged]
    /\ log = [q \in Query |-> NoRow]
    /\ reply = [q \in Query |-> NoReply]

Change ==
    /\ rules' \in RuleStates
    /\ UNCHANGED <<asked, stage, judged, log, reply>>

Move(q, from, to) ==
    /\ stage[q] = from
    /\ stage' = [stage EXCEPT ![q] = to]

Ask(q) ==
    /\ Move(q, "open", "asked")
    /\ \E a \in Asked : asked' = [asked EXCEPT ![q] = a]
    /\ UNCHANGED <<rules, judged, log, reply>>

Judge(q) ==
    LET v == IsBlocked(rules, asked[q].dom)
    IN  /\ Move(q, "asked", "judged")
        /\ judged' = [judged EXCEPT ![q] = [blocked |-> v.blocked, why |-> v.why,
                                            privacy |-> rules.privacy]]
        /\ UNCHANGED <<rules, asked, log, reply>>

\* The log tells the verdict, and the domain unless it is to be hidden.
Record(q) ==
    /\ stage[q] = "judged"
    /\ judged[q].privacy # "Ghost"
    /\ log[q] = NoRow
    /\ \E row \in Row :
           /\ row.blocked = judged[q].blocked
           /\ row.reason = judged[q].why
           /\ row.domain = IF judged[q].privacy = "Anonymous" THEN Hidden ELSE asked[q].dom
           /\ log' = [log EXCEPT ![q] = row]
    /\ UNCHANGED <<rules, asked, stage, judged, reply>>

RouteLocal(q) ==
    LET ip == ResolveLocal(rules, asked[q].dom)
    IN  /\ Move(q, "judged", "answered")
        /\ ip \in Ipv4
        /\ reply' = [reply EXCEPT ![q] = LocalReply(ip)]
        /\ UNCHANGED <<rules, asked, judged, log>>

Refuse(q) ==
    /\ Move(q, "judged", "answered")
    /\ judged[q].blocked
    /\ ResolveLocal(rules, asked[q].dom) \notin Ipv4
    /\ reply' = [reply EXCEPT ![q] = Plain("blocked")]
    /\ UNCHANGED <<rules, asked, judged, log>>

LetPass(q) ==
    /\ Move(q, "judged", "passed")
    /\ ~judged[q].blocked
    /\ ResolveLocal(rules, asked[q].dom) \notin Ipv4
    /\ UNCHANGED <<rules, asked, judged, log, reply>>

Resolve(q) ==
    /\ Move(q, "passed", "answered")
    /\ \/ reply' = [reply EXCEPT ![q] = Plain("servfail")]
       \/ \E a \in Answer :
              /\ a.dom = asked[q].dom
              /\ reply' = [reply EXCEPT ![q] = Resolved(a)]
    /\ UNCHANGED <<rules, asked, judged, log>>

Next ==
    \/ Change
    \/ \E q \in Query :
           \/ Ask(q)
           \/ Judge(q)
           \/ Record(q)
           \/ RouteLocal(q)
           \/ Refuse(q)
           \/ LetPass(q)
           \/ Resolve(q)

Spec == Init /\ [][Next]_vars

=============================================================================
