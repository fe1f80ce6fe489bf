----------------------------- MODULE DnsMessages -----------------------------
(***************************************************************************)
(* The questions the DNS server is asked and the replies it can give       *)
(* (rust-dns-engine/src/dns_server.rs).                                    *)
(***************************************************************************)
EXTENDS Blocklist

CONSTANTS
    Query,      \* requests: one task of the server each
    Question,   \* domains as query.name().to_string() writes them
    Qtype,      \* record types asked for
    Client,     \* source addresses
    Doh,        \* values of upstream_dns that start with "https://"
    SocketAddr, \* values of upstream_dns that parse as a SocketAddr
    Cloudflare, \* "1.1.1.1:53"
    RuleStates, \* the rule sets the control API moves the engine between
    NoAsk,      \* no question decoded from the request (yet)
    NoAnswer,   \* no upstream message
    Hidden,     \* "HIDDEN.DOMAIN"
    NoRow       \* no row in the query log

\* A DNS name is printed fully qualified, with its trailing dot.
ASSUME MessageAssumption ==
    /\ Question \subseteq {d \in Spelling : d.dot}
    /\ RuleStates \subseteq Rules
    /\ Doh \subseteq Upstream
    /\ SocketAddr \subseteq Upstream
    /\ Cloudflare \in SocketAddr
    /\ NoAsk \notin [dom : Question, qtype : Qtype, client : Client]
    /\ NoAnswer \notin [dom : Question, qtype : Qtype, from : Upstream]
    /\ Hidden \notin Question

Asked == [dom : Question, qtype : Qtype, client : Client]

\* A message of an upstream: what it was asked, and who answered.
Answer == [dom : Question, qtype : Qtype, from : Upstream]

Reply == [kind   : {"none", "empty", "local", "blocked", "servfail", "resolved"},
          ip     : Ip \cup {NoIp},
          answer : Answer \cup {NoAnswer}]

Plain(kind) == [kind |-> kind, ip |-> NoIp, answer |-> NoAnswer]

NoReply == Plain("none")

LocalReply(ip) == [kind |-> "local", ip |-> ip, answer |-> NoAnswer]

Resolved(a) == [kind |-> "resolved", ip |-> NoIp, answer |-> a]

Category == {"allowed", "malware", "tracker", "ads"}

\* The columns of the query log that a request fills; app_package is always
\* "unknown".
Row == [domain : Question \cup {Hidden}, client : Client, blocked : BOOLEAN,
        reason : Reason, category : Category]

\* The server a query is sent to: a DoH URL as it is, an address that parses,
\* and the built-in default for anything else.
ServerOf(upstream) ==
    IF upstream \in Doh \cup SocketAddr THEN upstream ELSE Cloudflare

\* The message that comes back from there for the question a.
AnswerTo(a, upstream) == [dom |-> a.dom, qtype |-> a.qtype, from |-> ServerOf(upstream)]

=============================================================================
