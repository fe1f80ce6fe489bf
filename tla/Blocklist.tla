------------------------------ MODULE Blocklist ------------------------------
(***************************************************************************)
(* The rule set of the engine (rust-dns-engine/src/blocklist.rs) as data,  *)
(* and the two pure questions the DNS server asks of it: is_blocked and    *)
(* resolve_local.                                                          *)
(*                                                                         *)
(* A written domain is a record: the name it spells, and the two things    *)
(* about its spelling that the code tells apart, capital letters and the   *)
(* trailing dot.  What a string test finds in a clean name (a regular      *)
(* expression, a keyword, a long name full of digits) is a constant        *)
(* relation on names.                                                      *)
(***************************************************************************)

CONSTANTS
    Name,         \* clean names: lower case, no trailing dot
    Pattern,      \* regular expressions that compile
    PatternHits,  \* pairs <<pattern, name>>: re.is_match
    Keyword,      \* parental-control keywords
    KeywordIn,    \* pairs <<keyword, name>>: domain.contains(kw)
    AiThreat,     \* names AIHeuristic.analyze flags with confidence 0.85
    MeshThreat,   \* names among the seeds of P2PNode.shared_threats
    StrictName,   \* "analytics." or "telemetry." prefix, or "track" inside
    TrackerName,  \* "track" or "telemetry" inside
    Ip,           \* right-hand sides of a local mapping
    Ipv4,         \* those that parse as an Ipv4Addr
    NoIp,         \* no mapping
    Upstream      \* values of upstream_dns

ASSUME NameAssumption ==
    /\ PatternHits \subseteq Pattern \X Name
    /\ KeywordIn \subseteq Keyword \X Name
    /\ AiThreat \subseteq Name
    /\ MeshThreat \subseteq Name
    /\ StrictName \subseteq Name
    /\ TrackerName \subseteq Name
    /\ Ipv4 \subseteq Ip
    /\ NoIp \notin Ip

-----------------------------------------------------------------------------

Spelling == [name : Name, upper : BOOLEAN, dot : BOOLEAN]

\* Mutant: an entry is taken as it was typed.
AsTyped(d) == d

\* to_lowercase
Lower(d) == [d EXCEPT !.upper = FALSE]

\* trim_end_matches('.').to_lowercase()
Clean(d) == [d EXCEPT !.upper = FALSE, !.dot = FALSE]

Profile == {"Standard", "Strict", "DNSOnly"}

Privacy == {"Default", "Anonymous", "Ghost"}

\* The fields of struct Blocklist that a query reads.
Rules == [whitelist : SUBSET Spelling,
          blacklist : SUBSET Spelling,
          regex     : SUBSET Pattern,
          domains   : SUBSET Spelling,
          mapping   : [Spelling -> Ip \cup {NoIp}],
          aiGuard   : BOOLEAN,
          parental  : BOOLEAN,
          keywords  : SUBSET Keyword,
          profile   : Profile,
          privacy   : Privacy,
          upstream  : Upstream]

Reason == {"none", "Whitelisted", "User Blacklisted", "Regex Match",
           "Blocklist Match", "AI Heuristic Block", "P2P Threat",
           "Parental Control", "Strict Mode"}

Block(why) == [blocked |-> TRUE, why |-> why]

Pass(why) == [blocked |-> FALSE, why |-> why]

\* Blocklist::is_blocked: the early returns, in their order.
IsBlocked(r, d) ==
    LET c == Clean(d)
    IN  IF r.profile = "DNSOnly" THEN Pass("none")
        ELSE IF c \in r.whitelist THEN Pass("Whitelisted")
        ELSE IF c \in r.blacklist THEN Block("User Blacklisted")
        ELSE IF \E p \in r.regex : <<p, c.name>> \in PatternHits
             THEN Block("Regex Match")
        ELSE IF c \in r.domains THEN Block("Blocklist Match")
        ELSE IF r.aiGuard /\ c.name \in AiThreat THEN Block("AI Heuristic Block")
        ELSE IF c.name \in MeshThreat THEN Block("P2P Threat")
        ELSE IF r.parental /\ \E k \in r.keywords : <<k, c.name>> \in KeywordIn
             THEN Block("Parental Control")
        ELSE IF r.profile = "Strict" /\ c.name \in StrictName
             THEN Block("Strict Mode")
        ELSE Pass("none")

\* Blocklist::resolve_local
ResolveLocal(r, d) == r.mapping[Clean(d)]

=============================================================================
