---------------------------- MODULE MCDnsServer ----------------------------
(* A small instance of DnsServer: two names, of which one is on the gravity *)
(* list, and the rule sets a user reaches from there.                       *)
EXTENDS DnsServerProperties, TLC

CONSTANTS ad, ok, ip4, ip6, dns, doh, typo

MCName == {ad, ok}
MCIp == {ip4, ip6}
MCUpstream == {dns, doh, typo}

At(n) == [name |-> n, upper |-> FALSE, dot |-> FALSE]

\* What a request spells: both names, and one of them once more in capitals.
Asking(n, up) == [name |-> n, upper |-> up, dot |-> TRUE]
MCQuestion == {Asking(ad, FALSE), Asking(ok, FALSE)}
MCQuestionCase == MCQuestion \cup {Asking(ok, TRUE)}

NoMapping == [d \in Spelling |-> NoIp]

Base == [whitelist |-> {}, blacklist |-> {}, regex |-> {}, domains |-> {At(ad)},
         mapping |-> NoMapping, aiGuard |-> TRUE, parental |-> FALSE, keywords |-> {},
         profile |-> "Standard", privacy |-> "Default", upstream |-> dns]

\* The list entry is lifted and logging anonymous, through a DoH upstream;
\* the listed name gets a local address and the other is blacklisted;
\* the filter is off, nothing is logged and the upstream does not parse.
MCRuleStates ==
    {Base,
     [Base EXCEPT !.whitelist = {At(ad)}, !.privacy = "Anonymous", !.upstream = doh],
     [Base EXCEPT !.mapping = [NoMapping EXCEPT ![At(ad)] = ip4, ![At(ok)] = ip6],
                  !.blacklist = {At(ok)}],
     [Base EXCEPT !.profile = "DNSOnly", !.privacy = "Ghost", !.upstream = typo]}

\* Nothing is listed and nothing is logged: what remains is the cache.
MCOpenRules == {[Base EXCEPT !.domains = {}, !.privacy = "Ghost"]}

\* One listed name, and the list entry lifted.
MCOneQuestion == {Asking(ad, FALSE)}
MCTwoRules == {Base, [Base EXCEPT !.whitelist = {At(ad)}, !.privacy = "Anonymous"]}

MCQuerySymmetry == Permutations(Query)

=============================================================================
