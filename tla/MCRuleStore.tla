---------------------------- MODULE MCRuleStore ----------------------------
(* A small instance of RuleStore: one name to list besides pi.hole, two     *)
(* gravity lists, one expression that compiles and one that does not.       *)
EXTENDS RuleStoreProperties, TLC

CONSTANTS ad, hole, home, lan, u1, u2, good, bad, plain, custom

At(n) == [name |-> n, upper |-> FALSE, dot |-> FALSE]
Shout(n) == [name |-> n, upper |-> TRUE, dot |-> FALSE]

MCPiHole == At(hole)

\* u1 serves its list, in capitals, or an error page; u2 an empty list.
MCPages == [u \in {u1, u2} |-> IF u = u1 THEN {{Shout(ad)}, {Shout(hole)}} ELSE {{}}]

\* A backup of another device, edited by hand: one of its expressions does not compile.
MCBackup == [DefaultConfig EXCEPT !.custom_blacklist = {At(ad)},
                                  !.regex_blacklist = {good, bad},
                                  !.settings = custom,
                                  !.last_sync = "synced"]

MCOps == {[kind |-> "whitelist", add |-> TRUE, item |-> Shout(ad)],
          [kind |-> "whitelist", add |-> FALSE, item |-> At(ad)],
          [kind |-> "blacklist", add |-> FALSE, item |-> Shout(ad)],
          [kind |-> "regex", add |-> TRUE, item |-> bad],
          [kind |-> "gravity", add |-> FALSE, item |-> u1],
          [kind |-> "gravity", add |-> TRUE, item |-> u2],
          [kind |-> "local", add |-> TRUE, item |-> Shout(ad), ip |-> lan],
          [kind |-> "restore", config |-> MCBackup],
          [kind |-> "read"], [kind |-> "sync"], [kind |-> "unrouted"]}

\* Additions to two lists and a sync are enough for a save to go wrong; a read and a
\* path that is not served hold nobody up.
MCFewOps == {[kind |-> "whitelist", add |-> TRUE, item |-> Shout(ad)],
             [kind |-> "gravity", add |-> TRUE, item |-> u2],
             [kind |-> "sync"], [kind |-> "read"], [kind |-> "unrouted"]}

MCCallSymmetry == Permutations(Call)

=============================================================================
