------------------------- MODULE RuleStoreProperties -------------------------
(***************************************************************************)
(* What the rule store must get right that its steps alone can say; for    *)
(* what needs a history see RuleStoreHistory.                              *)
(***************************************************************************)
EXTENDS RuleStore

Saving(c) == pc[c] = "save"

\* The rules in force, or the ones a restart will bring back.
RulesToBe == IF engine = "up" THEN store ELSE Load(file)

\* README.md:84: "Manual override management. Always allow essential services",
\* README.md:35: "persistent, high-priority service with crash recovery".  An
\* entry whose addition to the whitelist was acknowledged is on it as long as
\* no other request has to do with the whitelist.
AckedRulesSurvive ==
    \A c \in Call :
        /\ op[c] # NoOp /\ reply[c] = "success"
        /\ op[c].kind = "whitelist" /\ op[c].add
        /\ engine = "up" /\ errors = 0
        /\ \A d \in Call \ {c} : op[d] # NoOp => op[d].kind \notin {"whitelist", "restore"}
        => Lower(op[c].item) \in store.whitelist

\* The rule mutex is queued for once per wait, and exactly by the requests that
\* wait for it, sync or save: none of them keeps it when it is answered, when its
\* caller hangs up or when its save fails, and a sync or a save is its holder's.
StoreLockDiscipline ==
    /\ NoneTwice
    /\ \A c \in Call : Queued(c) <=> pc[c] \in {"wait", "fetch", "save"}
    /\ \A c \in Call : pc[c] \in {"fetch", "save"} => Holds(c)

\* Only a download can hold the others up: if every sync's downloads end, then
\* every request ends, whoever hangs up and whenever the process dies.
HeldUpByFetchOnly ==
    (\A c \in Call : []<>(pc[c] # "fetch"))
        => \A c \in Call : pc[c] \in {"spawned", "wait", "save"} ~> pc[c] \in {"done", "gone"}

=============================================================================
