----------------------------- MODULE RuleContract -----------------------------
(***************************************************************************)
(* What the control API promises about the rules, with no lock and no file *)
(* in sight.  A request takes effect at most once, in one instant between  *)
(* its arrival and its end, and is acknowledged only after.  A sync        *)
(* replaces the gravity domains by what the lists registered at that       *)
(* instant served. When the engine dies, the rules it comes back with are  *)
(* the ones in force, without the gravity domains, provided that the last  *)
(* save had not failed; if it died in the middle of one, it may come back  *)
(* with the factory settings instead.                                      *)
(***************************************************************************)
EXTENDS RuleConfig

CONSTANTS Call, Ops, NoOp

VARIABLES
    rules,   \* the rules in force, or to be when the engine comes back
    stage,   \* stage[c]: how far request c is
    op,      \* op[c]: what it asks for
    reply,   \* reply[c]: what it was told
    sound    \* the last change has been saved, or is being saved

vars == <<rules, stage, op, reply, sound>>

Stage == {"open", "asked", "saving", "over"}

Init ==
    /\ rules = Load(Absent)
    /\ stage = [c \in Call |-> "open"]
    /\ op = [c \in Call |-> NoOp]
    /\ reply = [c \in Call |-> "none"]
    /\ sound = TRUE

Move(c, from, to) ==
    /\ stage[c] = from
    /\ stage' = [stage EXCEPT ![c] = to]

Told(c, r) == reply' = [reply EXCEPT ![c] = r]

\* A sync is told that it has started, and nothing of how it ended.
Ask(c) ==
    /\ Move(c, "open", "asked")
    /\ \E o \in Ops :
           /\ op' = [op EXCEPT ![c] = o]
           /\ IF o.kind = "sync" THEN Told(c, "started") ELSE UNCHANGED reply
    /\ UNCHANGED <<rules, sound>>

\* Everything the lists registered at this instant may serve.
Served == UNION {Lines(p) : p \in UNION {Pages[u] : u \in rules.urls}}

Effect(o) ==
    \/ /\ o.kind \in Editing
       /\ rules' = Changed(rules, o)
    \/ /\ o.kind = "sync"
       /\ \E domains \in SUBSET Served : rules' = Synced(rules, domains)

\* Only what has taken effect is acknowledged.
Acknowledged(c) == IF op[c].kind = "sync" THEN UNCHANGED reply ELSE Told(c, "success")

TakeEffect(c) ==
    /\ \/ Move(c, "asked", "saving") /\ UNCHANGED reply /\ sound' = TRUE
       \/ Move(c, "asked", "over") /\ Acknowledged(c) /\ sound' = FALSE
    /\ Effect(op[c])
    /\ UNCHANGED op

Saved(c) ==
    /\ Move(c, "saving", "over")
    /\ Acknowledged(c)
    /\ sound' \in BOOLEAN
    /\ UNCHANGED <<rules, op>>

Look(c) ==
    /\ Move(c, "asked", "over")
    /\ op[c].kind = "read"
    /\ Told(c, "success")
    /\ UNCHANGED <<rules, op, sound>>

\* A request whose caller hangs up in time leaves no trace.
Vanish(c) ==
    /\ Move(c, "asked", "over")
    /\ UNCHANGED <<rules, op, reply, sound>>

\* Nor does one for a path that is not served.
Refuse(c) ==
    /\ Move(c, "open", "over")
    /\ \E o \in Ops : op' = [op EXCEPT ![c] = o]
    /\ Told(c, "not_found")
    /\ UNCHANGED <<rules, sound>>

Die ==
    /\ stage' = [c \in Call |-> IF stage[c] = "open" THEN "open" ELSE "over"]
    /\ UNCHANGED <<op, reply>>
    /\ sound' = TRUE
    /\ IF ~sound THEN rules' \in Store /\ rules'.domains = {}
       ELSE \/ rules' = [rules EXCEPT !.domains = {}]
            \/ (\E c \in Call : stage[c] = "saving") /\ rules' = Load(Absent)

Next ==
    \/ \E c \in Call :
           \/ Ask(c)
           \/ TakeEffect(c)
           \/ Saved(c)
           \/ Look(c)
           \/ Vanish(c)
           \/ Refuse(c)
    \/ Die

Spec == Init /\ [][Next]_vars

=============================================================================
