------------------------------ MODULE RuleStore ------------------------------
(***************************************************************************)
(* The rules behind their mutex, the config file they are saved to, and    *)
(* the handlers of the control API that read and change them               *)
(* (rust-dns-engine/src/api.rs, blocklist.rs), across deaths and restarts  *)
(* of the process that runs the engine.                                    *)
(*                                                                         *)
(* A handler waits for the mutex, and its future is dropped if the caller  *)
(* hangs up before it has it.  With the mutex it runs to its end without   *)
(* an await; the process can die inside fs::write, between the truncation  *)
(* of the file and the end of its text.  A sync is a task of its own,      *)
(* answered before it starts, that awaits one download after the other     *)
(* with the mutex in its hand.                                             *)
(***************************************************************************)
EXTENDS RuleConfig, FairMutex

CONSTANTS
    Call,       \* requests of the control API
    Ops,        \* what they may ask for
    NoOp,       \* nothing yet
    MaxDeaths,  \* bound: times the process dies
    MaxErrors   \* bound: writes of the file that fail

ASSUME StoreAssumption ==
    /\ Ops \subseteq Op
    /\ NoOp \notin Ops
    /\ MaxDeaths \in Nat
    /\ MaxErrors \in Nat

VARIABLES
    store,   \* the Blocklist behind the mutex
    file,    \* the config file
    engine,  \* "up" or "down"
    pc,      \* pc[c]: where request c is
    op,      \* op[c]: what it asks for
    reply,   \* reply[c]: its answer
    todo,    \* the URLs a running sync has left to fetch
    found,   \* the domains it has found
    deaths, errors

syncVars == <<todo, found>>
bounds == <<deaths, errors>>
vars == <<store, file, engine, queue, pc, op, reply, todo, found, deaths, errors>>

Pc == {"idle", "spawned", "wait", "fetch", "save", "done", "gone"}

StoreTypeOK ==
    /\ store \in Store
    /\ file \in Config \cup {Absent, Torn}
    /\ engine \in {"up", "down"}
    /\ queue \in Seq(Call)
    /\ pc \in [Call -> Pc]
    /\ op \in [Call -> Ops \cup {NoOp}]
    /\ reply \in [Call -> {"none", "success", "started", "not_found"}]
    /\ todo \in SUBSET Url
    /\ found \in SUBSET Spelling
    /\ deaths \in 0..MaxDeaths
    /\ errors \in 0..MaxErrors

Init ==
    /\ store = Load(Absent)
    /\ file = Absent
    /\ engine = "up"
    /\ queue = <<>>
    /\ pc = [c \in Call |-> "idle"]
    /\ op = [c \in Call |-> NoOp]
    /\ reply = [c \in Call |-> "none"]
    /\ todo = {}
    /\ found = {}
    /\ deaths = 0
    /\ errors = 0

-----------------------------------------------------------------------------

Goto(c, from, to) ==
    /\ engine = "up"
    /\ pc[c] = from
    /\ pc' = [pc EXCEPT ![c] = to]

Answer(c, r) == reply' = [reply EXCEPT ![c] = r]

Asking(c, kinds) ==
    \E o \in Ops :
        /\ o.kind \in kinds
        /\ op' = [op EXCEPT ![c] = o]

\* A request reaches its handler, which waits for the rules.
CallHandler(c) ==
    /\ Goto(c, "idle", "wait")
    /\ Asking(c, Editing \cup {"read"})
    /\ Join(c)
    /\ UNCHANGED <<store, file, engine, reply, syncVars, bounds>>

\* A sync is spawned and answered at once;
CallSync(c) ==
    /\ Goto(c, "idle", "spawned")
    /\ Asking(c, {"sync"})
    /\ Answer(c, "started")
    /\ UNCHANGED <<store, file, engine, queue, syncVars, bounds>>

\* its task waits for the rules like a handler.
SyncQueues(c) ==
    /\ Goto(c, "spawned", "wait")
    /\ Join(c)
    /\ UNCHANGED <<store, file, engine, op, reply, syncVars, bounds>>

\* The profile and privacy handlers are not among the routes served, and the
\* upstream has no handler.
CallUnrouted(c) ==
    /\ Goto(c, "idle", "done")
    /\ Asking(c, {"unrouted"})
    /\ Answer(c, "not_found")
    /\ UNCHANGED <<store, file, engine, queue, syncVars, bounds>>

\* Mutant: the dropped waiter is still handed the lock.
HangUpQueued(c) ==
    /\ Goto(c, "wait", "gone")
    /\ op[c].kind # "sync"
    /\ UNCHANGED <<store, file, engine, queue, op, reply, syncVars, bounds>>

\* The caller's connection goes while its handler waits.
HangUp(c) ==
    /\ Goto(c, "wait", "gone")
    /\ op[c].kind # "sync"
    /\ Abandon(c)
    /\ UNCHANGED <<store, file, engine, op, reply, syncVars, bounds>>

\* stats, backup and lookup.
Read(c) ==
    /\ Goto(c, "wait", "done")
    /\ op[c].kind = "read"
    /\ Leave(c)
    /\ Answer(c, "success")
    /\ UNCHANGED <<store, file, engine, op, syncVars, bounds>>

\* An edit is acknowledged, a sync was answered long before.
Acknowledge(c) == IF op[c].kind = "sync" THEN UNCHANGED reply ELSE Answer(c, "success")

\* The head of save_config: fs::write truncates the file.  If it cannot be
\* opened the error is ignored, and the request is over.
BeginSave(c, from) ==
    \/ /\ Goto(c, from, "save")
       /\ file' = Torn
       /\ UNCHANGED <<queue, reply, errors>>
    \/ /\ errors < MaxErrors
       /\ errors' = errors + 1
       /\ Goto(c, from, "done")
       /\ Leave(c)
       /\ Acknowledge(c)
       /\ UNCHANGED file

\* An edit or a restore, as soon as its handler holds the rules.
Edit(c) ==
    /\ Holds(c)
    /\ op[c].kind \in Editing
    /\ store' = Changed(store, op[c])
    /\ BeginSave(c, "wait")
    /\ UNCHANGED <<engine, op, syncVars, deaths>>

\* The tail of save_config: the text is written and the rules are released.
FinishSave(c) ==
    /\ Goto(c, "save", "done")
    /\ Leave(c)
    /\ Acknowledge(c)
    /\ UNCHANGED <<store, engine, op, syncVars, deaths>>
    /\ \/ file' = ToConfig(store) /\ UNCHANGED errors
       \/ errors < MaxErrors /\ errors' = errors + 1 /\ UNCHANGED file

BeginSync(c) ==
    /\ Goto(c, "wait", "fetch")
    /\ Holds(c)
    /\ op[c].kind = "sync"
    /\ todo' = store.urls
    /\ found' = {}
    /\ UNCHANGED <<store, file, engine, queue, op, reply, bounds>>

\* Mutant: the domains are taken as the list spells them.
FetchAsSpelled(c) ==
    /\ engine = "up"
    /\ pc[c] = "fetch"
    /\ \E u \in todo :
           /\ todo' = todo \ {u}
           /\ found' \in {found} \cup {found \cup p : p \in Pages[u]}
    /\ UNCHANGED <<store, file, engine, queue, pc, op, reply, bounds>>

\* One download of a sync ends: with some body, or with an error, and then the
\* URL is passed over.
Fetch(c) ==
    /\ engine = "up"
    /\ pc[c] = "fetch"
    /\ \E u \in todo :
           /\ todo' = todo \ {u}
           /\ found' \in {found} \cup {found \cup Lines(p) : p \in Pages[u]}
    /\ UNCHANGED <<store, file, engine, queue, pc, op, reply, bounds>>

\* Mutant: what a sync found is not saved.
EndSyncUnsaved(c) ==
    /\ pc[c] = "fetch"
    /\ todo = {}
    /\ store' = Synced(store, found)
    /\ Goto(c, "fetch", "done")
    /\ Leave(c)
    /\ UNCHANGED <<file, reply, errors, engine, op, syncVars, deaths>>

\* What was found replaces the gravity domains, be it nothing at all.
EndSync(c) ==
    /\ pc[c] = "fetch"
    /\ todo = {}
    /\ store' = Synced(store, found)
    /\ BeginSave(c, "fetch")
    /\ UNCHANGED <<engine, op, syncVars, deaths>>

\* The process dies, with every task in it.  One that was saving may just have
\* written the last of the text.
Death ==
    /\ engine = "up"
    /\ deaths < MaxDeaths
    /\ deaths' = deaths + 1
    /\ engine' = "down"
    /\ queue' = <<>>
    /\ pc' = [c \in Call |-> IF pc[c] \in {"idle", "done"} THEN pc[c] ELSE "gone"]
    /\ \/ UNCHANGED file
       \/ (\E c \in Call : pc[c] = "save") /\ file' = ToConfig(store)
    /\ UNCHANGED <<store, op, reply, syncVars, errors>>

\* A new one loads what the file holds.
Restart ==
    /\ engine = "down"
    /\ engine' = "up"
    /\ store' = Load(file)
    /\ UNCHANGED <<file, queue, pc, op, reply, syncVars, bounds>>

CallStep(c) ==
    \/ SyncQueues(c)
    \/ Read(c)
    \/ Edit(c)
    \/ FinishSave(c)
    \/ BeginSync(c)
    \/ EndSync(c)

Next ==
    \/ \E c \in Call :
           \/ CallHandler(c)
           \/ CallSync(c)
           \/ CallUnrouted(c)
           \/ HangUp(c)
           \/ Fetch(c)
           \/ CallStep(c)
    \/ Death
    \/ Restart

Spec == Init /\ [][Next]_vars

\* tokio polls every task that can run.  Nothing makes a download end: there is
\* no timeout on it.
Fairness == \A c \in Call : WF_vars(CallStep(c))

FairSpec == Spec /\ Fairness

=============================================================================
