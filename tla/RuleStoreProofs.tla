---------------------------- MODULE RuleStoreProofs ----------------------------
(***************************************************************************)
(* The rule store, for any number of requests, deaths and failed writes:   *)
(* an inductive invariant, the discipline of its lock, then with the       *)
(* history the file that follows the memory, the acknowledged edits that   *)
(* hold, and the refinement of RuleContract.                               *)
(***************************************************************************)
EXTENDS RuleStoreHistory, FairMutexProofs, TLAPS

-----------------------------------------------------------------------------
(***************************************************************************)
(* The data.                                                               *)
(***************************************************************************)

LEMMA DefaultIsConfig == DefaultConfig \in Config
BY ConfigAssumption DEF DefaultConfig, Config, Mapping, Stamp

LEMMA ConfigIsTyped ==
    ASSUME NEW s \in Store
    PROVE  ToConfig(s) \in Config
BY ConfigAssumption DEF ToConfig, Config, Store

LEMMA StoreIsTyped ==
    ASSUME NEW c \in Config, NEW domains \in SUBSET Spelling
    PROVE  FromConfig(c, domains) \in Store
BY DEF FromConfig, Config, Store

LEMMA LoadIsTyped ==
    ASSUME NEW f \in Config \cup {Absent, Torn}
    PROVE  Load(f) \in Store /\ Load(f).domains = {}
<1>1. (IF f \in {Absent, Torn} THEN DefaultConfig ELSE f) \in Config
  BY DefaultIsConfig
<1>2. Load(f) \in Store
  BY <1>1, StoreIsTyped DEF Load
<1>3. QED
  BY <1>2 DEF Load, FromConfig

\* What save_config writes, or a backup carries, brings back every rule: all of
\* the store but the gravity domains.
LEMMA Reload ==
    ASSUME NEW s \in Store
    PROVE  Load(ToConfig(s)) = [s EXCEPT !.domains = {}]
<1>1. ToConfig(s) \in Config /\ ToConfig(s) \notin {Absent, Torn}
  BY ConfigIsTyped, FileAssumption
<1>2. s.regex \cap Pattern = s.regex
  BY DEF Store
<1>3. Load(ToConfig(s)) = FromConfig(ToConfig(s), {})
  BY <1>1 DEF Load
<1>4. QED
  BY <1>2, <1>3 DEF FromConfig, ToConfig, Store

LEMMA LowerIsSpelling ==
    ASSUME NEW d \in Spelling
    PROVE  Lower(d) \in Spelling
BY DEF Lower, Spelling

\* Each editing request makes a store of a store.
LEMMA ChangeIsTyped ==
    ASSUME NEW s \in Store, NEW o \in Op, o.kind \in Editing
    PROVE  Changed(s, o) \in Store
<1>1. CASE o.kind \in {"blacklist", "whitelist"}
  <2>1. o.item \in Spelling /\ o.add \in BOOLEAN
    BY <1>1 DEF Op
  <2>2. Lower(o.item) \in Spelling
    BY <2>1, LowerIsSpelling
  <2>3. QED
    BY <1>1, <2>2 DEF Changed, Edited, Store
<1>2. CASE o.kind = "regex"
  BY <1>2 DEF Changed, Edited, Store
<1>3. CASE o.kind = "gravity"
  <2>1. o.item \in Url
    BY <1>3 DEF Op
  <2>2. QED
    BY <1>3, <2>1 DEF Changed, Edited, Store
<1>4. CASE o.kind = "local"
  <2> DEFINE m == [s.mapping EXCEPT ![Lower(o.item)] = IF o.add THEN o.ip ELSE NoIp]
  <2>1. o.ip \in Ip
    BY <1>4 DEF Op
  <2>2. m \in Mapping
    BY <2>1 DEF Store, Mapping
  <2>3. Changed(s, o) = [s EXCEPT !.mapping = m]
    BY <1>4 DEF Changed
  <2> HIDE DEF m
  <2>4. QED
    BY <2>2, <2>3 DEF Store
<1>5. CASE o.kind = "restore"
  <2>1. o.config \in Config /\ s.domains \in SUBSET Spelling
    BY <1>5 DEF Op, Store
  <2>2. QED
    BY <1>5, <2>1, StoreIsTyped DEF Changed
<1>6. QED
  BY <1>1, <1>2, <1>3, <1>4, <1>5 DEF Editing

-----------------------------------------------------------------------------
(***************************************************************************)
(* The inductive invariant.                                                *)
(***************************************************************************)

ServedBy(urls) == UNION {Lines(p) : p \in UNION {Pages[u] : u \in urls}}

\* What the phase of a request says of its operation and of the lock.
Requests ==
    \A c \in Call :
        /\ pc[c] \in {"spawned", "wait", "fetch", "save"} => op[c] \in Ops /\ engine = "up"
        /\ pc[c] \in {"spawned", "fetch"} => op[c].kind = "sync"
        /\ pc[c] \in {"fetch", "save"} => Holds(c)

\* A running sync has gone through lists that are still registered.
SyncFinds ==
    \A c \in Call : pc[c] = "fetch" => todo \subseteq store.urls /\ found \subseteq ServedBy(store.urls)

\* From the head of a save to its tail the file has no text.
TornWhileSaving == \A c \in Call : Saving(c) => file = Torn

SInv == StoreTypeOK /\ Requests /\ SyncFinds /\ TornWhileSaving

LEMMA InitSInv == Init => SInv
<1> SUFFICES ASSUME Init PROVE SInv
  OBVIOUS
<1>1. StoreTypeOK
  BY LoadIsTyped, StoreAssumption DEF Init, StoreTypeOK, Pc
<1>2. Requests /\ SyncFinds
  BY DEF Init, Requests, SyncFinds
<1>3. TornWhileSaving
  BY DEF Init, TornWhileSaving, Saving
<1>4. QED
  BY <1>1, <1>2, <1>3 DEF SInv

-----------------------------------------------------------------------------
(***************************************************************************)
(* Every step keeps the invariant: types first.                            *)
(***************************************************************************)

LEMMA SyncIsTyped ==
    ASSUME NEW s \in Store, NEW domains \in SUBSET Spelling
    PROVE  Synced(s, domains) \in Store
BY DEF Synced, Store, Stamp

LEMMA LinesAreSpellings ==
    ASSUME NEW u \in Url, NEW p \in Pages[u]
    PROVE  Lines(p) \subseteq Spelling
BY ConfigAssumption, LowerIsSpelling DEF Lines

LEMMA StepKeepsTypes ==
    ASSUME SInv, [Next]_vars
    PROVE  StoreTypeOK'
<1> USE DEF SInv, StoreTypeOK
<1>1. ASSUME NEW c \in Call, CallHandler(c) \/ CallSync(c) \/ CallUnrouted(c) \/ HangUp(c)
      PROVE  StoreTypeOK'
  BY <1>1, QueueIsTyped
     DEF CallHandler, CallSync, CallUnrouted, HangUp, Goto, Asking, Answer, Pc, syncVars, bounds
<1>2. ASSUME NEW c \in Call, SyncQueues(c) \/ Read(c)
      PROVE  StoreTypeOK'
  BY <1>2, QueueIsTyped DEF SyncQueues, Read, Goto, Answer, Pc, syncVars, bounds
<1>3. ASSUME NEW c \in Call, NEW from \in {"wait", "fetch"}, BeginSave(c, from), deaths' = deaths
      PROVE  /\ file' \in Config \cup {Absent, Torn}
             /\ queue' \in Seq(Call)
             /\ pc' \in [Call -> Pc]
             /\ reply' \in [Call -> {"none", "success", "started", "not_found"}]
             /\ errors' \in 0..MaxErrors
  BY <1>3, QueueIsTyped, StoreAssumption DEF BeginSave, Goto, Pc, Acknowledge, Answer
<1>4. ASSUME NEW c \in Call, Edit(c)
      PROVE  StoreTypeOK'
  <2>1. pc[c] = "wait" /\ op[c] \in Op /\ op[c].kind \in Editing
    BY <1>4, StoreAssumption DEF Edit, BeginSave, Goto, Requests
  <2>2. store' \in Store
    BY <1>4, <2>1, ChangeIsTyped DEF Edit
  <2>3. QED
    BY <1>3, <1>4, <2>2 DEF Edit, BeginSave, Goto, syncVars
<1>5. ASSUME NEW c \in Call, FinishSave(c)
      PROVE  StoreTypeOK'
  <2>1. queue' \in Seq(Call)
    BY <1>5, QueueIsTyped DEF FinishSave
  <2>2. file' \in Config \cup {Absent, Torn} /\ errors' \in 0..MaxErrors
    BY <1>5, ConfigIsTyped, StoreAssumption DEF FinishSave
  <2> QED
    BY <1>5, <2>1, <2>2 DEF FinishSave, Goto, Pc, Acknowledge, Answer, syncVars
<1>6. ASSUME NEW c \in Call, BeginSync(c)
      PROVE  StoreTypeOK'
  BY <1>6 DEF BeginSync, Goto, Pc, bounds, Store
<1>7. ASSUME NEW c \in Call, Fetch(c)
      PROVE  StoreTypeOK'
  <2>1. PICK u \in todo : /\ todo' = todo \ {u}
                          /\ found' \in {found} \cup {found \cup Lines(p) : p \in Pages[u]}
    BY <1>7 DEF Fetch
  <2>2. found' \in SUBSET Spelling
    BY <2>1, LinesAreSpellings
  <2>3. QED
    BY <1>7, <2>1, <2>2 DEF Fetch, bounds
<1>8. ASSUME NEW c \in Call, EndSync(c)
      PROVE  StoreTypeOK'
  <2>1. store' \in Store
    BY <1>8, SyncIsTyped DEF EndSync
  <2>2. QED
    BY <1>3, <1>8, <2>1 DEF EndSync, BeginSave, Goto, syncVars
<1>9. CASE Death
  BY <1>9, ConfigIsTyped, StoreAssumption DEF Death, Pc, syncVars
<1>10. CASE Restart
  BY <1>10, LoadIsTyped DEF Restart, syncVars, bounds
<1>11. CASE UNCHANGED vars
  BY <1>11 DEF vars
<1>12. QED
  BY <1>1, <1>2, <1>4, <1>5, <1>6, <1>7, <1>8, <1>9, <1>10, <1>11 DEF Next, CallStep

\* Whoever fetches or saves has the lock, so nobody else touches the rules.
LEMMA HolderIsAlone ==
    ASSUME SInv, NEW c \in Call, NEW d \in Call, Holds(c), pc[d] \in {"fetch", "save"}
    PROVE  c = d
BY DEF SInv, Requests, Holds

LEMMA StepKeepsRequests ==
    ASSUME SInv, [Next]_vars
    PROVE  Requests'
<1> USE DEF SInv, StoreTypeOK, Requests
<1>1. ASSUME NEW c \in Call, CallHandler(c) \/ SyncQueues(c) \/ HangUp(c)
      PROVE  Requests'
  BY <1>1, HolderStays DEF CallHandler, SyncQueues, HangUp, Goto, Asking
<1>2. ASSUME NEW c \in Call, CallSync(c) \/ CallUnrouted(c) \/ BeginSync(c) \/ Fetch(c)
      PROVE  Requests'
  BY <1>2 DEF CallSync, CallUnrouted, BeginSync, Fetch, Goto, Asking, Holds
<1>3. ASSUME NEW c \in Call, Read(c) \/ FinishSave(c)
      PROVE  Requests'
  BY <1>3, HolderIsAlone DEF Read, FinishSave, Goto, Leave
<1>4. ASSUME NEW c \in Call, Edit(c) \/ EndSync(c)
      PROVE  Requests'
  BY <1>4, HolderIsAlone DEF Edit, EndSync, BeginSave, Goto, Leave, Holds
<1>5. CASE Death \/ Restart \/ UNCHANGED vars
  BY <1>5 DEF Death, Restart, vars, Holds
<1>6. QED
  BY <1>1, <1>2, <1>3, <1>4, <1>5 DEF Next, CallStep

LEMMA StepKeepsFinds ==
    ASSUME SInv, [Next]_vars
    PROVE  SyncFinds'
<1> USE DEF SInv, StoreTypeOK, SyncFinds
<1>1. ASSUME NEW c \in Call, Fetch(c)
      PROVE  SyncFinds'
  <2>1. PICK u \in todo : /\ todo' = todo \ {u}
                          /\ found' \in {found} \cup {found \cup Lines(p) : p \in Pages[u]}
    BY <1>1 DEF Fetch
  <2>2. u \in store.urls /\ found \subseteq ServedBy(store.urls)
    BY <1>1, <2>1 DEF Fetch
  <2>3. \A p \in Pages[u] : Lines(p) \subseteq ServedBy(store.urls)
    BY <2>2 DEF ServedBy
  <2>4. todo' \subseteq store.urls /\ found' \subseteq ServedBy(store.urls)
    BY <1>1, <2>1, <2>2, <2>3 DEF Fetch
  <2>5. QED
    BY <1>1, <2>4 DEF Fetch
<1>2. ASSUME NEW c \in Call, BeginSync(c)
      PROVE  SyncFinds'
  BY <1>2 DEF BeginSync, Goto
<1>3. ASSUME NEW c \in Call, Edit(c) \/ EndSync(c)
      PROVE  SyncFinds'
  <2>1. Holds(c) /\ pc'[c] # "fetch"
    BY <1>3 DEF Edit, EndSync, BeginSave, Goto, Requests
  <2>2. \A d \in Call \ {c} : pc'[d] = pc[d] /\ pc[d] # "fetch"
    BY <1>3, <2>1, HolderIsAlone DEF Edit, EndSync, BeginSave, Goto
  <2>3. QED
    BY <2>1, <2>2
<1>4. ASSUME NEW c \in Call, \/ CallHandler(c) \/ CallSync(c) \/ CallUnrouted(c) \/ HangUp(c)
                             \/ SyncQueues(c) \/ Read(c) \/ FinishSave(c)
      PROVE  SyncFinds'
  BY <1>4 DEF CallHandler, CallSync, CallUnrouted, HangUp, SyncQueues, Read, FinishSave, Goto,
     syncVars
<1>5. CASE Death \/ UNCHANGED vars
  BY <1>5 DEF Death, vars
<1>6. CASE Restart
  BY <1>6 DEF Restart, Requests
<1>7. QED
  BY <1>1, <1>2, <1>3, <1>4, <1>5, <1>6 DEF Next, CallStep

Matches == Load(file) = [store EXCEPT !.domains = {}]

\* A step without a failed write that leaves the engine up and nobody saving
\* either makes file and memory match or touches neither.
LEMMA MatchIsMade ==
    ASSUME SInv, [Next]_vars, engine' = "up", errors' = errors, \A c \in Call : ~Saving(c)'
    PROVE  Matches' \/ (UNCHANGED <<store, file, engine>> /\ \A c \in Call : ~Saving(c))
<1> USE DEF SInv, StoreTypeOK
<1>1. ASSUME NEW c \in Call,
             \/ CallHandler(c) \/ CallSync(c) \/ CallUnrouted(c) \/ HangUp(c)
             \/ SyncQueues(c) \/ Read(c) \/ BeginSync(c) \/ Fetch(c)
      PROVE  UNCHANGED <<store, file, engine>> /\ \A d \in Call : ~Saving(d)
  <2>1. UNCHANGED <<store, file, engine>>
    BY <1>1 DEF CallHandler, CallSync, CallUnrouted, HangUp, SyncQueues, Read, BeginSync,
       Fetch
  <2>2. \A d \in Call : Saving(d) => Saving(d)'
    BY <1>1 DEF CallHandler, CallSync, CallUnrouted, HangUp, SyncQueues, Read, BeginSync,
       Fetch, Goto, Saving
  <2> QED
    BY <2>1, <2>2
<1>2. ASSUME NEW c \in Call, Edit(c) \/ EndSync(c)
      PROVE  FALSE
  <2>1. errors' # errors + 1
    BY StoreAssumption
  <2>2. pc' = [pc EXCEPT ![c] = "save"]
    BY <1>2, <2>1 DEF Edit, EndSync, BeginSave, Goto
  <2> QED
    BY <2>2 DEF Saving
<1>3. ASSUME NEW c \in Call, FinishSave(c)
      PROVE  Matches'
  <2>1. file' = ToConfig(store) /\ store' = store
    BY <1>3, StoreAssumption DEF FinishSave
  <2> QED
    BY <2>1, Reload DEF Matches
<1>4. ASSUME Restart
      PROVE  Matches'
  <2>1. store' = Load(file) /\ file' = file
    BY <1>4 DEF Restart
  <2>2. Load(file) = [Load(file) EXCEPT !.domains = {}]
    BY LoadIsTyped DEF Store
  <2> QED
    BY <2>1, <2>2 DEF Matches
<1>5. ~Death
  BY DEF Death
<1>6. CASE UNCHANGED vars
  BY <1>6 DEF vars, Saving
<1> QED
  BY <1>1, <1>2, <1>3, <1>4, <1>5, <1>6 DEF Next, CallStep

LEMMA StepKeepsTorn ==
    ASSUME SInv, [Next]_vars, NEW d \in Call, Saving(d)'
    PROVE  file' = Torn
<1> USE DEF SInv, StoreTypeOK, TornWhileSaving
<1>1. ASSUME NEW c \in Call,
             \/ CallHandler(c) \/ CallSync(c) \/ CallUnrouted(c) \/ HangUp(c)
             \/ SyncQueues(c) \/ Read(c) \/ BeginSync(c) \/ Fetch(c)
      PROVE  file' = Torn
  BY <1>1 DEF CallHandler, CallSync, CallUnrouted, HangUp, SyncQueues, Read, BeginSync,
     Fetch, Goto, Saving
<1>2. ASSUME NEW c \in Call, Edit(c) \/ EndSync(c)
      PROVE  file' = Torn
  <2>1. /\ Holds(c)
        /\ \/ pc' = [pc EXCEPT ![c] = "save"] /\ file' = Torn
           \/ pc' = [pc EXCEPT ![c] = "done"] /\ file' = file
    BY <1>2 DEF Edit, EndSync, BeginSave, Goto, Requests
  <2>2. d # c => pc[d] = "save"
    BY <2>1 DEF Saving
  <2>3. d = c
    BY <2>1, <2>2, HolderIsAlone
  <2>4. pc'[c] # "done"
    BY <2>3 DEF Saving
  <2> QED
    BY <2>1, <2>4
<1>3. \A c \in Call : ~FinishSave(c)
  <2>1. ASSUME NEW c \in Call, FinishSave(c) PROVE FALSE
    <3>1. pc' = [pc EXCEPT ![c] = "done"] /\ Holds(c)
      BY <2>1 DEF FinishSave, Goto, Leave
    <3>2. d # c => pc[d] = "save"
      BY <3>1 DEF Saving
    <3>3. d = c
      BY <3>1, <3>2, HolderIsAlone
    <3> QED
      BY <3>1, <3>3 DEF Saving
  <2> QED
    BY <2>1
<1>4. ~Death /\ ~Restart
  BY DEF Death, Restart, Requests, Saving
<1>5. CASE UNCHANGED vars
  BY <1>5 DEF vars, Saving
<1> QED
  BY <1>1, <1>2, <1>3, <1>4, <1>5 DEF Next, CallStep

\* The inductive invariant: types, phases, what a sync has found, and the file.
THEOREM StoreInvariance == Spec => []SInv
<1>1. SInv /\ [Next]_vars => SInv'
  BY StepKeepsTypes, StepKeepsRequests, StepKeepsFinds, StepKeepsTorn DEF SInv, TornWhileSaving
<1>2. QED
  BY InitSInv, <1>1, PTL DEF Spec

\* Type correctness of the rule store.
THEOREM StoreTypeCorrectness == Spec => []StoreTypeOK
<1>1. SInv => StoreTypeOK
  BY DEF SInv
<1>2. QED
  BY StoreInvariance, <1>1, PTL

-----------------------------------------------------------------------------
(***************************************************************************)
(* The lock.                                                               *)
(***************************************************************************)

\* Requests join and leave the queue exactly where they begin and cease to need
\* the rules.
LEMMA StepKeepsStoreLock ==
    ASSUME SInv, StoreLockDiscipline, [Next]_vars
    PROVE  StoreLockDiscipline'
<1> DEFINE InQueue == {"wait", "fetch", "save"}
           Once == NoneTwice /\ \A c \in Call : Queued(c) <=> pc[c] \in InQueue
<1>0. /\ queue \in Seq(Call) /\ pc \in [Call -> Pc] /\ NoneTwice
      /\ \A c \in Call : Queued(c) <=> pc[c] \in InQueue
  BY DEF SInv, StoreTypeOK, StoreLockDiscipline
<1> USE <1>0
<1>1. ASSUME NEW c \in Call, NEW from \in Pc \ InQueue, NEW to \in InQueue,
             Goto(c, from, to), Join(c)
      PROVE  Once'
  <2>1. ~Queued(c)
    BY <1>1 DEF Goto
  <2>2. NoneTwice' /\ \A u : Queued(u)' <=> Queued(u) \/ u = c
    BY <1>1, <2>1, JoinQueuesOnce
  <2> QED
    BY <1>1, <2>2 DEF Goto
<1>2. ASSUME NEW c \in Call, NEW from \in InQueue, NEW to \in Pc \ InQueue,
             Goto(c, from, to), Leave(c) \/ Abandon(c)
      PROVE  Once'
  <2>1. NoneTwice' /\ \A u : Queued(u)' <=> Queued(u) /\ u # c
    BY <1>2, LeaveUnqueues, AbandonUnqueues
  <2> QED
    BY <1>2, <2>1 DEF Goto
<1>3. ASSUME UNCHANGED queue, \A c \in Call : pc'[c] \in InQueue <=> pc[c] \in InQueue
      PROVE  Once'
  BY <1>3 DEF NoneTwice, Queued
<1>4. ASSUME NEW c \in Call, CallHandler(c) \/ SyncQueues(c)
      PROVE  Once'
  BY <1>1, <1>4 DEF CallHandler, SyncQueues, Pc
<1>5. ASSUME NEW c \in Call, HangUp(c) \/ Read(c) \/ FinishSave(c)
      PROVE  Once'
  BY <1>2, <1>5 DEF HangUp, Read, FinishSave, Pc
<1>6. ASSUME NEW c \in Call, NEW from \in {"wait", "fetch"}, BeginSave(c, from)
      PROVE  Once'
  <2>1. CASE Goto(c, from, "save") /\ UNCHANGED queue
    BY <1>3, <2>1 DEF Goto
  <2>2. CASE Goto(c, from, "done") /\ Leave(c)
    BY <1>2, <2>2 DEF Pc
  <2> QED
    BY <1>6, <2>1, <2>2 DEF BeginSave
<1>7. ASSUME NEW c \in Call, CallSync(c) \/ CallUnrouted(c) \/ BeginSync(c) \/ Fetch(c)
      PROVE  Once'
  BY <1>3, <1>7 DEF CallSync, CallUnrouted, BeginSync, Fetch, Goto
<1>8. ASSUME Death
      PROVE  Once'
  BY <1>8 DEF Death, NoneTwice, Queued
<1>9. ASSUME Restart \/ UNCHANGED vars
      PROVE  Once'
  BY <1>3, <1>9 DEF Restart, vars
<1>10. Once'
  BY <1>4, <1>5, <1>6, <1>7, <1>8, <1>9 DEF Next, CallStep, Edit, EndSync
<1> QED
  BY <1>10, StepKeepsRequests DEF StoreLockDiscipline, Requests

\* No request holds the rules beyond its answer, and none syncs or saves without
\* holding them.
THEOREM StoreLockIsDisciplined == Spec => []StoreLockDiscipline
<1>1. Init => StoreLockDiscipline
  BY DEF Init, StoreLockDiscipline, NoneTwice, Queued
<1>2. SInv /\ StoreLockDiscipline /\ [Next]_vars => StoreLockDiscipline'
  BY StepKeepsStoreLock
<1> QED
  BY StoreInvariance, <1>1, <1>2, PTL DEF Spec

-----------------------------------------------------------------------------
(***************************************************************************)
(* What an edit is for: made by the edit itself, and undone by no step but *)
(* an edit that overrules it.                                              *)
(***************************************************************************)

LEMMA EditIsInForce ==
    ASSUME NEW s \in Store, NEW o \in Op, o.kind \in Editing
    PROVE  InForce(Changed(s, o), o)
<1>1. ASSUME o.kind \in {"blacklist", "whitelist", "local"}, ~o.item.dot
      PROVE  Lower(o.item) = Clean(o.item) /\ Clean(o.item) \in Spelling
  BY <1>1 DEF Op, Lower, Clean, Spelling
<1>2. CASE o.kind = "whitelist"
  BY <1>1, <1>2 DEF Changed, Edited, InForce, Store, Op
<1>3. CASE o.kind = "blacklist"
  BY <1>1, <1>3 DEF Changed, Edited, InForce, Store, Op
<1>4. CASE o.kind = "local"
  BY <1>1, <1>4 DEF Changed, InForce, Store, Mapping
<1>5. CASE o.kind = "regex"
  BY <1>5 DEF Changed, Edited, InForce, Store, Op
<1>6. CASE o.kind = "gravity"
  BY <1>6 DEF Changed, Edited, InForce, Store, Op
<1>7. CASE o.kind = "restore"
  <2> DEFINE n == FromConfig(o.config, s.domains)
  <2>0. n.domains = s.domains /\ n.lastSync = o.config.last_sync /\ n \in Store
    BY <1>7, StoreIsTyped DEF FromConfig, Op, Store
  <2>1. n = [n EXCEPT !.lastSync = o.config.last_sync]
    BY <2>0 DEF Store
  <2>2. Changed(s, o) = n
    BY <1>7 DEF Changed
  <2>3. FromConfig(o.config, n.domains) = n
    BY <2>0
  <2> HIDE DEF n
  <2> QED
    BY <1>7, <2>1, <2>2, <2>3 DEF InForce
<1> QED
  BY <1>2, <1>3, <1>4, <1>5, <1>6, <1>7 DEF Editing

LEMMA OtherEditsKeepIt ==
    ASSUME NEW s \in Store, NEW o \in Op, NEW e \in Op, o.kind \in Editing,
           e.kind \in Editing, ~Overrules(o, e), InForce(s, e)
    PROVE  InForce(Changed(s, o), e)
<1>1. o.kind # "restore" /\ e.kind # "restore" /\ (o.kind = e.kind => Entry(o) # Entry(e))
  BY DEF Overrules
<1>2. CASE o.kind # e.kind
  <2>1. CASE o.kind \in {"whitelist", "blacklist", "regex"}
    BY <1>1, <1>2, <2>1 DEF Changed, InForce, Store
  <2>2. CASE o.kind \in {"gravity", "local"}
    BY <1>1, <1>2, <2>2 DEF Changed, InForce, Store
  <2> QED
    BY <1>1, <2>1, <2>2 DEF Editing
<1>3. ASSUME e.kind \in {"whitelist", "blacklist", "local"}, o.kind = e.kind, ~e.item.dot
      PROVE  Clean(e.item) # Lower(o.item) /\ Clean(e.item) \in Spelling
  <2>1. e.item \in Spelling /\ Lower(e.item) # Lower(o.item)
    BY <1>1, <1>3 DEF Entry, Op
  <2>2. Lower(e.item) = Clean(e.item)
    BY <1>3, <2>1 DEF Lower, Clean, Spelling
  <2> QED
    BY <2>1, <2>2, LowerIsSpelling
<1>4. ASSUME e.kind \in {"regex", "gravity"}, o.kind = e.kind
      PROVE  e.item # o.item
  BY <1>1, <1>4 DEF Entry
<1>5. CASE o.kind = "whitelist" /\ e.kind = "whitelist"
  BY <1>3, <1>5 DEF Changed, Edited, InForce, Store
<1>6. CASE o.kind = "blacklist" /\ e.kind = "blacklist"
  BY <1>3, <1>6 DEF Changed, Edited, InForce, Store
<1>7. CASE o.kind = "local" /\ e.kind = "local"
  BY <1>3, <1>7 DEF Changed, InForce, Store, Mapping
<1>8. CASE o.kind = "regex" /\ e.kind = "regex"
  BY <1>4, <1>8 DEF Changed, Edited, InForce, Store
<1>9. CASE o.kind = "gravity" /\ e.kind = "gravity"
  BY <1>4, <1>9 DEF Changed, Edited, InForce, Store
<1> QED
  BY <1>1, <1>2, <1>5, <1>6, <1>7, <1>8, <1>9 DEF Editing

\* Syncs bring domains and a time, restarts take domains away.
LEMMA DomainsDoNotMatter ==
    ASSUME NEW s \in Store, NEW e \in Op, InForce(s, e), NEW domains
    PROVE  InForce([s EXCEPT !.domains = domains], e) /\ InForce(Synced(s, domains), e)
<1>1. CASE e.kind = "restore"
  <2>1. FromConfig(e.config, s.domains) = [s EXCEPT !.lastSync = e.config.last_sync]
    BY <1>1 DEF InForce
  <2>2. FromConfig(e.config, domains) = [FromConfig(e.config, s.domains) EXCEPT !.domains = domains]
    BY DEF FromConfig
  <2>3. FromConfig(e.config, domains)
            = [[s EXCEPT !.lastSync = e.config.last_sync] EXCEPT !.domains = domains]
    BY <2>1, <2>2
  <2> DEFINE cut    == [s EXCEPT !.domains = domains]
             synced == Synced(s, domains)
  <2>4. /\ cut.domains = domains
        /\ [cut EXCEPT !.lastSync = e.config.last_sync] = FromConfig(e.config, domains)
    BY <2>3 DEF Store
  <2>5. /\ synced.domains = domains
        /\ [synced EXCEPT !.lastSync = e.config.last_sync] = FromConfig(e.config, domains)
    BY <2>3 DEF Synced, Store
  <2> HIDE DEF cut, synced
  <2>6. InForce(cut, e) /\ InForce(synced, e)
    BY <1>1, <2>4, <2>5 DEF InForce
  <2> QED
    BY <2>6 DEF cut, synced
<1>2. CASE e.kind # "restore"
  BY <1>2 DEF InForce, Synced, Store
<1> QED
  BY <1>1, <1>2

-----------------------------------------------------------------------------
(***************************************************************************)
(* The history: file and memory, and the edits that stand.                 *)
(***************************************************************************)

\* A request has an operation, and no answer yet, exactly since it arrived.
Fresh ==
    \A c \in Call :
        /\ pc[c] = "idle" => op[c] = NoOp /\ reply[c] = "none"
        /\ pc[c] # "idle" => op[c] \in Ops

\* An edit is in force from the moment its save begins; only then is it
\* acknowledged, so AckedEditsHold is not inductive.
EditsHold ==
    ~lost =>
        \A c \in standing :
            reply[c] = "success" \/ Saving(c) => InForce(RulesToBe, op[c])

\* A death settles whether the rules are lost: nothing is behind while it is down.
DownIsSettled == engine = "down" => ~behind

HInv ==
    /\ Fresh
    /\ DownIsSettled
    /\ standing \subseteq Call /\ \A c \in standing : Stands(c)
    /\ FileFollowsMemory
    /\ EditsHold

LEMMA InitHInv == HInit => HInv
<1> SUFFICES ASSUME HInit PROVE HInv
  OBVIOUS
<1>1. Fresh /\ DownIsSettled /\ standing = {}
  BY DEF HInit, Init, Fresh, DownIsSettled
<1>2. FileFollowsMemory
  BY LoadIsTyped DEF HInit, Init, FileFollowsMemory, Saving, Store
<1> QED
  BY <1>1, <1>2 DEF HInv, EditsHold

LEMMA StepKeepsFresh ==
    ASSUME SInv, Fresh, [Next]_vars
    PROVE  Fresh'
<1> USE DEF SInv, StoreTypeOK, Fresh
<1>1. ASSUME NEW c \in Call, CallHandler(c) \/ CallSync(c) \/ CallUnrouted(c)
      PROVE  Fresh'
  BY <1>1 DEF CallHandler, CallSync, CallUnrouted, Goto, Asking, Answer
<1>2. ASSUME NEW c \in Call,
             \/ SyncQueues(c) \/ HangUp(c) \/ BeginSync(c) \/ Fetch(c)
             \/ Read(c) \/ FinishSave(c) \/ Edit(c) \/ EndSync(c)
      PROVE  Fresh'
  <2>1. op' = op /\ pc[c] # "idle" /\ pc'[c] # "idle"
    BY <1>2 DEF SyncQueues, HangUp, BeginSync, Fetch, Read, FinishSave, Edit, EndSync,
       BeginSave, Goto
  <2>2. \A d \in Call \ {c} : pc'[d] = pc[d] /\ reply'[d] = reply[d]
    BY <1>2 DEF SyncQueues, HangUp, BeginSync, Fetch, Read, FinishSave, Edit, EndSync,
       BeginSave, Goto, Acknowledge, Answer
  <2> QED
    BY <2>1, <2>2
<1>3. ASSUME Death \/ Restart \/ UNCHANGED vars
      PROVE  Fresh'
  BY <1>3 DEF Death, Restart, vars
<1> QED
  BY <1>1, <1>2, <1>3 DEF Next, CallStep

\* The file is behind from a failed write to the next that succeeds.
LEMMA StepKeepsFollowing ==
    ASSUME SInv, FileFollowsMemory, [Next]_vars, FallBehind \/ UNCHANGED <<vars, behind>>
    PROVE  FileFollowsMemory'
<1>1. ASSUME engine' = "up", ~behind', \A c \in Call : ~Saving(c)'
      PROVE  Matches'
  <2>1. errors' = errors
    BY <1>1 DEF FallBehind, vars
  <2>2. ASSUME UNCHANGED <<store, file, engine>>, \A c \in Call : ~Saving(c)
        PROVE  Matches'
    <3>1. ~behind
      BY <1>1, <2>2 DEF FallBehind
    <3> QED
      BY <1>1, <2>2, <3>1 DEF FileFollowsMemory, Matches
  <2> QED
    BY <1>1, <2>1, <2>2, MatchIsMade
<1> QED
  BY <1>1, StepKeepsTorn DEF FileFollowsMemory, Matches

\* Who arrives has not been answered and does not save: nothing is claimed of it.
LEMMA ArrivalsClaimNothing ==
    ASSUME SInv, Fresh, [Next]_vars, NEW c \in Call, pc[c] = "idle", pc'[c] # "idle"
    PROVE  reply'[c] # "success" /\ ~Saving(c)'
<1> USE DEF SInv, StoreTypeOK, Fresh
<1>1. ASSUME NEW d \in Call, CallHandler(d) \/ CallSync(d) \/ CallUnrouted(d)
      PROVE  reply'[c] # "success" /\ ~Saving(c)'
  <2>1. c = d
    BY <1>1 DEF CallHandler, CallSync, CallUnrouted, Goto
  <2> QED
    BY <1>1, <2>1 DEF CallHandler, CallSync, CallUnrouted, Goto, Answer, Saving
<1>2. ASSUME NEW d \in Call,
             \/ SyncQueues(d) \/ HangUp(d) \/ BeginSync(d) \/ Fetch(d)
             \/ Read(d) \/ FinishSave(d) \/ Edit(d) \/ EndSync(d)
      PROVE  FALSE
  BY <1>2 DEF SyncQueues, HangUp, BeginSync, Fetch, Read, FinishSave, Edit, EndSync,
     BeginSave, Goto
<1>3. ~Death /\ ~Restart /\ ~UNCHANGED vars
  BY DEF Death, Restart, vars
<1> QED
  BY <1>1, <1>2, <1>3 DEF Next, CallStep

LEMMA RulesStay ==
    ASSUME UNCHANGED <<store, file, engine>>
    PROVE  RulesToBe' = RulesToBe
BY DEF RulesToBe

\* The rules to be, and who is answered or saves, change in five ways only.
LEMMA StepsOfRules ==
    ASSUME SInv, [Next]_vars
    PROVE  \/ /\ RulesToBe' = RulesToBe
              /\ \A c \in Call : (reply'[c] = "success" \/ Saving(c)') =>
                                     (reply[c] = "success" \/ Saving(c) \/ op[c].kind = "read")
           \/ \E d \in Call : Edit(d)
           \/ \E d \in Call : EndSync(d)
           \/ Death
           \/ \E c \in Call : pc[c] = "idle" /\ RulesToBe' = RulesToBe
                  /\ \A d \in Call \ {c} : (reply'[d] = "success" \/ Saving(d)') =>
                                               (reply[d] = "success" \/ Saving(d))
<1> USE DEF SInv, StoreTypeOK
<1>1. ASSUME NEW c \in Call, CallHandler(c) \/ CallSync(c) \/ CallUnrouted(c)
      PROVE  /\ pc[c] = "idle" /\ RulesToBe' = RulesToBe
             /\ \A d \in Call \ {c} : (reply'[d] = "success" \/ Saving(d)') =>
                                          (reply[d] = "success" \/ Saving(d))
  BY <1>1, RulesStay
     DEF CallHandler, CallSync, CallUnrouted, Goto, Answer, Saving
<1>2. ASSUME NEW c \in Call,
             SyncQueues(c) \/ HangUp(c) \/ BeginSync(c) \/ Fetch(c) \/ Read(c) \/ FinishSave(c)
      PROVE  /\ RulesToBe' = RulesToBe
             /\ \A d \in Call : (reply'[d] = "success" \/ Saving(d)') =>
                                    (reply[d] = "success" \/ Saving(d) \/ op[d].kind = "read")
  <2>1. RulesToBe' = RulesToBe
    BY <1>2 DEF SyncQueues, HangUp, BeginSync, Fetch, Read, FinishSave, Goto, RulesToBe
  <2>2. \A d \in Call \ {c} : pc'[d] = pc[d] /\ reply'[d] = reply[d]
    BY <1>2 DEF SyncQueues, HangUp, BeginSync, Fetch, Read, FinishSave, Goto, Acknowledge,
       Answer
  <2>3. (reply'[c] = "success" \/ Saving(c)') =>
            (reply[c] = "success" \/ Saving(c) \/ op[c].kind = "read")
    BY <1>2 DEF SyncQueues, HangUp, BeginSync, Fetch, Read, FinishSave, Goto, Acknowledge,
       Answer, Saving
  <2> QED
    BY <2>1, <2>2, <2>3 DEF Saving
<1>3. ASSUME Restart \/ UNCHANGED vars
      PROVE  /\ RulesToBe' = RulesToBe
             /\ \A d \in Call : (reply'[d] = "success" \/ Saving(d)') =>
                                    (reply[d] = "success" \/ Saving(d))
  BY <1>3 DEF Restart, vars, RulesToBe, Saving
<1> QED
  BY <1>1, <1>2, <1>3 DEF Next, CallStep

LEMMA RulesToBeTyped ==
    ASSUME SInv
    PROVE  RulesToBe \in Store
BY LoadIsTyped, ConfigIsTyped DEF SInv, StoreTypeOK, RulesToBe

\* A death that tears nothing and leaves nothing behind costs the domains only.
LEMMA DeathKeepsRules ==
    ASSUME SInv, FileFollowsMemory, Death, file' # Torn, ~(behind /\ file' = file)
    PROVE  RulesToBe = store /\ RulesToBe' = [store EXCEPT !.domains = {}]
<1>1. engine = "up" /\ RulesToBe = store /\ RulesToBe' = Load(file')
  BY DEF Death, RulesToBe
<1>2. CASE file' = file
  <2>1. \A c \in Call : ~Saving(c)
    BY <1>2 DEF FileFollowsMemory
  <2> QED
    BY <1>1, <1>2, <2>1 DEF FileFollowsMemory
<1>3. CASE file' = ToConfig(store)
  BY <1>1, <1>3, Reload DEF SInv, StoreTypeOK
<1> QED
  BY <1>2, <1>3 DEF Death

LEMMA StepKeepsEdits ==
    ASSUME SInv, HInv, [Next]_vars,
           NEW c \in Call, c \in standing \/ pc[c] = "idle", Stands(c)',
           ~lost, engine' = "down" => file' # Torn /\ ~(behind /\ file' = file),
           reply'[c] = "success" \/ Saving(c)'
    PROVE  InForce(RulesToBe', op'[c])
<1>1. pc[c] # "idle"
  <2>1. pc'[c] # "idle"
    BY DEF Stands
  <2> QED
    BY <2>1, ArrivalsClaimNothing DEF HInv
<1>2. c \in standing /\ Stands(c) /\ op[c] \in Op /\ op[c].kind \in Editing
  BY <1>1, StoreAssumption DEF HInv, Fresh, Stands
<1>3. op'[c] = op[c]
  <2>1. ASSUME NEW d \in Call, CallHandler(d) \/ CallSync(d) \/ CallUnrouted(d)
        PROVE  op'[c] = op[c]
    BY <1>1, <2>1 DEF CallHandler, CallSync, CallUnrouted, Goto, Asking, SInv, StoreTypeOK
  <2>2. ASSUME ~\E d \in Call : CallHandler(d) \/ CallSync(d) \/ CallUnrouted(d)
        PROVE  op' = op
    BY <2>2 DEF Next, CallStep, HangUp, SyncQueues, Read, Edit, FinishSave, BeginSync, Fetch,
       EndSync, Death, Restart, vars
  <2> QED
    BY <2>1, <2>2
<1>4. reply[c] = "success" \/ Saving(c) => InForce(RulesToBe, op[c])
  BY <1>2 DEF HInv, EditsHold
<1>5. ASSUME NEW d \in Call, Edit(d)
      PROVE  InForce(RulesToBe', op[c])
  <2>1. /\ RulesToBe = store /\ RulesToBe' = Changed(store, op[d])
        /\ pc[d] = "wait" /\ op[d].kind \in Editing
    BY <1>5 DEF Edit, BeginSave, Goto, RulesToBe
  <2>2. store \in Store /\ op[d] \in Op
    BY <2>1, StoreAssumption DEF SInv, StoreTypeOK, Requests
  <2>3. CASE d = c
    BY <2>1, <2>2, <2>3, EditIsInForce
  <2>4. CASE d # c
    <3>1. ~Overrules(op[d], op[c])
      BY <1>2, <2>1, <2>4 DEF Stands, UnderWay
    <3>2. pc'[c] = pc[c] /\ reply'[c] = reply[c]
      BY <1>5, <2>4 DEF Edit, BeginSave, Goto, Acknowledge, Answer, SInv, StoreTypeOK
    <3>3. InForce(store, op[c])
      BY <1>4, <2>1, <3>2 DEF Saving
    <3> QED
      BY <1>2, <2>1, <2>2, <3>1, <3>3, OtherEditsKeepIt
  <2> QED
    BY <2>3, <2>4
<1>6. ASSUME NEW d \in Call, EndSync(d)
      PROVE  InForce(RulesToBe', op[c])
  <2>1. /\ RulesToBe = store /\ RulesToBe' = Synced(store, found)
        /\ op[d].kind = "sync" /\ store \in Store
    BY <1>6 DEF EndSync, BeginSave, Goto, RulesToBe, SInv, StoreTypeOK, Requests
  <2>2. d # c
    BY <1>2, <2>1 DEF Editing
  <2>3. pc'[c] = pc[c] /\ reply'[c] = reply[c]
    BY <1>6, <2>2 DEF EndSync, BeginSave, Goto, Acknowledge, Answer, SInv, StoreTypeOK
  <2>4. InForce(store, op[c])
    BY <1>4, <2>1, <2>3 DEF Saving
  <2> QED
    BY <1>2, <2>1, <2>4, DomainsDoNotMatter
<1>7. ASSUME Death
      PROVE  InForce(RulesToBe', op[c])
  <2>1. RulesToBe = store /\ RulesToBe' = [store EXCEPT !.domains = {}]
    BY <1>7, DeathKeepsRules DEF HInv, Death
  <2>2. reply'[c] = reply[c] /\ ~Saving(c)'
    BY <1>7 DEF Death, Saving
  <2>3. InForce(store, op[c]) /\ store \in Store
    BY <1>4, <2>1, <2>2 DEF SInv, StoreTypeOK
  <2> QED
    BY <1>2, <2>1, <2>3, DomainsDoNotMatter
<1>8. op[c].kind # "read"
  BY <1>2 DEF Editing
<1> QED
  BY <1>1, <1>3, <1>4, <1>5, <1>6, <1>7, <1>8, StepsOfRules

LEMMA StepKeepsSettled ==
    ASSUME SInv, DownIsSettled, Next, FallBehind
    PROVE  DownIsSettled'
<1>1. ASSUME engine' = "down" PROVE Death
  BY <1>1 DEF SInv, StoreTypeOK, Next, CallStep, CallHandler, CallSync, CallUnrouted, HangUp, SyncQueues,
     Read, Edit, BeginSave, FinishSave, BeginSync, Fetch, EndSync, Restart, Goto
<1>2. Death => ~behind'
  BY DEF Death, FallBehind
<1> QED
  BY <1>1, <1>2 DEF DownIsSettled

LEMMA StepKeepsHInv ==
    ASSUME SInv, HInv, [HNext]_hvars
    PROVE  HInv'
<1>1. CASE HNext
  <2>1. [Next]_vars /\ FallBehind
    BY <1>1 DEF HNext
  <2>2. Fresh' /\ FileFollowsMemory' /\ DownIsSettled'
    BY <1>1, <2>1, StepKeepsFresh, StepKeepsFollowing, StepKeepsSettled DEF HInv, HNext
  <2>3. standing' \subseteq Call /\ \A c \in standing' : Stands(c)'
    BY <1>1 DEF HNext
  <2>4. ASSUME ~lost', NEW c \in standing', reply'[c] = "success" \/ Saving(c)'
        PROVE  InForce(RulesToBe', op'[c])
    <3>1. c \in Call /\ (c \in standing \/ pc[c] = "idle") /\ Stands(c)'
      BY <1>1 DEF HNext
    <3>2. ~lost /\ (engine' = "down" => file' # Torn /\ ~(behind /\ file' = file))
      BY <1>1, <2>4 DEF HNext
    <3> QED
      BY <2>1, <2>4, <3>1, <3>2, StepKeepsEdits
  <2>5. EditsHold'
    BY <2>4 DEF EditsHold
  <2> QED
    BY <2>2, <2>3, <2>5 DEF HInv
<1>2. CASE UNCHANGED hvars
  <2>1. UNCHANGED vars /\ UNCHANGED <<behind, lost, standing>>
    BY <1>2 DEF hvars
  <2>2. Fresh' /\ FileFollowsMemory' /\ DownIsSettled'
    BY <2>1, StepKeepsFresh, StepKeepsFollowing DEF HInv, DownIsSettled, vars
  <2>3. \A c \in Call : Stands(c)' <=> Stands(c)
    BY <2>1 DEF vars, Stands, UnderWay
  <2>4. RulesToBe' = RulesToBe /\ \A c \in Call : Saving(c)' <=> Saving(c)
    BY <2>1 DEF vars, RulesToBe, Saving
  <2>5. EditsHold'
    BY <2>1, <2>4 DEF EditsHold, HInv, vars
  <2> QED
    BY <2>1, <2>2, <2>3, <2>5 DEF HInv
<1> QED
  BY <1>1, <1>2

\* The history watches: a behaviour of HSpec is one of Spec.
THEOREM HistoryImplementsStore == HSpec => Spec
<1>1. HInit => Init
  BY DEF HInit
<1>2. [HNext]_hvars => [Next]_vars
  BY DEF HNext, hvars
<1> QED
  BY <1>1, <1>2, PTL DEF HSpec, Spec

\* The inductive invariant of the store with its history: see the parts of HInv.
THEOREM HistoryInvariance == HSpec => []HInv
<1>1. SInv /\ HInv /\ [HNext]_hvars => HInv'
  BY StepKeepsHInv
<1> QED
  BY InitHInv, HistoryImplementsStore, StoreInvariance, <1>1, PTL DEF HSpec

\* The file holds what a restart must bring back, whatever the requests do and
\* however often the process dies, except between a failed write and the next
\* good one.
THEOREM FileIsFaithful == HSpec => []FileFollowsMemory
<1>1. HInv => FileFollowsMemory
  BY DEF HInv
<1> QED
  BY HistoryInvariance, <1>1, PTL

\* An acknowledged edit is in force until a request overrules it, unless the
\* process dies in the middle of a save or with the file behind.
THEOREM AcknowledgedEditsHold == HSpec => []AckedEditsHold
<1>1. HInv => AckedEditsHold
  BY DEF HInv, EditsHold, AckedEditsHold
<1> QED
  BY HistoryInvariance, <1>1, PTL

-----------------------------------------------------------------------------
(***************************************************************************)
(* RuleStore implements RuleContract.                                      *)
(***************************************************************************)

\* The contract speaks of the same data.
LEMMA SameData ==
    /\ Contract!Store = Store /\ Contract!Editing = Editing
    /\ \A f : Contract!Load(f) = Load(f)
    /\ \A s, o : Contract!Changed(s, o) = Changed(s, o)
    /\ \A s, domains : Contract!Synced(s, domains) = Synced(s, domains)
    /\ \A p : Contract!Lines(p) = Lines(p)
<1>1. \A c, domains : Contract!FromConfig(c, domains) = FromConfig(c, domains)
  BY DEF Contract!FromConfig, FromConfig
<1>2. Contract!DefaultConfig = DefaultConfig
  BY DEF Contract!DefaultConfig, DefaultConfig, Contract!Spelling, Spelling
<1>3. Contract!Store = Store
  BY DEF Contract!Store, Store, Contract!Spelling, Spelling, Contract!Mapping, Mapping,
     Contract!Stamp, Stamp
<1>4. \A f : Contract!Load(f) = Load(f)
  BY <1>1, <1>2 DEF Contract!Load, Load
<1>5. \A d : Contract!Lower(d) = Lower(d)
  BY DEF Contract!Lower, Lower
<1>6. \A s, o : Contract!Changed(s, o) = Changed(s, o)
  BY <1>1, <1>5 DEF Contract!Changed, Changed, Contract!Edited, Edited
<1>7. \A s, domains : Contract!Synced(s, domains) = Synced(s, domains)
  BY DEF Contract!Synced, Synced
<1>8. \A p : Contract!Lines(p) = Lines(p)
  BY <1>5 DEF Contract!Lines, Lines
<1>9. Contract!Editing = Editing
  BY DEF Contract!Editing, Editing
<1>10. QED
  BY <1>3, <1>4, <1>6, <1>7, <1>8, <1>9

\* How the step of one request looks through the mapping.
LEMMA StageMoves ==
    ASSUME SInv, NEW c \in Call, NEW from \in Pc, NEW to \in Pc, Goto(c, from, to)
    PROVE  Stages[c] = StageAt(from) /\ Stages' = [Stages EXCEPT ![c] = StageAt(to)]
BY DEF SInv, StoreTypeOK, Goto, Stages

LEMMA InitKeepsRules == HInit => Contract!Init
BY SameData DEF HInit, Init, Contract!Init, RulesToBe, Stages, StageAt, Sound

LEMMA SyncIsNoEdit == "sync" \notin Editing \cup {"read"}
BY DEF Editing

\* Both levels acknowledge alike.
LEMMA SameAcknowledgement ==
    ASSUME NEW c \in Call, Acknowledge(c)
    PROVE  Contract!Acknowledged(c)
BY DEF Acknowledge, Answer, Contract!Acknowledged, Contract!Told

\* A step that neither writes nor fails to, and where nobody begins or ends a
\* save, leaves it as sound as it was.
LEMMA SoundStays ==
    ASSUME FallBehind, UNCHANGED <<file, engine, errors>>, \A c \in Call : Saving(c)' <=> Saving(c)
    PROVE  Sound' = Sound
<1>1. Sound' <=> Sound
  BY DEF FallBehind, Sound
<1> QED
  BY <1>1 DEF Sound

\* Arrivals, and requests that come to nothing.
LEMMA CallsAreContracts ==
    ASSUME SInv, FallBehind, NEW c \in Call,
           CallHandler(c) \/ CallSync(c) \/ CallUnrouted(c) \/ HangUp(c) \/ Read(c)
    PROVE  Contract!Next
<1>1. RulesToBe' = RulesToBe
  BY RulesStay DEF CallHandler, CallSync, CallUnrouted, HangUp, Read
<1>2. Sound' = Sound
  <2>1. UNCHANGED <<file, engine, errors>>
    BY DEF CallHandler, CallSync, CallUnrouted, HangUp, Read, bounds
  <2>2. \A d \in Call : Saving(d)' <=> Saving(d)
    BY DEF CallHandler, CallSync, CallUnrouted, HangUp, Read, Goto, Saving, SInv, StoreTypeOK
  <2> QED
    BY <2>1, <2>2, SoundStays
<1>3. CASE CallHandler(c) \/ CallSync(c)
  <2>1. Stages[c] = "open" /\ Stages' = [Stages EXCEPT ![c] = "asked"]
    BY <1>3, StageMoves DEF CallHandler, CallSync, Pc, StageAt
  <2>2. Contract!Ask(c)
    BY <1>1, <1>2, <1>3, <2>1, SyncIsNoEdit DEF CallHandler, CallSync, Asking, Answer,
       Contract!Ask, Contract!Move, Contract!Told
  <2> QED
    BY <2>2 DEF Contract!Next
<1>4. CASE CallUnrouted(c)
  <2>1. Stages[c] = "open" /\ Stages' = [Stages EXCEPT ![c] = "over"]
    BY <1>4, StageMoves DEF CallUnrouted, Pc, StageAt
  <2>2. Contract!Refuse(c)
    BY <1>1, <1>2, <1>4, <2>1 DEF CallUnrouted, Asking, Answer, Contract!Refuse, Contract!Move,
       Contract!Told
  <2> QED
    BY <2>2 DEF Contract!Next
<1>5. CASE HangUp(c) \/ Read(c)
  <2>1. Stages[c] = "asked" /\ Stages' = [Stages EXCEPT ![c] = "over"]
    BY <1>5, StageMoves DEF HangUp, Read, Pc, StageAt
  <2>2. CASE HangUp(c)
    BY <1>1, <1>2, <2>1, <2>2 DEF HangUp, Contract!Vanish, Contract!Move, Contract!Next
  <2>3. CASE Read(c)
    BY <1>1, <1>2, <2>1, <2>3 DEF Read, Answer, Contract!Look, Contract!Move, Contract!Told,
       Contract!Next
  <2> QED
    BY <1>5, <2>2, <2>3
<1> QED
  BY <1>3, <1>4, <1>5

\* The waiting and fetching of a sync does not show, nor does a restart: its
\* outcome was settled when the process died.
LEMMA RestDoesNotShow ==
    ASSUME SInv, HInv,
           \/ FallBehind /\ \E c \in Call : SyncQueues(c) \/ BeginSync(c) \/ Fetch(c)
           \/ FallBehind /\ Restart
           \/ UNCHANGED hvars
    PROVE  UNCHANGED Contract!vars
<1>1. ASSUME FallBehind, NEW c \in Call, SyncQueues(c) \/ BeginSync(c) \/ Fetch(c)
      PROVE  UNCHANGED Contract!vars
  <2>1. UNCHANGED <<store, file, engine, errors, op, reply>>
    BY <1>1 DEF SyncQueues, BeginSync, Fetch, bounds
  <2>2. Stages' = Stages
    <3>1. CASE Fetch(c)
      BY <3>1 DEF Fetch, Stages
    <3>2. CASE SyncQueues(c) \/ BeginSync(c)
      <4>1. Stages[c] = "asked" /\ Stages' = [Stages EXCEPT ![c] = "asked"]
        BY <3>2, StageMoves DEF SyncQueues, BeginSync, Pc, StageAt
      <4> QED
        BY <4>1 DEF Stages
    <3> QED
      BY <1>1, <3>1, <3>2
  <2>3. \A d \in Call : Saving(d)' <=> Saving(d)
    BY <1>1 DEF SyncQueues, BeginSync, Fetch, Goto, Saving, SInv, StoreTypeOK
  <2> QED
    BY <1>1, <2>1, <2>2, <2>3, RulesStay, SoundStays DEF Contract!vars
<1>2. ASSUME FallBehind, Restart
      PROVE  UNCHANGED Contract!vars
  <2>1. RulesToBe' = RulesToBe /\ UNCHANGED <<Stages, op, reply>>
    BY <1>2 DEF Restart, Stages, RulesToBe
  <2>2. ~behind /\ ~behind'
    BY <1>2 DEF Restart, FallBehind, bounds, HInv, DownIsSettled
  <2> QED
    BY <2>1, <2>2 DEF Sound, Contract!vars
<1>3. CASE UNCHANGED hvars
  BY <1>3 DEF hvars, vars, Contract!vars, Stages, RulesToBe, Sound, Saving
<1> QED
  BY <1>1, <1>2, <1>3

\* A save begun is an effect that is being saved, or one whose save has failed.
LEMMA BeginSaveIsContracts ==
    ASSUME SInv, FallBehind, NEW c \in Call, NEW from \in {"wait", "fetch"}, Holds(c),
           BeginSave(c, from)
    PROVE  \/ Contract!Move(c, "asked", "saving") /\ UNCHANGED reply /\ Sound' = TRUE
           \/ Contract!Move(c, "asked", "over") /\ Contract!Acknowledged(c) /\ Sound' = FALSE
<1>1. CASE Goto(c, from, "save") /\ UNCHANGED reply
  <2>1. Stages[c] = "asked" /\ Stages' = [Stages EXCEPT ![c] = "saving"]
    BY <1>1, StageMoves DEF Pc, StageAt
  <2>2. Saving(c)'
    BY <1>1 DEF Goto, Saving, SInv, StoreTypeOK
  <2> QED
    BY <1>1, <2>1, <2>2 DEF Contract!Move, Sound
<1>2. CASE Goto(c, from, "done") /\ Acknowledge(c) /\ errors' = errors + 1
  <2>1. Stages[c] = "asked" /\ Stages' = [Stages EXCEPT ![c] = "over"]
    BY <1>2, StageMoves DEF Pc, StageAt
  <2>2. errors' # errors
    BY <1>2, StoreAssumption DEF SInv, StoreTypeOK
  <2>3. behind'
    BY <2>2, Zenon DEF FallBehind
  <2>4. \A d \in Call : ~Saving(d)'
    BY <1>2, HolderIsAlone DEF Goto, Saving, SInv, StoreTypeOK
  <2> QED
    BY <1>2, <2>1, <2>3, <2>4, SameAcknowledgement DEF Contract!Move, Sound
<1> QED
  BY <1>1, <1>2 DEF BeginSave

\* Edits, restores and syncs take effect when their change is made in memory.
LEMMA EffectsAreContracts ==
    ASSUME SInv, FallBehind, NEW c \in Call, Edit(c) \/ EndSync(c)
    PROVE  Contract!TakeEffect(c)
<1>1. RulesToBe = store /\ RulesToBe' = store'
  BY DEF Edit, EndSync, BeginSave, Goto, RulesToBe
<1>2. Holds(c)
  BY DEF Edit, EndSync, SInv, Requests
<1>3. CASE Edit(c)
  <2>1. Contract!Effect(op[c])
    BY <1>1, <1>3, SameData DEF Edit, Contract!Effect
  <2> QED
    BY <1>2, <1>3, <2>1, BeginSaveIsContracts DEF Edit, Contract!TakeEffect
<1>4. CASE EndSync(c)
  <2>1. op[c].kind = "sync" /\ found \subseteq ServedBy(store.urls)
    BY <1>4 DEF EndSync, SInv, Requests, SyncFinds
  <2>2. Contract!Served = ServedBy(store.urls)
    BY <1>1, SameData DEF Contract!Served, ServedBy
  <2>3. Contract!Effect(op[c])
    BY <1>1, <1>4, <2>1, <2>2, SameData DEF EndSync, Contract!Effect
  <2> QED
    BY <1>2, <1>4, <2>3, BeginSaveIsContracts DEF EndSync, Contract!TakeEffect
<1> QED
  BY <1>3, <1>4

LEMMA SavedIsContracts ==
    ASSUME SInv, NEW c \in Call, FinishSave(c)
    PROVE  Contract!Saved(c)
<1>1. Stages[c] = "saving" /\ Stages' = [Stages EXCEPT ![c] = "over"]
  BY StageMoves DEF FinishSave, Pc, StageAt
<1>2. RulesToBe' = RulesToBe
  BY DEF FinishSave, Goto, RulesToBe
<1>3. Sound' \in BOOLEAN
  BY DEF Sound
<1> QED
  BY <1>1, <1>2, <1>3, SameAcknowledgement DEF FinishSave, Contract!Saved, Contract!Move

\* Dying settles what the engine comes back with.
LEMMA DeathIsContracts ==
    ASSUME SInv, HInv, FallBehind, Death
    PROVE  Contract!Die
<1>1. RulesToBe = store /\ RulesToBe' = Load(file') /\ engine = "up"
  BY DEF Death, RulesToBe
<1>2. \A c \in Call : Stages[c] = "saving" <=> Saving(c)
  BY DEF Stages, StageAt, Saving, SInv, StoreTypeOK, Pc
<1>3. Stages' = [c \in Call |-> IF Stages[c] = "open" THEN "open" ELSE "over"]
  BY DEF Death, Stages, StageAt, SInv, StoreTypeOK, Pc
<1>4. Sound' = TRUE
  BY DEF Death, FallBehind, Sound
<1>5. CASE ~Sound
  <2>1. RulesToBe' \in Store /\ RulesToBe'.domains = {}
    BY <1>1, LoadIsTyped, ConfigIsTyped DEF Death, SInv, StoreTypeOK
  <2> QED
    BY <1>3, <1>4, <1>5, <2>1, SameData DEF Death, Contract!Die
<1>6. CASE Sound /\ (\E c \in Call : Saving(c)) /\ file' = file
  <2>1. file' = Torn
    BY <1>6 DEF SInv, TornWhileSaving
  <2>2. RulesToBe' = Load(Absent)
    BY <1>1, <2>1 DEF Load
  <2> QED
    BY <1>2, <1>3, <1>4, <1>6, <2>2, SameData DEF Death, Contract!Die
<1>7. CASE Sound /\ (file' = ToConfig(store) \/ ~\E c \in Call : Saving(c))
  <2>1. file' = ToConfig(store) => RulesToBe' = [RulesToBe EXCEPT !.domains = {}]
    BY <1>1, Reload DEF SInv, StoreTypeOK
  <2>2. (~\E c \in Call : Saving(c)) => RulesToBe' = [RulesToBe EXCEPT !.domains = {}]
    <3>1. ASSUME ~\E c \in Call : Saving(c)
          PROVE  file' = file /\ Load(file) = [store EXCEPT !.domains = {}]
      BY <1>1, <1>7, <3>1 DEF Death, Saving, Sound, HInv, FileFollowsMemory
    <3> QED
      BY <1>1, <3>1
  <2>3. RulesToBe' = [RulesToBe EXCEPT !.domains = {}]
    BY <1>7, <2>1, <2>2
  <2> QED
    BY <1>3, <1>4, <1>7, <2>3 DEF Death, Contract!Die
<1> QED
  BY <1>5, <1>6, <1>7 DEF Death, Saving

\* The rule store implements its contract.
THEOREM StoreKeepsContract == HSpec => KeepsRules
<1>1. SInv /\ HInv /\ [HNext]_hvars => [Contract!Next]_(Contract!vars)
  <2> SUFFICES ASSUME SInv, HInv, [HNext]_hvars PROVE [Contract!Next]_(Contract!vars)
    OBVIOUS
  <2>1. CASE UNCHANGED hvars
    BY <2>1, RestDoesNotShow
  <2>2. CASE Next /\ FallBehind
    <3>1. ASSUME NEW c \in Call, Edit(c) \/ EndSync(c) \/ FinishSave(c) PROVE Contract!Next
      BY <2>2, <3>1, EffectsAreContracts, SavedIsContracts DEF Contract!Next
    <3>2. CASE Death
      BY <2>2, <3>2, DeathIsContracts DEF Contract!Next
    <3> QED
      BY <2>2, <3>1, <3>2, CallsAreContracts, RestDoesNotShow DEF Next, CallStep
  <2> QED
    BY <2>1, <2>2 DEF HNext
<1> QED
  BY InitKeepsRules, HistoryImplementsStore, StoreInvariance, HistoryInvariance, <1>1, PTL
     DEF HSpec, KeepsRules, Contract!Spec

=============================================================================
