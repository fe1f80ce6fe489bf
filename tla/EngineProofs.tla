---------------------------- MODULE EngineProofs ----------------------------
(***************************************************************************)
(* The engine with its mesh task is a DNS server as far as safety goes,    *)
(* and what the mesh task does to it.                                      *)
(***************************************************************************)
EXTENDS Engine, DnsContractProofs

\* Running the mesh task beside the server adds no behaviour the server with its
\* writers did not have: what is proved of DnsServer holds of the engine.
THEOREM EngineImplementsServer == EngineSpec => Spec
<1>1. EngineNext => Next
  BY MeshAssumption DEF EngineNext, Next, MeshQueues, ApiTask
<1>2. QED
  BY <1>1, PTL DEF EngineSpec, Spec

\* In particular the engine judges and routes every query by the contract.
THEOREM EngineKeepsContract == EngineSpec => KeepsContract
BY EngineImplementsServer, ServerKeepsContract, PTL

\* Nobody but the mesh task leaves the queue once it is the head.
LEMMA OnlyHeadLeaves ==
    ASSUME NEW t, t # Mesh, Holds(Mesh)
    PROVE  ~Leave(t)
BY DEF Leave, Holds

\* While the mesh task holds the rules, no step takes them from it, changes them,
\* or moves a request that waits for them.
LEMMA StepsBehindMesh ==
    ASSUME TypeOK, LockDiscipline, [EngineNext]_vars, Holds(Mesh)
    PROVE  /\ Holds(Mesh)'
           /\ rules' = rules
           /\ \A q \in Query : pc[q] \in {"verdict", "local"} => pc'[q] = pc[q]
<1> DEFINE Frozen == /\ Holds(Mesh)'
                     /\ rules' = rules
                     /\ \A q \in Query : pc[q] \in {"verdict", "local"} => pc'[q] = pc[q]
<1>0. /\ Mesh \in Task /\ queue \in Seq(Task) /\ pc \in [Query -> Pc] /\ NoneTwice
      /\ \A q \in Query : Queued(q) <=> pc[q] \in {"verdict", "local"}
      /\ \A q \in Query : q \in Task /\ q # Mesh
      /\ \A w \in Writer : w \in Task
  BY MeshAssumption, ServerAssumption DEF TypeOK, LockDiscipline, Task
<1> USE <1>0
<1>1. ASSUME NEW t \in Task, Join(t) \/ (Abandon(t) /\ t # Mesh)
      PROVE  Holds(Mesh)'
  BY <1>1, HolderStays
<1>2. ASSUME UNCHANGED queue PROVE Holds(Mesh)'
  BY <1>2 DEF Holds
<1>3. \A q \in Query : ~Leave(q)
  BY OnlyHeadLeaves
<1>4. \A w \in ApiTask : ~Leave(w)
  BY OnlyHeadLeaves DEF ApiTask
<1>5. ASSUME NEW q \in Query, Receive(q) \/ WriteLog(q) PROVE Frozen
  BY <1>1, <1>5 DEF Receive, WriteLog, Goto
<1>6. ASSUME NEW q \in Query,
             \/ ReceiveEmpty(q) \/ ReceiveGarbage(q) \/ CacheHit(q) \/ CacheMiss(q)
             \/ Forward(q) \/ ForwardFails(q) \/ PutAnswer(q) \/ Send(q)
      PROVE  Frozen
  BY <1>2, <1>6 DEF ReceiveEmpty, ReceiveGarbage, CacheHit, CacheMiss, Forward,
     ForwardFails, PutAnswer, Send, Respond, Goto, lockVars
<1>7. \A q \in Query : ~TakeVerdict(q) /\ ~ResolveLocally(q) /\ ~Refuse(q) /\ ~LetPass(q)
  BY <1>3 DEF TakeVerdict, ResolveLocally, Refuse, LetPass
<1>8. ASSUME NEW w \in Writer, WriterQueues(w) PROVE Frozen
  BY <1>1, <1>8 DEF WriterQueues
<1>9. ASSUME NEW w \in ApiTask, WriterGivesUp(w) PROVE Frozen
  BY <1>1, <1>9 DEF WriterGivesUp, ApiTask
<1>10. \A w \in ApiTask : ~ChangeRules(w)
  BY <1>4 DEF ChangeRules
<1>11. ASSUME ResetSecond \/ ServerFails \/ UNCHANGED vars PROVE Frozen
  BY <1>2, <1>11 DEF ResetSecond, ServerFails, vars, lockVars
<1> QED
  BY <1>5, <1>6, <1>7, <1>8, <1>9, <1>10, <1>11, MeshAssumption
     DEF EngineNext, RequestStep, TaskStep, MeshQueues, ApiTask

\* Once the mesh task holds the rules, it holds them for ever, no change of the
\* rules ever takes effect, and no request that waits is ever judged or routed.
THEOREM MeshFreezesRules == EngineSpec => FrozenBehindMesh
<1> DEFINE I == TypeOK /\ LockDiscipline
<1>1. EngineSpec => []I /\ [][EngineNext]_vars
  BY EngineImplementsServer, TypeCorrectness, LockIsDisciplined, PTL DEF EngineSpec
<1>2. EngineSpec => [](Holds(Mesh) => []Holds(Mesh))
  <2>1. I /\ [EngineNext]_vars /\ Holds(Mesh) => Holds(Mesh)'
    BY StepsBehindMesh
  <2> HIDE DEF I
  <2> QED
    BY <1>1, <2>1, PTL
<1>3. ASSUME NEW r \in RuleStates
      PROVE  EngineSpec => [](Holds(Mesh) /\ rules = r => [](rules = r))
  <2>1. I /\ [EngineNext]_vars /\ (Holds(Mesh) /\ rules = r) => (Holds(Mesh) /\ rules = r)'
    BY StepsBehindMesh
  <2> HIDE DEF I
  <2> QED
    BY <1>1, <2>1, PTL
<1>4. ASSUME NEW q \in Query, NEW at \in {"verdict", "local"}
      PROVE  EngineSpec => [](Holds(Mesh) /\ pc[q] = at => [](pc[q] = at))
  <2>1. I /\ [EngineNext]_vars /\ (Holds(Mesh) /\ pc[q] = at) => (Holds(Mesh) /\ pc[q] = at)'
    BY StepsBehindMesh
  <2> HIDE DEF I
  <2> QED
    BY <1>1, <2>1, PTL
<1> QED
  BY <1>2, <1>3, <1>4 DEF FrozenBehindMesh

=============================================================================
