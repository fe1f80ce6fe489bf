-------------------------------- MODULE Engine --------------------------------
(***************************************************************************)
(* The tasks startNativeEngine runs on one runtime (rust-dns-engine/src/   *)
(* lib.rs): the DNS server, whatever changes the rules for the control     *)
(* API, and the mesh task.  The mesh task locks the rules, and with the    *)
(* guard in its hand awaits P2PNode::start_mesh_sync, a loop that sleeps   *)
(* an hour, prints a line, and never returns.                              *)
(*                                                                         *)
(* The standalone binary (main.rs) runs the same tasks without the mesh:   *)
(* that is DnsServer itself.                                               *)
(***************************************************************************)
EXTENDS DnsServerProperties

CONSTANT Mesh   \* the mesh task

ASSUME MeshAssumption == Mesh \in Writer

\* p2p_bl.lock().await: once, when the task starts.
MeshQueues == WriterQueues(Mesh)

\* Mutant: the mesh task lets go of the rules, as a writer would.
EveryWriter == Writer

\* The control API's tasks: each queues for the rules and changes them.
ApiTask == Writer \ {Mesh}

EngineNext ==
    \/ RequestStep
    \/ MeshQueues
    \/ \E w \in ApiTask : WriterQueues(w) \/ WriterGivesUp(w) \/ ChangeRules(w)
    \/ ResetSecond
    \/ ServerFails

EngineSpec == Init /\ [][EngineNext]_vars

\* As for the server alone, and the mesh task is polled too.
EngineFairness ==
    /\ \A q \in Query : WF_vars(TaskStep(q))
    /\ \A w \in ApiTask : WF_vars(ChangeRules(w))
    /\ WF_vars(MeshQueues)

EngineFairSpec == EngineSpec /\ EngineFairness

-----------------------------------------------------------------------------

\* The mesh task ends up with the rule lock and keeps it.
MeshKeepsTheRules == <>[](Holds(Mesh) \/ server = "down")

\* Once the mesh task holds the rules it never lets them go, and everything that
\* needs them is where it is for good: no change made through the control API ever
\* takes effect again, and a request that is to be judged or routed never is.
FrozenBehindMesh ==
    /\ [](Holds(Mesh) => []Holds(Mesh))
    /\ \A r \in RuleStates : [](Holds(Mesh) /\ rules = r => [](rules = r))
    /\ \A q \in Query : \A at \in {"verdict", "local"} :
           [](Holds(Mesh) /\ pc[q] = at => [](pc[q] = at))

\* Requests that are past the filter do not need the rules any more, and end
\* even then: the cache, the upstream exchange and the send wait for no rule.
PastFilterEnds ==
    \A q \in Query :
        pc[q] \in {"cache", "forward", "put", "send"} ~> (pc[q] = "done" \/ server = "down")

=============================================================================
