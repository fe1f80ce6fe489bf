--------------------------- MODULE RuleStoreHistory ---------------------------
(***************************************************************************)
(* The rule store with three history variables, which see every step and   *)
(* change none; what the config file and an acknowledgement of the control *)
(* API are worth, said with them; and how the store implements             *)
(* RuleContract.                                                           *)
(***************************************************************************)
EXTENDS RuleStoreProperties

VARIABLES
    behind,   \* a write has failed, and none has succeeded since
    lost,     \* the process has died with the file behind or half written
    standing  \* the edits that no other request overrules

hvars == <<vars, behind, lost, standing>>

UnderWay(c) == pc[c] \in {"spawned", "wait", "fetch", "save"}

\* The entry of its list that an edit is about.
Entry(o) == IF o.kind \in {"regex", "gravity"} THEN o.item ELSE Lower(o.item)

\* An edit that may undo what the edit e did: of the same entry, or all of them.
Overrules(o, e) ==
    /\ o.kind \in Editing
    /\ \/ o.kind = "restore"
       \/ e.kind = "restore"
       \/ o.kind = e.kind /\ Entry(o) = Entry(e)

\* An edit stands from its arrival on, if no other one that overrules it is
\* under way, and until such a one arrives.
Stands(c) ==
    /\ pc[c] # "idle"
    /\ op[c].kind \in Editing
    /\ \A d \in Call \ {c} : UnderWay(d) => ~Overrules(op[d], op[c])

HInit == Init /\ behind = FALSE /\ lost = FALSE /\ standing = {}

\* A failed write leaves the file behind; the next one that succeeds, and a
\* restart, which takes the file for the truth, put it right.
FallBehind ==
    behind' = (errors' # errors \/ (behind /\ file' = file /\ engine' = engine))

HNext ==
    /\ Next
    /\ FallBehind
    /\ lost' = (lost \/ (engine' = "down" /\ (file' = Torn \/ (behind /\ file' = file))))
    /\ standing' = {c \in Call : (c \in standing \/ pc[c] = "idle") /\ Stands(c)'}

HSpec == HInit /\ [][HNext]_hvars

-----------------------------------------------------------------------------

\* The config file holds what a restart must bring back: unless it is behind, or
\* a request is in the middle of its save, loading it gives the rules in force,
\* gravity domains apart; and during a save it is torn, whoever looks.
FileFollowsMemory ==
    /\ engine = "up" /\ ~behind /\ (\A c \in Call : ~Saving(c)) =>
           Load(file) = [store EXCEPT !.domains = {}]
    /\ \A c \in Call : Saving(c) => file = Torn

\* What an edit is for: is_blocked and resolve_local, which strip and lower the
\* name they are asked about, see the entry if it was added and do not if it was
\* removed; a restored config is in force, but for the time of the last sync.
InForce(s, o) ==
    /\ o.kind = "whitelist" /\ ~o.item.dot => (Clean(o.item) \in s.whitelist <=> o.add)
    /\ o.kind = "blacklist" /\ ~o.item.dot => (Clean(o.item) \in s.blacklist <=> o.add)
    /\ o.kind = "local" /\ ~o.item.dot =>
           s.mapping[Clean(o.item)] = IF o.add THEN o.ip ELSE NoIp
    /\ o.kind = "regex" => (o.item \in s.regex <=> o.add /\ o.item \in Pattern)
    /\ o.kind = "gravity" => (o.item \in s.urls <=> o.add)
    /\ o.kind = "restore" =>
           FromConfig(o.config, s.domains) = [s EXCEPT !.lastSync = o.config.last_sync]

\* What the API acknowledged is so: an edit that was answered "success" is in
\* force, however its entry was spelled (to_lowercase, api.rs:129), whatever is
\* read, synced and edited besides, however often the process dies and comes
\* back, and although writes fail, until a request overrules it.  The only way to
\* lose it is a death in the middle of a save, or before a save makes good a write
\* that failed.  (A name with a trailing dot is stored with it and never found.)
AckedEditsHold ==
    ~lost => \A c \in standing : reply[c] = "success" => InForce(RulesToBe, op[c])

-----------------------------------------------------------------------------
(***************************************************************************)
(* The refinement mapping.                                                 *)
(***************************************************************************)

StageAt(p) ==
    CASE p = "idle"                         -> "open"
      [] p \in {"spawned", "wait", "fetch"} -> "asked"
      [] p = "save"                         -> "saving"
      [] p \in {"done", "gone"}             -> "over"

Stages == [c \in Call |-> StageAt(pc[c])]

\* What the file holds, or will once it is written, is what a restart must bring
\* back.
Sound == ~behind \/ \E c \in Call : Saving(c)

Contract ==
    INSTANCE RuleContract WITH
        rules <- RulesToBe, stage <- Stages, sound <- Sound

\* The store keeps the contract: requests take effect one at a time and whole,
\* a sync brings what the lists registered when it takes effect may serve, and
\* the process dies without losing a change that was saved, nor, once a save has
\* succeeded again, any that was made while writes failed.
KeepsRules == Contract!Spec

=============================================================================
