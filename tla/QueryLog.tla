------------------------------- MODULE QueryLog -------------------------------
(***************************************************************************)
(* The query log of the engine (rust-dns-engine/src/logger.rs): a table of *)
(* rows, the statements that insert, search, count and delete them, the    *)
(* two tasks of startNativeEngine that use it (lib.rs) and the log routes  *)
(* of the control API.                                                     *)
(*                                                                         *)
(* Every function of logger.rs opens a connection of its own and runs its  *)
(* statements outside a transaction: each statement is one action, and     *)
(* anything may come between two of them.  A statement that fails leaves   *)
(* no trace but an error nobody looks at; only the daily delete's failure  *)
(* is an action, because what the table promises depends on it.  The       *)
(* system's clock is taken not to be set back.                             *)
(***************************************************************************)
EXTENDS Integers, FiniteSets

CONSTANTS
    Name,         \* domains
    Retentions,   \* values of log_retention_days a restore may bring
    Day,          \* ticks of the clock in a day
    Horizon,      \* bound: the last tick
    MaxRows,      \* bound: rows kept at a time
    MaxDrift      \* bound: blocked queries logged between two statements of a reply

ASSUME LogAssumption ==
    /\ Retentions \subseteq Int
    /\ Day \in Nat \ {0}
    /\ Horizon \in Nat /\ MaxRows \in Nat /\ MaxDrift \in Nat

VARIABLES
    now,         \* CURRENT_TIMESTAMP
    rows,        \* the table queries
    retention,   \* the setting behind the rule lock
    keeper,      \* the daily task: where it is ("off" without an engine), the days
                 \* it read, when it wakes
    stats,       \* a reply of /stats in the making, statement by statement
    drift,       \* history: blocked queries logged since its last statement
    disturbed    \* history: when the daily task was last late, overtaken or failed

vars == <<now, rows, retention, keeper, stats, drift, disturbed>>

QueryRow == [id : Nat \ {0}, time : Nat, name : Name, blocked : BOOLEAN]

\* What a reply has so far, and the drift between its last two statements.
Stats == [at : {"none", "total", "blocked", "top"},
          total : Nat, blocked : Nat, top : [Name -> Nat], slack : Nat]

NoStats == [at |-> "none", total |-> 0, blocked |-> 0, top |-> [n \in Name |-> 0],
            slack |-> 0]

LogTypeOK ==
    /\ now \in Nat
    /\ rows \subseteq QueryRow
    /\ IsFiniteSet(rows)
    /\ retention \in Retentions
    /\ keeper \in [at : {"off", "asleep", "apply"}, days : Retentions, wake : Nat]
    /\ stats \in Stats
    /\ drift \in Nat
    /\ disturbed \in Nat

\* The first start: an empty table, and a task that does not wait for its first run.
Init ==
    /\ now = 0
    /\ rows = {}
    /\ retention \in Retentions
    /\ keeper = [at |-> "asleep", days |-> retention, wake |-> 0]
    /\ stats = NoStats
    /\ drift = 0
    /\ disturbed = 0

-----------------------------------------------------------------------------
(***************************************************************************)
(* The statements.                                                         *)
(***************************************************************************)

\* Mutant: the first id that is free.
IsFreeId(i) == \A r \in rows : r.id # i

\* INTEGER PRIMARY KEY without AUTOINCREMENT: one more than the largest id there
\* is, so ids are given again after a delete.
IsNextId(i) == \A r \in rows : r.id < i

\* log_query_with_metadata.
Insert ==
    /\ keeper.at # "off"
    /\ Cardinality(rows) < MaxRows
    /\ \E i \in {1} \cup {r.id + 1 : r \in rows}, n \in Name, b \in BOOLEAN :
        /\ b => drift < MaxDrift
        /\ IsNextId(i)
        /\ rows' = rows \cup {[id |-> i, time |-> now, name |-> n, blocked |-> b]}
        /\ drift' = IF b /\ stats.at \in {"total", "blocked"} THEN drift + 1 ELSE drift
    /\ UNCHANGED <<now, retention, keeper, stats, disturbed>>

\* search_logs: of the rows that match, the n with the largest ids.
Search(matching, n) ==
    {r \in matching : Cardinality({s \in matching : s.id > r.id}) < n}

\* flush_logs, the route flush_logs.
Flush ==
    /\ keeper.at # "off"
    /\ rows' = {}
    /\ UNCHANGED <<now, retention, keeper, stats, drift, disturbed>>

\* Mutant: the condition is lost.
AnyRows == rows

BlockedRows == {r \in rows : r.blocked}

BlockedOf(n) == {r \in BlockedRows : r.name = n}

\* get_stats, its first statement.
CountTotal ==
    /\ keeper.at # "off"
    /\ stats.at # "total"
    /\ stats' = [NoStats EXCEPT !.at = "total", !.total = Cardinality(rows)]
    /\ drift' = 0
    /\ UNCHANGED <<now, rows, retention, keeper, disturbed>>

\* Its second.  The hourly alert looks at this number only.
CountBlocked ==
    /\ stats.at = "total"
    /\ stats' = [stats EXCEPT !.at = "blocked", !.blocked = Cardinality(BlockedRows),
                              !.slack = drift]
    /\ drift' = 0
    /\ UNCHANGED <<now, rows, retention, keeper, disturbed>>

\* get_top_blocked, for the same reply; get_app_stats groups by another column.
CountTop ==
    /\ stats.at = "blocked"
    /\ stats' = [stats EXCEPT !.at = "top",
                              !.top = [n \in Name |-> Cardinality(BlockedOf(n))],
                              !.slack = drift]
    /\ drift' = 0
    /\ UNCHANGED <<now, rows, retention, keeper, disturbed>>

-----------------------------------------------------------------------------
(***************************************************************************)
(* The daily task.                                                         *)
(***************************************************************************)

\* timestamp < datetime('now', '-d days').  A negative d makes a modifier SQLite
\* does not know ('--1 days'), the date is NULL and no row is older than that.
Outdated(r, d) == d >= 0 /\ r.time < now - d * Day

\* Mutant: a day of grace.
ReadOneDayMore ==
    /\ keeper.at = "asleep" /\ now >= keeper.wake
    /\ keeper' = [keeper EXCEPT !.at = "apply", !.days = retention + 1]
    /\ UNCHANGED <<now, rows, retention, stats, drift, disturbed>>

\* It wakes, waits for the rule lock and copies the retention out.
ReadRetention ==
    /\ keeper.at = "asleep" /\ now >= keeper.wake
    /\ keeper' = [keeper EXCEPT !.at = "apply", !.days = retention]
    /\ UNCHANGED <<now, rows, retention, stats, drift, disturbed>>

Sleeps == keeper' = [keeper EXCEPT !.at = "asleep", !.wake = now + Day]

\* apply_retention.
ApplyRetention ==
    /\ keeper.at = "apply"
    /\ rows' = {r \in rows : ~Outdated(r, keeper.days)}
    /\ Sleeps
    /\ UNCHANGED <<now, retention, stats, drift, disturbed>>

\* let _ = logger::apply_retention(..): the next try is a day later.
ApplyFails ==
    /\ keeper.at = "apply"
    /\ Sleeps
    /\ disturbed' = now
    /\ UNCHANGED <<now, rows, retention, stats, drift>>

\* A restore brings another retention.
Restore ==
    /\ keeper.at # "off"
    /\ retention' \in Retentions
    /\ disturbed' = now
    /\ UNCHANGED <<now, rows, keeper, stats, drift>>

-----------------------------------------------------------------------------
(***************************************************************************)
(* Time, and the process.                                                  *)
(***************************************************************************)

\* The daily task waits for the lock or the disk.
Late == keeper.at = "apply" \/ (keeper.at = "asleep" /\ now >= keeper.wake)

Tick ==
    /\ now < Horizon
    /\ now' = now + 1
    /\ disturbed' = IF Late THEN now' ELSE disturbed
    /\ UNCHANGED <<rows, retention, keeper, stats, drift>>

\* The process dies.  The table and the setting are on disk.
Death ==
    /\ keeper.at # "off"
    /\ keeper' = [keeper EXCEPT !.at = "off"]
    /\ stats' = NoStats
    /\ drift' = 0
    /\ UNCHANGED <<now, rows, retention, disturbed>>

\* Mutant: the task sleeps first.
RestartAsleep ==
    /\ keeper.at = "off"
    /\ keeper' = [keeper EXCEPT !.at = "asleep", !.wake = now + Day]
    /\ UNCHANGED <<now, rows, retention, stats, drift, disturbed>>

Restart ==
    /\ keeper.at = "off"
    /\ keeper' = [keeper EXCEPT !.at = "asleep", !.wake = now]
    /\ UNCHANGED <<now, rows, retention, stats, drift, disturbed>>

Next ==
    \/ Insert \/ Flush
    \/ CountTotal \/ CountBlocked \/ CountTop
    \/ ReadRetention \/ ApplyRetention \/ ApplyFails \/ Restore
    \/ Tick \/ Death \/ Restart

Spec == Init /\ [][Next]_vars

-----------------------------------------------------------------------------

\* A search shows the newest rows there are, although it sorts by an id that is
\* given again after every flush and every purge, and not by the time: what it
\* leaves out for its limit is no newer than anything it shows.
SearchShowsNewest ==
    \A matching \in {rows, BlockedRows}, n \in 1..MaxRows :
        \A r \in Search(matching, n), s \in matching \ Search(matching, n) : s.time <= r.time

\* The numbers of one /stats reply come from several statements.  The later one
\* exceeds what the earlier one allows by no more than the blocked queries logged
\* between the two, whatever is flushed or purged meanwhile.
RepliesDriftByInsertsOnly ==
    /\ stats.at = "blocked" => stats.blocked <= stats.total + stats.slack
    /\ stats.at = "top" => \A n \in Name : stats.top[n] <= stats.blocked + stats.slack

\* log_retention_days: once the daily task has not been late, overtaken by a
\* restore or failed for more than a day, no row is older than the retention in
\* force and the day the task sleeps; deaths and the time spent dead included.
RowsExpire ==
    /\ keeper.at = "asleep" /\ now < keeper.wake
    /\ now - disturbed > Day
    /\ retention >= 0
    => \A r \in rows : now - r.time <= (retention + 1) * Day

=============================================================================
