---------------------------- MODULE QueryLogProofs ----------------------------
(***************************************************************************)
(* The query log, for any length of a day, any retentions and any clock:   *)
(* the order of the ids, the drift of the statistics and the age of the    *)
(* rows.                                                                   *)
(***************************************************************************)
EXTENDS QueryLog, FiniteSetTheorems, TLAPS

\* Ids are given in the order of time, however often they are given again.
IdsFollowTime ==
    /\ \A r \in rows : r.time <= now
    /\ \A r, s \in rows : r.id < s.id => r.time <= s.time

\* What the next statement of a reply may find, and what the last one found.
StatsDrift ==
    /\ stats.at = "total" => Cardinality(BlockedRows) <= stats.total + drift
    /\ stats.at = "blocked" =>
        \A n \in Name : Cardinality(BlockedOf(n)) <= stats.blocked + drift
    /\ RepliesDriftByInsertsOnly

\* A tick at which the task is due disturbs it, so days it read and that are no
\* longer in force are days of a disturbed task; a task that sleeps undisturbed
\* purged with the retention in force when it went to sleep.
KeeperKeeps ==
    /\ keeper.at = "asleep" => keeper.wake <= now + Day
    /\ keeper.at = "apply" => keeper.days = retention \/ disturbed = now
    /\ /\ keeper.at = "asleep" /\ now < keeper.wake
       /\ disturbed < keeper.wake - Day
       /\ retention >= 0
       => \A r \in rows : r.time >= keeper.wake - Day - retention * Day

LogInv == LogTypeOK /\ IdsFollowTime /\ StatsDrift /\ KeeperKeeps

-----------------------------------------------------------------------------
(***************************************************************************)
(* The statements.                                                         *)
(***************************************************************************)

LEMMA CountsAreNat ==
    ASSUME LogTypeOK
    PROVE  /\ Cardinality(rows) \in Nat
           /\ IsFiniteSet(BlockedRows) /\ Cardinality(BlockedRows) \in Nat
           /\ \A n \in Name : /\ IsFiniteSet(BlockedOf(n))
                              /\ Cardinality(BlockedOf(n)) \in Nat
                              /\ Cardinality(BlockedOf(n)) <= Cardinality(BlockedRows)
<1>1. BlockedRows \subseteq rows /\ \A n \in Name : BlockedOf(n) \subseteq BlockedRows
  BY DEF BlockedRows, BlockedOf
<1>2. IsFiniteSet(rows) /\ IsFiniteSet(BlockedRows)
  BY <1>1, FS_Subset DEF LogTypeOK
<1>3. QED
  BY <1>1, <1>2, FS_Subset, FS_CardinalityType

\* The newest rows are those with the largest ids.
LEMMA LargestAreNewest ==
    ASSUME LogTypeOK, IdsFollowTime, NEW M \in SUBSET rows, NEW n \in Nat,
           NEW r \in Search(M, n), NEW s \in M \ Search(M, n)
    PROVE  s.time <= r.time
<1> DEFINE Above(x) == {y \in M : y.id > x.id}
<1>1. r \in M /\ r \in QueryRow /\ s \in QueryRow
  BY DEF Search, LogTypeOK
<1>2. \A x \in M : IsFiniteSet(Above(x)) /\ Cardinality(Above(x)) \in Nat
  <2>1. \A x \in M : Above(x) \subseteq rows
    OBVIOUS
  <2>2. QED
    BY <2>1, FS_Subset, FS_CardinalityType DEF LogTypeOK
<1>3. Cardinality(Above(r)) < n /\ ~(Cardinality(Above(s)) < n)
  BY DEF Search
<1>4. CASE s.id < r.id
  BY <1>1, <1>4 DEF IdsFollowTime
<1>5. CASE ~(s.id < r.id)
  <2>1. Above(s) \subseteq Above(r)
    BY <1>1, <1>5 DEF LogTypeOK, QueryRow
  <2>2. Cardinality(Above(s)) <= Cardinality(Above(r))
    BY <1>1, <1>2, <2>1, FS_Subset
  <2>3. QED
    BY <1>1, <1>2, <1>3, <2>2
<1>6. QED
  BY <1>4, <1>5

\* An insert adds one row to the counts at most.
LEMMA InsertCounts ==
    ASSUME LogTypeOK, NEW n \in Name, NEW b \in BOOLEAN, NEW x \in QueryRow,
           x.name = n, x.blocked = b, rows' = rows \cup {x}
    PROVE  /\ Cardinality(BlockedRows') <= Cardinality(BlockedRows) + (IF b THEN 1 ELSE 0)
           /\ \A m \in Name : Cardinality(BlockedOf(m)')
                                  <= Cardinality(BlockedOf(m)) + (IF b THEN 1 ELSE 0)
           /\ Cardinality(BlockedRows') \in Nat
           /\ \A m \in Name : Cardinality(BlockedOf(m)') \in Nat
<1>1. \A S : IsFiniteSet(S) => /\ Cardinality(S) \in Nat
                               /\ Cardinality(S \cup {x}) \in Nat
                               /\ Cardinality(S \cup {x}) <= Cardinality(S) + 1
  <2>1. SUFFICES ASSUME NEW S, IsFiniteSet(S)
                 PROVE  /\ Cardinality(S) \in Nat
                        /\ Cardinality(S \cup {x}) \in Nat
                        /\ Cardinality(S \cup {x}) <= Cardinality(S) + 1
    OBVIOUS
  <2>2. Cardinality(S) \in Nat
    BY <2>1, FS_CardinalityType
  <2>3. Cardinality(S \cup {x}) = IF x \in S THEN Cardinality(S) ELSE Cardinality(S) + 1
    BY <2>1, FS_AddElement
  <2>4. QED
    BY <2>2, <2>3
<1>2. b => BlockedRows' = BlockedRows \cup {x}
  BY DEF BlockedRows
<1>3. ~b => BlockedRows' = BlockedRows
  BY DEF BlockedRows
<1>4. ASSUME NEW m \in Name
      PROVE  /\ BlockedOf(m)' = BlockedOf(m) \cup {x} \/ BlockedOf(m)' = BlockedOf(m)
             /\ ~b => BlockedOf(m)' = BlockedOf(m)
  BY DEF BlockedOf, BlockedRows
<1>5. QED
  BY <1>1, <1>2, <1>3, <1>4, CountsAreNat

\* A delete never adds to them.
LEMMA DeleteCounts ==
    ASSUME LogTypeOK, rows' \subseteq rows
    PROVE  /\ IsFiniteSet(rows')
           /\ Cardinality(BlockedRows') <= Cardinality(BlockedRows)
           /\ \A m \in Name : Cardinality(BlockedOf(m)') <= Cardinality(BlockedOf(m))
           /\ Cardinality(BlockedRows') \in Nat
           /\ \A m \in Name : Cardinality(BlockedOf(m)') \in Nat
<1>1. BlockedRows' \subseteq BlockedRows /\ \A m \in Name : BlockedOf(m)' \subseteq BlockedOf(m)
  BY DEF BlockedRows, BlockedOf
<1>2. IsFiniteSet(rows')
  BY FS_Subset DEF LogTypeOK
<1>3. QED
  BY <1>1, <1>2, CountsAreNat, FS_Subset, FS_CardinalityType

-----------------------------------------------------------------------------
(***************************************************************************)
(* The steps, one invariant after the other.                               *)
(***************************************************************************)

\* Every step but an insert leaves a part of the rows.
LEMMA RowsOnlyGrowByInsert ==
    ASSUME [Next]_vars, ~Insert
    PROVE  rows' \subseteq rows
BY DEF Next, vars, Flush, CountTotal, CountBlocked, CountTop, ReadRetention, ApplyRetention,
   ApplyFails, Sleeps, Restore, Tick, Death, Restart

LEMMA TypesKept ==
    ASSUME LogTypeOK, [Next]_vars
    PROVE  LogTypeOK'
<1> USE LogAssumption DEF LogTypeOK
<1>1. CASE Insert
  <2>1. PICK i \in {1} \cup {r.id + 1 : r \in rows}, n \in Name, b \in BOOLEAN :
            /\ IsNextId(i)
            /\ rows' = rows \cup {[id |-> i, time |-> now, name |-> n, blocked |-> b]}
            /\ drift' = IF b /\ stats.at \in {"total", "blocked"} THEN drift + 1 ELSE drift
    BY <1>1 DEF Insert
  <2>2. i \in Nat \ {0}
    BY DEF QueryRow
  <2>3. rows' \subseteq QueryRow /\ drift' \in Nat
    BY <2>1, <2>2 DEF QueryRow
  <2>4. IsFiniteSet(rows')
    BY <2>1, FS_AddElement
  <2>5. QED
    BY <1>1, <2>3, <2>4 DEF Insert
<1>2. CASE ~Insert
  <2>1. rows' \subseteq QueryRow /\ IsFiniteSet(rows')
    BY <1>2, RowsOnlyGrowByInsert, DeleteCounts
  <2>2. CASE CountTotal \/ CountBlocked \/ CountTop
    <3>1. /\ Cardinality(rows) \in Nat /\ Cardinality(BlockedRows) \in Nat
          /\ [n \in Name |-> Cardinality(BlockedOf(n))] \in [Name -> Nat]
          /\ stats \in Stats
      BY CountsAreNat
    <3>2. stats' \in Stats /\ drift' \in Nat
      <4>1. CASE CountTotal
        BY <3>1, <4>1 DEF CountTotal, Stats, NoStats
      <4>2. CASE CountBlocked
        BY <3>1, <4>2 DEF CountBlocked, Stats
      <4>3. CASE CountTop
        BY <3>1, <4>3 DEF CountTop, Stats
      <4>4. QED
        BY <2>2, <4>1, <4>2, <4>3
    <3>3. QED
      BY <2>1, <2>2, <3>2 DEF CountTotal, CountBlocked, CountTop
  <2>3. CASE Flush \/ Restore \/ Tick \/ UNCHANGED vars
    BY <2>1, <2>3 DEF Flush, Restore, Tick, vars
  <2>4. CASE ReadRetention \/ ApplyRetention \/ ApplyFails \/ Restart
    <3>1. now + Day \in Nat
      OBVIOUS
    <3>2. keeper' \in [at : {"off", "asleep", "apply"}, days : Retentions, wake : Nat]
      BY <2>4, <3>1 DEF ReadRetention, ApplyRetention, ApplyFails, Sleeps, Restart
    <3>3. QED
      BY <2>1, <2>4, <3>2 DEF ReadRetention, ApplyRetention, ApplyFails, Restart
  <2>5. CASE Death
    BY <2>1, <2>5 DEF Death, NoStats, Stats
  <2>6. QED
    BY <1>2, <2>2, <2>3, <2>4, <2>5 DEF Next
<1>3. QED
  BY <1>1, <1>2

LEMMA OrderKept ==
    ASSUME LogTypeOK, IdsFollowTime, [Next]_vars
    PROVE  IdsFollowTime'
<1> USE DEF LogTypeOK
<1>1. now' \in Nat /\ now <= now'
  BY DEF Next, vars, Insert, Flush, CountTotal, CountBlocked, CountTop, ReadRetention,
     ApplyRetention, ApplyFails, Sleeps, Restore, Tick, Death, Restart
<1>2. CASE Insert
  <2>1. PICK i \in {1} \cup {r.id + 1 : r \in rows}, n \in Name, b \in BOOLEAN :
            /\ IsNextId(i)
            /\ rows' = rows \cup {[id |-> i, time |-> now, name |-> n, blocked |-> b]}
    BY <1>2 DEF Insert
  <2>2. now' = now
    BY <1>2 DEF Insert
  <2>3. \A r \in rows : r.id \in Nat /\ r.time \in Nat /\ r.id < i
    BY <2>1 DEF IsNextId, QueryRow
  <2>4. i \in Nat
    BY DEF QueryRow
  <2>5. QED
    BY <2>1, <2>2, <2>3, <2>4 DEF IdsFollowTime
<1>3. CASE ~Insert
  <2>1. rows' \subseteq rows
    BY <1>3, RowsOnlyGrowByInsert
  <2>2. \A r \in rows : r.time \in Nat
    BY DEF QueryRow
  <2>3. QED
    BY <1>1, <2>1, <2>2 DEF IdsFollowTime
<1>4. QED
  BY <1>2, <1>3

LEMMA DriftKept ==
    ASSUME LogTypeOK, StatsDrift, [Next]_vars
    PROVE  StatsDrift'
<1>0. /\ Cardinality(BlockedRows) \in Nat
      /\ \A n \in Name : Cardinality(BlockedOf(n)) \in Nat
      /\ stats \in Stats /\ drift \in Nat
  BY CountsAreNat DEF LogTypeOK
<1>1. CASE Insert
  <2>1. PICK i \in {1} \cup {r.id + 1 : r \in rows}, n \in Name, b \in BOOLEAN :
            /\ rows' = rows \cup {[id |-> i, time |-> now, name |-> n, blocked |-> b]}
            /\ drift' = IF b /\ stats.at \in {"total", "blocked"} THEN drift + 1 ELSE drift
    BY <1>1 DEF Insert
  <2> DEFINE x == [id |-> i, time |-> now, name |-> n, blocked |-> b]
  <2>2. x \in QueryRow /\ x.name = n /\ x.blocked = b
    BY DEF QueryRow, LogTypeOK
  <2> HIDE DEF x
  <2>3. /\ Cardinality(BlockedRows') <= Cardinality(BlockedRows) + (IF b THEN 1 ELSE 0)
        /\ \A m \in Name : Cardinality(BlockedOf(m)')
                               <= Cardinality(BlockedOf(m)) + (IF b THEN 1 ELSE 0)
        /\ Cardinality(BlockedRows') \in Nat
        /\ \A m \in Name : Cardinality(BlockedOf(m)') \in Nat
    BY <2>1, <2>2, InsertCounts DEF x
  <2>6. stats' = stats
    BY <1>1 DEF Insert
  <2>7. QED
    BY <1>0, <2>1, <2>3, <2>6 DEF StatsDrift, RepliesDriftByInsertsOnly, Stats
<1>2. CASE ~Insert
  <2>1. /\ Cardinality(BlockedRows') <= Cardinality(BlockedRows)
        /\ \A m \in Name : Cardinality(BlockedOf(m)') <= Cardinality(BlockedOf(m))
        /\ Cardinality(BlockedRows') \in Nat
        /\ \A m \in Name : Cardinality(BlockedOf(m)') \in Nat
    BY <1>2, RowsOnlyGrowByInsert, DeleteCounts
  <2>2. CASE UNCHANGED <<stats, drift>>
    BY <1>0, <2>1, <2>2 DEF StatsDrift, RepliesDriftByInsertsOnly, Stats
  <2>3. CASE CountTotal
    <3>1. /\ stats'.at = "total" /\ stats'.total = Cardinality(rows) /\ drift' = 0
          /\ Cardinality(BlockedRows') <= Cardinality(BlockedRows)
      BY <2>1, <2>3 DEF CountTotal, NoStats
    <3>2. Cardinality(BlockedRows) <= Cardinality(rows) /\ Cardinality(rows) \in Nat
      BY FS_Subset, FS_CardinalityType DEF BlockedRows, LogTypeOK
    <3>3. QED
      BY <1>0, <2>1, <3>1, <3>2 DEF StatsDrift, RepliesDriftByInsertsOnly
  <2>4. CASE CountBlocked
    <3>1. /\ stats.at = "total" /\ drift' = 0
          /\ stats'.at = "blocked" /\ stats'.total = stats.total
          /\ stats'.blocked = Cardinality(BlockedRows) /\ stats'.slack = drift
      BY <1>0, <2>4 DEF CountBlocked, Stats
    <3>2. \A m \in Name : Cardinality(BlockedOf(m)') <= Cardinality(BlockedRows)
      BY <1>0, <2>1, CountsAreNat
    <3>3. QED
      BY <1>0, <2>1, <3>1, <3>2 DEF StatsDrift, RepliesDriftByInsertsOnly
  <2>5. CASE CountTop
    <3>1. /\ stats.at = "blocked" /\ stats'.at = "top" /\ stats'.blocked = stats.blocked
          /\ stats'.slack = drift
          /\ \A n \in Name : stats'.top[n] = Cardinality(BlockedOf(n))
      BY <1>0, <2>5 DEF CountTop, Stats
    <3>2. QED
      BY <1>0, <3>1 DEF StatsDrift, RepliesDriftByInsertsOnly
  <2>6. CASE Death
    BY <2>6 DEF Death, NoStats, StatsDrift, RepliesDriftByInsertsOnly
  <2>7. QED
    BY <1>2, <2>2, <2>3, <2>4, <2>5, <2>6 DEF Next, vars, Flush, ReadRetention,
       ApplyRetention, ApplyFails, Restore, Tick, Restart
<1>3. QED
  BY <1>1, <1>2

LEMMA KeeperKept ==
    ASSUME LogTypeOK, KeeperKeeps, [Next]_vars
    PROVE  KeeperKeeps'
<1> USE LogAssumption DEF LogTypeOK
<1> DEFINE Span == retention * Day
<1>0. /\ now \in Nat /\ disturbed \in Nat /\ Day \in Nat \ {0} /\ retention \in Int
      /\ keeper.wake \in Nat /\ Span \in Int
      /\ \A r \in rows : r.time \in Nat
  BY DEF QueryRow
<1>1. retention >= 0 => Span >= 0
  BY <1>0
<1> HIDE DEF Span
<1>2. CASE Insert
  <2>1. \A r \in rows' : r \in rows \/ r.time = now
    BY <1>2 DEF Insert
  <2>2. /\ now' = now /\ retention' = retention /\ keeper' = keeper
        /\ disturbed' = disturbed
    BY <1>2 DEF Insert
  <2>3. ASSUME keeper.at = "asleep", retention >= 0
        PROVE  now >= keeper.wake - Day - Span
    BY <1>0, <1>1, <2>3 DEF KeeperKeeps
  <2>4. QED
    BY <2>1, <2>2, <2>3 DEF KeeperKeeps, Span
<1>3. CASE Flush
  BY <1>3 DEF Flush, KeeperKeeps
<1>4. CASE CountTotal \/ CountBlocked \/ CountTop \/ UNCHANGED vars
  BY <1>4 DEF CountTotal, CountBlocked, CountTop, vars, KeeperKeeps
<1>5. CASE ReadRetention
  <2>1. /\ keeper'.at = "apply" /\ keeper'.days = retention /\ retention' = retention
    BY <1>5 DEF ReadRetention
  <2>2. QED
    BY <2>1 DEF KeeperKeeps
<1>6. CASE ApplyRetention
  <2>1. /\ keeper.at = "apply" /\ keeper'.at = "asleep" /\ keeper'.wake = now + Day
        /\ now' = now /\ retention' = retention /\ disturbed' = disturbed
        /\ rows' = {r \in rows : ~Outdated(r, keeper.days)}
    BY <1>6 DEF ApplyRetention, Sleeps
  <2>2. ASSUME disturbed < now, retention >= 0, NEW r \in rows'
        PROVE  r.time >= now - Span
    <3>1. keeper.days = retention /\ r \in rows
      BY <1>0, <2>1, <2>2 DEF KeeperKeeps
    <3>2. ~(r.time < now - Span)
      BY <2>1, <2>2, <3>1 DEF Outdated, Span
    <3>3. QED
      BY <1>0, <3>1, <3>2
  <2>3. keeper'.wake - Day = now
    BY <1>0, <2>1
  <2>4. QED
    BY <1>0, <2>1, <2>2, <2>3 DEF KeeperKeeps, Span
<1>7. CASE ApplyFails
  <2>1. /\ keeper'.at = "asleep" /\ keeper'.wake = now + Day
        /\ now' = now /\ disturbed' = now
    BY <1>7 DEF ApplyFails, Sleeps
  <2>2. QED
    BY <1>0, <2>1 DEF KeeperKeeps
<1>8. CASE Restore
  <2>1. now' = now /\ disturbed' = now /\ keeper' = keeper /\ rows' = rows
    BY <1>8 DEF Restore
  <2>2. keeper.at = "asleep" => ~(now < keeper.wake - Day)
    BY <1>0 DEF KeeperKeeps
  <2>3. QED
    BY <2>1, <2>2 DEF KeeperKeeps
<1>9. CASE Tick
  <2>1. /\ now' = now + 1 /\ rows' = rows /\ keeper' = keeper /\ retention' = retention
        /\ keeper.at = "apply" => disturbed' = now'
        /\ keeper.at = "asleep" /\ now < keeper.wake => disturbed' = disturbed
    BY <1>9 DEF Tick, Late
  <2>2. keeper.at = "asleep" => keeper.wake <= now' + Day
    BY <1>0, <2>1 DEF KeeperKeeps
  <2>3. now' < keeper.wake => now < keeper.wake
    BY <1>0, <2>1
  <2>4. QED
    BY <2>1, <2>2, <2>3 DEF KeeperKeeps
<1>10. CASE Death \/ Restart
  <2>1. now' = now /\ keeper'.at # "apply"
    BY <1>10 DEF Death, Restart
  <2>2. keeper'.at = "asleep" => keeper'.wake = now
    BY <1>10 DEF Death, Restart
  <2>3. QED
    BY <1>0, <2>1, <2>2 DEF KeeperKeeps
<1>11. QED
  BY <1>2, <1>3, <1>4, <1>5, <1>6, <1>7, <1>8, <1>9, <1>10 DEF Next

\* What a sleeping task kept on the day it went to sleep bounds the age today.
LEMMA AgeIsBounded ==
    ASSUME LogTypeOK, KeeperKeeps
    PROVE  RowsExpire
<1> USE LogAssumption DEF LogTypeOK
<1>1. SUFFICES ASSUME keeper.at = "asleep", now < keeper.wake, now - disturbed > Day,
                      retention >= 0, NEW r \in rows
               PROVE  now - r.time <= (retention + 1) * Day
  BY DEF RowsExpire
<1> DEFINE Span == retention * Day
<1>2. /\ now \in Nat /\ disturbed \in Nat /\ Day \in Nat /\ keeper.wake \in Nat
      /\ r.time \in Nat /\ Span \in Int
      /\ (retention + 1) * Day = Span + Day
  BY DEF QueryRow
<1>3. disturbed < keeper.wake - Day
  BY <1>1, <1>2
<1>4. r.time >= keeper.wake - Day - Span
  BY <1>1, <1>3 DEF KeeperKeeps
<1> HIDE DEF Span
<1>5. QED
  BY <1>1, <1>2, <1>4

-----------------------------------------------------------------------------

\* What logger.rs and the daily task of lib.rs keep true of the table and of a
\* reply in the making, at every step.
THEOREM LogInvariance == Spec => []LogInv
<1>1. Init => LogInv
  <2> SUFFICES ASSUME Init PROVE LogInv
    OBVIOUS
  <2>1. IsFiniteSet(rows) /\ rows \subseteq QueryRow
    BY FS_EmptySet DEF Init
  <2>2. stats \in Stats /\ stats.at = "none"
    BY DEF Init, NoStats, Stats
  <2>3. LogTypeOK
    BY <2>1, <2>2, LogAssumption DEF Init, LogTypeOK
  <2>4. QED
    BY <2>2, <2>3, LogAssumption DEF Init, LogInv, LogTypeOK, IdsFollowTime, StatsDrift,
       RepliesDriftByInsertsOnly, KeeperKeeps
<1>2. LogInv /\ [Next]_vars => LogInv'
  BY TypesKept, OrderKept, DriftKept, KeeperKept DEF LogInv
<1>3. QED
  BY <1>1, <1>2, PTL DEF Spec

\* Type correctness of the query log: the daily task only ever uses a retention
\* somebody set, and ids stay positive.
THEOREM LogTypeCorrectness == Spec => []LogTypeOK
BY LogInvariance, PTL DEF LogInv

\* A limited search never leaves out a newer row than it shows.
THEOREM SearchesShowNewest == Spec => []SearchShowsNewest
<1>1. LogInv => SearchShowsNewest
  <2>1. BlockedRows \subseteq rows
    BY DEF BlockedRows
  <2>2. QED
    BY <2>1, LargestAreNewest, LogAssumption DEF LogInv, SearchShowsNewest
<1>2. QED
  BY <1>1, LogInvariance, PTL

\* The parts of a /stats reply drift apart by inserts only.
THEOREM RepliesDrift == Spec => []RepliesDriftByInsertsOnly
<1>1. LogInv => RepliesDriftByInsertsOnly
  BY DEF LogInv, StatsDrift
<1>2. QED
  BY <1>1, LogInvariance, PTL

\* Rows older than the retention and a day are gone, unless the daily task was
\* disturbed within the last day.
THEOREM OldRowsExpire == Spec => []RowsExpire
<1>1. LogInv => RowsExpire
  BY AgeIsBounded DEF LogInv
<1>2. QED
  BY <1>1, LogInvariance, PTL

=============================================================================
