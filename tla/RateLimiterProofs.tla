-------------------------- MODULE RateLimiterProofs --------------------------
(***************************************************************************)
(* What the rate limiter bounds, for any limit, any length of a second and *)
(* any number of requests.                                                 *)
(*                                                                         *)
(* The bound on a sliding second is not inductive.  What makes it so: the  *)
(* window counts whom it admitted since it opened, the request that opened *)
(* it among them, and the second before it opened admitted less than the   *)
(* limit, because that second lies within the window before and does not   *)
(* reach back to the request that opened that one.                         *)
(***************************************************************************)
EXTENDS RateLimiter, FiniteSetTheorems, TLAPS

Happened == \A r \in Request : check[r] # Pending => check[r].at \in 0..now

\* Nobody is admitted before there is a window; then the window knows whom it
\* admitted, and the request that opened it is one of them.
WindowCounts ==
    /\ window = NoWindow => \A r \in Request : check[r] = Pending
    /\ window # NoWindow =>
        /\ window.start \in 0..now
        /\ window.count = Cardinality(Admitted(window.start, now))
        /\ \E r \in Admitted(window.start, now) : check[r].at = window.start
        /\ Cardinality(Admitted(window.start - Second, window.start - 1)) < Limit
        /\ \A r \in Admitted(0, now) : check[r].at <= window.start + Second

LInv == LimiterTypeOK /\ Happened /\ WindowCounts /\ SlidingBound /\ RefusedOnlyWhenBusy

-----------------------------------------------------------------------------
(***************************************************************************)
(* Counting.                                                               *)
(***************************************************************************)

LEMMA AdmittedFinite ==
    ASSUME NEW c, NEW a, NEW b
    PROVE  /\ IsFiniteSet(AdmittedBy(c, a, b))
           /\ Cardinality(AdmittedBy(c, a, b)) \in Nat
<1>1. AdmittedBy(c, a, b) \subseteq Request
  BY DEF AdmittedBy
<1>2. QED
  BY <1>1, LimiterAssumption, FS_Subset, FS_CardinalityType

\* A set of requests within two others is no larger than both together.
LEMMA WithinBoth ==
    ASSUME NEW S, NEW T, NEW R, IsFiniteSet(S), IsFiniteSet(T), R \subseteq S \cup T
    PROVE  /\ Cardinality(R) \in Nat /\ Cardinality(S) \in Nat /\ Cardinality(T) \in Nat
           /\ Cardinality(R) <= Cardinality(S) + Cardinality(T)
<1>1. /\ IsFiniteSet(S \cup T) /\ IsFiniteSet(S \cap T)
      /\ Cardinality(S \cup T) = Cardinality(S) + Cardinality(T) - Cardinality(S \cap T)
  BY FS_Union, FS_Subset
<1>2. IsFiniteSet(R) /\ Cardinality(R) <= Cardinality(S \cup T)
  BY <1>1, FS_Subset
<1>3. /\ Cardinality(S) \in Nat /\ Cardinality(T) \in Nat /\ Cardinality(S \cap T) \in Nat
      /\ Cardinality(S \cup T) \in Nat /\ Cardinality(R) \in Nat
  BY <1>1, <1>2, FS_CardinalityType
<1>4. QED
  BY <1>1, <1>2, <1>3

\* Whoever is told about now changes the sets that reach up to now, and no other.
LEMMA Told ==
    ASSUME LimiterTypeOK, Happened, NEW r \in Request, NEW ok \in BOOLEAN, Tell(r, ok),
           NEW a \in Int, NEW b \in Int
    PROVE  /\ r \notin Admitted(a, b)
           /\ ok /\ now \in a..b => AdmittedBy(check', a, b) = Admitted(a, b) \cup {r}
           /\ ~(ok /\ now \in a..b) => AdmittedBy(check', a, b) = Admitted(a, b)
<1>1. /\ check[r] = Pending
      /\ check'[r] = [ok |-> ok, at |-> now]
      /\ \A s \in Request \ {r} : check'[s] = check[s]
  BY DEF LimiterTypeOK, Tell
<1>2. [ok |-> ok, at |-> now] # Pending
  BY LimiterAssumption DEF LimiterTypeOK
<1>3. r \notin Admitted(a, b)
  BY <1>1 DEF Admitted, AdmittedBy
<1>4. r \in AdmittedBy(check', a, b) <=> ok /\ now \in a..b
  BY <1>1, <1>2 DEF AdmittedBy
<1>5. \A s \in Request \ {r} : s \in AdmittedBy(check', a, b) <=> s \in Admitted(a, b)
  BY <1>1 DEF Admitted, AdmittedBy
<1>6. AdmittedBy(check', a, b) \subseteq Request /\ Admitted(a, b) \subseteq Request
  BY DEF Admitted, AdmittedBy
<1>7. QED
  BY <1>3, <1>4, <1>5, <1>6

-----------------------------------------------------------------------------
(***************************************************************************)
(* One step for each thing the limiter does.                               *)
(***************************************************************************)

LEMMA OpenKeeps ==
    ASSUME LInv, NEW r \in Request, Open(r)
    PROVE  (WindowCounts /\ SlidingBound)'
<1> USE LimiterAssumption DEF LInv
<1>0. /\ now \in Nat /\ now' = now /\ Tell(r, TRUE) /\ window' = [count |-> 1, start |-> now]
      /\ window # NoWindow /\ now - window.start > Second
      /\ window.start \in Nat /\ window.count \in 0..Limit
  BY DEF Open, Expired, Entry, Tell, LimiterTypeOK
<1> DEFINE Past == Admitted(window.start, now)
<1>1. PICK o \in Past : check[o].at = window.start
  BY <1>0 DEF WindowCounts
<1>2. /\ IsFiniteSet(Past \ {o})
      /\ Cardinality(Past \ {o}) = window.count - 1
      /\ Cardinality(Past \ {o}) \in Nat
  BY <1>0, <1>1, AdmittedFinite, FS_RemoveElement, FS_CardinalityType
     DEF WindowCounts, Admitted
<1>3. \A b \in Int, a \in Int : a > window.start /\ a >= 0 => Admitted(a, b) \subseteq Past \ {o}
  BY <1>0, <1>1 DEF Admitted, AdmittedBy, LimiterTypeOK, Happened
<1>4. \A a, b \in Int :
          /\ now \in a..b => AdmittedBy(check', a, b) = Admitted(a, b) \cup {r}
          /\ now \notin a..b => AdmittedBy(check', a, b) = Admitted(a, b)
  BY <1>0, Told
<1>5. IsFiniteSet({r}) /\ Cardinality({r}) = 1
  BY FS_Singleton
<1>6. WindowCounts'
  <2>1. Admitted(now, now) = {}
    BY <1>0 DEF Admitted, AdmittedBy, WindowCounts, LimiterTypeOK, Happened
  <2>2. AdmittedBy(check', now, now) = {r}
    BY <1>0, <1>4, <2>1
  <2>3. check'[r].at = now
    BY <1>0 DEF Tell, LimiterTypeOK
  <2>4. AdmittedBy(check', now - Second, now - 1) = Admitted(now - Second, now - 1)
    BY <1>0, <1>4
  <2>5. Cardinality(Admitted(now - Second, now - 1)) < Limit
    <3>1. Admitted(now - Second, now - 1) \subseteq Past \ {o}
      BY <1>0, <1>3
    <3>2. Cardinality(Admitted(now - Second, now - 1)) <= Cardinality(Past \ {o})
      BY <1>2, <3>1, FS_Subset
    <3>3. QED
      BY <1>0, <1>2, <3>2, AdmittedFinite DEF Admitted
  <2>6. \A s \in AdmittedBy(check', 0, now) : check'[s].at <= now + Second
    BY <1>0 DEF AdmittedBy
  <2>7. window' # NoWindow /\ window'.start = now /\ window'.count = 1
    BY <1>0
  <2>8. QED
    <3>1. \E s \in AdmittedBy(check', now, now) : check'[s].at = now
      BY <2>2, <2>3
    <3>2. Cardinality(AdmittedBy(check', now, now)) = 1
      BY <1>5, <2>2
    <3>3. Cardinality(AdmittedBy(check', now - Second, now - 1)) < Limit
      BY <2>4, <2>5
    <3>4. now \in 0..now
      BY <1>0
    <3>5. QED
      BY <1>0, <2>6, <2>7, <3>1, <3>2, <3>3, <3>4 DEF WindowCounts, Admitted
<1>7. ASSUME NEW t \in 0..now
      PROVE  Cardinality(AdmittedBy(check', t, t + Second)) <= 2 * Limit - 1
  <2>1. CASE now \in t..(t + Second)
    <3>1. AdmittedBy(check', t, t + Second) \subseteq (Past \ {o}) \cup {r}
      BY <1>0, <1>3, <1>4, <2>1
    <3>2. QED
      BY <1>0, <1>2, <1>5, <3>1, WithinBoth
  <2>2. CASE now \notin t..(t + Second)
    BY <1>4, <2>2 DEF SlidingBound
  <2>3. QED
    BY <2>1, <2>2
<1>8. QED
  BY <1>0, <1>6, <1>7 DEF SlidingBound, Admitted

LEMMA AdmitKeeps ==
    ASSUME LInv, NEW r \in Request, Admit(r)
    PROVE  (WindowCounts /\ SlidingBound)'
<1> USE LimiterAssumption DEF LInv
<1>0. /\ now \in Nat /\ now' = now /\ Tell(r, TRUE) /\ Limit \in Nat \ {0}
      /\ Entry.start \in 0..now /\ now - Entry.start <= Second
      /\ Entry.count \in 0..(Limit - 1)
      /\ window' = [count |-> Entry.count + 1, start |-> Entry.start]
      /\ window' # NoWindow
  BY DEF Admit, Expired, Entry, Tell, LimiterTypeOK, WindowCounts
<1>a. /\ Entry.start \in Int /\ Entry.start - Second \in Int /\ Entry.start - 1 \in Int
      /\ now \in Int /\ now \in Entry.start..now
      /\ now \notin (Entry.start - Second)..(Entry.start - 1)
  BY <1>0
<1>1. \A a, b \in Int :
          /\ r \notin Admitted(a, b)
          /\ now \in a..b => AdmittedBy(check', a, b) = Admitted(a, b) \cup {r}
          /\ now \notin a..b => AdmittedBy(check', a, b) = Admitted(a, b)
  BY <1>0, Told
<1>2. check'[r].at = now /\ \A s \in Request \ {r} : check'[s] = check[s]
  BY <1>0 DEF Tell, LimiterTypeOK
<1>3. /\ Cardinality(Admitted(Entry.start, now)) = Entry.count
      /\ Cardinality(Admitted(Entry.start - Second, Entry.start - 1)) < Limit
      /\ \A s \in Admitted(0, now) : check[s].at <= Entry.start + Second
  <2>1. CASE window = NoWindow
    <3>1. \A a, b \in Int : Admitted(a, b) = {}
      BY <2>1 DEF WindowCounts, Admitted, AdmittedBy
    <3>2. Entry.count = 0
      BY <2>1 DEF Entry
    <3>3. Cardinality({}) = 0
      BY FS_EmptySet
    <3>4. /\ Admitted(Entry.start, now) = {}
          /\ Admitted(Entry.start - Second, Entry.start - 1) = {}
          /\ Admitted(0, now) = {}
      BY <1>a, <3>1
    <3>5. Cardinality(Admitted(Entry.start, now)) = Entry.count
      BY <3>2, <3>3, <3>4, Zenon
    <3>6. Cardinality(Admitted(Entry.start - Second, Entry.start - 1)) = 0 /\ 0 < Limit
      <4>1. Cardinality(Admitted(Entry.start - Second, Entry.start - 1)) = 0
        BY <3>3, <3>4, Zenon
      <4>2. 0 < Limit
        BY LimiterAssumption
      <4>3. QED
        BY <4>1, <4>2
    <3>7. \A s \in Admitted(0, now) : check[s].at <= Entry.start + Second
      BY <3>4, Zenon
    <3>8. QED
      BY <3>5, <3>6, <3>7
  <2>2. CASE window # NoWindow
    BY <2>2 DEF WindowCounts, Entry
  <2>3. QED
    BY <2>1, <2>2
<1>b. /\ IsFiniteSet(AdmittedBy(check', Entry.start, now))
      /\ Cardinality(AdmittedBy(check', Entry.start, now)) = Entry.count + 1
  <2>1. /\ IsFiniteSet(Admitted(Entry.start, now)) /\ r \notin Admitted(Entry.start, now)
        /\ AdmittedBy(check', Entry.start, now) = Admitted(Entry.start, now) \cup {r}
    BY <1>1, <1>a, AdmittedFinite DEF Admitted
  <2>2. QED
    BY <1>3, <2>1, FS_AddElement
<1>4. WindowCounts'
  <2>1. AdmittedBy(check', Entry.start, now) = Admitted(Entry.start, now) \cup {r}
    BY <1>0, <1>1
  <2>2. Cardinality(AdmittedBy(check', Entry.start, now)) = Entry.count + 1
    BY <1>b
  <2>3. AdmittedBy(check', Entry.start - Second, Entry.start - 1)
            = Admitted(Entry.start - Second, Entry.start - 1)
    BY <1>1, <1>a
  <2>4. \A s \in AdmittedBy(check', 0, now) : check'[s].at <= Entry.start + Second
    BY <1>0, <1>1, <1>2, <1>3 DEF Admitted, AdmittedBy
  <2>5. \E s \in AdmittedBy(check', Entry.start, now) : check'[s].at = Entry.start
    <3>1. CASE window = NoWindow
      BY <1>0, <1>2, <2>1, <3>1 DEF Entry
    <3>2. CASE window # NoWindow
      <4>1. PICK o \in Admitted(window.start, now) : check[o].at = window.start
        BY <3>2 DEF WindowCounts
      <4>2. Entry = window /\ window.start \in Int
        BY <1>0, <3>2 DEF Entry
      <4>3. o # r /\ o \in Request
        BY <1>0, <1>1, <4>1, <4>2 DEF Admitted, AdmittedBy
      <4>4. QED
        BY <1>2, <2>1, <4>1, <4>2, <4>3
    <3>3. QED
      BY <3>1, <3>2
  <2>6. QED
    BY <1>0, <1>3, <2>2, <2>3, <2>4, <2>5 DEF WindowCounts, Admitted
<1>5. ASSUME NEW t \in 0..now
      PROVE  Cardinality(AdmittedBy(check', t, t + Second)) <= 2 * Limit - 1
  <2>1. CASE now \in t..(t + Second)
    <3> DEFINE Now == AdmittedBy(check', Entry.start, now)
               Before == Admitted(Entry.start - Second, Entry.start - 1)
    <3>1. AdmittedBy(check', t, t + Second) \subseteq Now \cup Before
      BY <1>0, <1>1, <2>1 DEF Admitted, AdmittedBy, LimiterTypeOK, Happened
    <3>2. /\ Cardinality(Now) = Entry.count + 1
          /\ IsFiniteSet(Now) /\ IsFiniteSet(Before)
      BY <1>b, AdmittedFinite DEF Admitted
    <3>3. /\ Cardinality(AdmittedBy(check', t, t + Second)) \in Nat
          /\ Cardinality(Before) \in Nat
          /\ Cardinality(AdmittedBy(check', t, t + Second))
                 <= Cardinality(Now) + Cardinality(Before)
      BY <3>1, <3>2, WithinBoth
    <3>4. Cardinality(Before) < Limit
      BY <1>3
    <3> HIDE DEF Now, Before
    <3>5. QED
      BY <1>0, <3>2, <3>3, <3>4
  <2>2. CASE now \notin t..(t + Second)
    BY <1>1, <2>2 DEF SlidingBound
  <2>3. QED
    BY <2>1, <2>2
<1>6. QED
  BY <1>0, <1>4, <1>5 DEF SlidingBound, Admitted

LEMMA RefuseKeeps ==
    ASSUME LInv, NEW r \in Request, Refuse(r)
    PROVE  /\ (WindowCounts /\ SlidingBound)'
           /\ window # NoWindow /\ now - window.start <= Second /\ window.count = Limit
<1> USE LimiterAssumption DEF LInv
<1>0. /\ now \in Nat /\ now' = now /\ Tell(r, FALSE) /\ window' = window
      /\ window # NoWindow /\ now - window.start <= Second /\ window.count = Limit
      /\ window.start \in Nat
  BY DEF Refuse, Expired, Entry, Tell, LimiterTypeOK
<1>1. \A a, b \in Int : r \notin Admitted(a, b) /\ AdmittedBy(check', a, b) = Admitted(a, b)
  BY <1>0, Told
<1>2. \A s \in Admitted(0, now) : check'[s] = check[s]
  <2>1. r \notin Admitted(0, now)
    BY <1>0, <1>1
  <2>2. QED
    BY <1>0, <2>1 DEF Tell, Admitted, AdmittedBy, LimiterTypeOK
<1>3. WindowCounts'
  <2>1. /\ AdmittedBy(check', window.start, now) = Admitted(window.start, now)
        /\ AdmittedBy(check', window.start - Second, window.start - 1)
              = Admitted(window.start - Second, window.start - 1)
        /\ AdmittedBy(check', 0, now) = Admitted(0, now)
    BY <1>0, <1>1
  <2>2. Admitted(window.start, now) \subseteq Admitted(0, now)
    BY <1>0 DEF Admitted, AdmittedBy, LimiterTypeOK, Happened
  <2>3. /\ \E s \in AdmittedBy(check', window.start, now) : check'[s].at = window.start
        /\ \A s \in AdmittedBy(check', 0, now) : check'[s].at <= window.start + Second
    BY <1>0, <1>2, <2>1, <2>2 DEF WindowCounts
  <2>4. QED
    BY <1>0, <2>1, <2>3 DEF WindowCounts, Admitted
<1>4. SlidingBound'
  BY <1>0, <1>1 DEF SlidingBound, Admitted
<1>5. QED
  BY <1>0, <1>3, <1>4

LEMMA TickKeeps ==
    ASSUME LInv, Tick
    PROVE  (WindowCounts /\ SlidingBound)'
<1> USE LimiterAssumption DEF LInv
<1>0. now \in Nat /\ now' = now + 1 /\ window' = window /\ check' = check
  BY DEF Tick, LimiterTypeOK
<1>1. \A a \in Int : AdmittedBy(check, a, now + 1) = Admitted(a, now)
  BY <1>0 DEF Admitted, AdmittedBy, Happened, LimiterTypeOK
<1>2. \A b \in Int : AdmittedBy(check, now + 1, b) = {}
  BY <1>0 DEF AdmittedBy, Happened, LimiterTypeOK
<1>3. window # NoWindow => window.start \in Int
  BY DEF WindowCounts
<1>4. WindowCounts'
  BY <1>0, <1>1, <1>3 DEF WindowCounts, Admitted
<1>5. ASSUME NEW t \in 0..(now + 1)
      PROVE  Cardinality(AdmittedBy(check, t, t + Second)) <= 2 * Limit - 1
  <2>1. CASE t = now + 1
    <3>1. AdmittedBy(check, t, t + Second) = {}
      BY <1>0, <1>2, <2>1
    <3>2. Cardinality({}) = 0
      BY FS_EmptySet
    <3>3. 0 <= 2 * Limit - 1
      OBVIOUS
    <3>4. QED
      BY <3>1, <3>2, <3>3
  <2>2. CASE t # now + 1
    BY <1>0, <2>2 DEF SlidingBound, Admitted
  <2>3. QED
    BY <2>1, <2>2
<1>6. QED
  BY <1>0, <1>4, <1>5 DEF SlidingBound, Admitted

-----------------------------------------------------------------------------

LEMMA TypesKept ==
    ASSUME LInv, [Next]_vars
    PROVE  (LimiterTypeOK /\ Happened)'
<1> USE LimiterAssumption DEF LInv, LimiterTypeOK, Happened
<1>1. ASSUME NEW r \in Request, Open(r) PROVE (LimiterTypeOK /\ Happened)'
  BY <1>1 DEF Open, Tell
<1>2. ASSUME NEW r \in Request, Admit(r) PROVE (LimiterTypeOK /\ Happened)'
  BY <1>2 DEF Admit, Tell, Entry
<1>3. ASSUME NEW r \in Request, Refuse(r) PROVE (LimiterTypeOK /\ Happened)'
  BY <1>3 DEF Refuse, Tell, Entry
<1>4. CASE Tick \/ UNCHANGED vars
  BY <1>4 DEF Tick, vars
<1>5. QED
  BY <1>1, <1>2, <1>3, <1>4 DEF Next

\* Whoever was told stays told, and the sets of the admitted only grow.
LEMMA AnswersStay ==
    ASSUME LInv, [Next]_vars, NEW r \in Request, check[r] # Pending
    PROVE  /\ check'[r] = check[r]
           /\ \A a, b \in Int : Admitted(a, b) \subseteq AdmittedBy(check', a, b)
BY DEF Next, Open, Admit, Refuse, Tell, Tick, vars, LInv, LimiterTypeOK, Admitted, AdmittedBy

LEMMA RefusedKept ==
    ASSUME LInv, [Next]_vars
    PROVE  RefusedOnlyWhenBusy'
<1> USE LimiterAssumption DEF LInv
<1>1. SUFFICES ASSUME NEW s \in Request, check'[s] # Pending, ~check'[s].ok
               PROVE  Cardinality(AdmittedBy(check', check'[s].at - Second, check'[s].at))
                          >= Limit
  BY DEF RefusedOnlyWhenBusy, Admitted
<1>2. CASE check[s] # Pending
  <2> DEFINE at == check[s].at
             Old == Admitted(at - Second, at)
             New == AdmittedBy(check', at - Second, at)
  <2>1. check'[s] = check[s] /\ at \in Nat
    BY <1>2, AnswersStay DEF LimiterTypeOK
  <2>2. Old \subseteq New
    BY <1>2, <2>1, AnswersStay
  <2>3. Cardinality(Old) <= Cardinality(New)
    BY <2>2, AdmittedFinite, FS_Subset
  <2>4. Cardinality(Old) >= Limit
    BY <1>1, <1>2, <2>1 DEF RefusedOnlyWhenBusy
  <2>5. Cardinality(Old) \in Nat /\ Cardinality(New) \in Nat
    BY AdmittedFinite DEF Admitted
  <2>6. QED
    BY <2>1, <2>3, <2>4, <2>5
<1>3. CASE check[s] = Pending
  <2>1. Refuse(s)
    BY <1>1, <1>3 DEF Next, Open, Admit, Refuse, Tell, Tick, vars, LimiterTypeOK
  <2>2. /\ now \in Nat /\ window.start \in 0..now /\ now - window.start <= Second
        /\ Cardinality(Admitted(window.start, now)) = Limit
    BY <2>1, RefuseKeeps DEF LimiterTypeOK, WindowCounts
  <2>3. check'[s].at = now /\ Tell(s, FALSE)
    BY <2>1 DEF Refuse, Tell, LimiterTypeOK
  <2>4. AdmittedBy(check', now - Second, now) = Admitted(now - Second, now)
    <3>1. now - Second \in Int /\ now \in Int
      BY <2>2
    <3>2. QED
      BY <2>3, <3>1, Told
  <2>5. Admitted(window.start, now) \subseteq Admitted(now - Second, now)
    BY <2>2 DEF Admitted, AdmittedBy, LimiterTypeOK
  <2>6. /\ Cardinality(Admitted(window.start, now)) <= Cardinality(Admitted(now - Second, now))
        /\ Cardinality(Admitted(now - Second, now)) \in Nat
    BY <2>5, AdmittedFinite, FS_Subset DEF Admitted
  <2>7. QED
    BY <2>2, <2>3, <2>4, <2>6
<1>4. QED
  BY <1>2, <1>3

LEMMA LInit == Init => LInv
<1> SUFFICES ASSUME Init PROVE LInv
  OBVIOUS
<1> USE LimiterAssumption DEF Init
<1>1. \A a, b \in Int : Admitted(a, b) = {}
  BY DEF Admitted, AdmittedBy
<1>2. SlidingBound
  <2>1. Cardinality({}) = 0
    BY FS_EmptySet
  <2>2. 0 <= 2 * Limit - 1
    OBVIOUS
  <2>3. \A t \in 0..now : Admitted(t, t + Second) = {}
    BY <1>1
  <2>4. QED
    BY <2>1, <2>2, <2>3 DEF SlidingBound
<1>3. QED
  BY <1>2 DEF LInv, LimiterTypeOK, Happened, WindowCounts, RefusedOnlyWhenBusy

\* What the rate limiter's code keeps true of its window (RateLimiter::check), and
\* with it of every second, at every step.
THEOREM LimiterInvariance == Spec => []LInv
<1>1. LInv /\ [Next]_vars => LInv'
  <2> SUFFICES ASSUME LInv, [Next]_vars PROVE LInv'
    OBVIOUS
  <2>1. (WindowCounts /\ SlidingBound)'
    <3>1. CASE UNCHANGED vars
      BY <3>1 DEF LInv, WindowCounts, SlidingBound, Admitted, AdmittedBy, vars
    <3>2. QED
      BY <3>1, OpenKeeps, AdmitKeeps, RefuseKeeps, TickKeeps DEF Next
  <2>2. QED
    BY <2>1, TypesKept, RefusedKept DEF LInv
<1>2. QED
  BY LInit, <1>1, PTL DEF Spec

\* Type correctness of the rate limiter: no window ever counts past the limit.
THEOREM LimiterTypeCorrectness == Spec => []LimiterTypeOK
BY LimiterInvariance, PTL DEF LInv

\* No second admits more than twice the limit less one, wherever it begins.
THEOREM SlidingSecondIsBounded == Spec => []SlidingBound
BY LimiterInvariance, PTL DEF LInv

\* A refused request always meets a second that admitted a full window.
THEOREM RefusalsAreEarned == Spec => []RefusedOnlyWhenBusy
BY LimiterInvariance, PTL DEF LInv

=============================================================================
