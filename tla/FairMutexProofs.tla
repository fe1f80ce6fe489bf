---------------------------- MODULE FairMutexProofs ----------------------------
(***************************************************************************)
(* The queue of the rule mutex, whatever tasks S are queueing in it: the   *)
(* facts that the DNS server and the rule store, its two sorts of user,    *)
(* rest on.                                                                *)
(***************************************************************************)
EXTENDS FairMutex, TLAPS

\* Queueing for the lock and leaving it keep the queue a sequence of tasks.
LEMMA QueueIsTyped ==
    ASSUME NEW S, NEW t \in S, queue \in Seq(S), Join(t) \/ Leave(t) \/ Abandon(t)
    PROVE  queue' \in Seq(S)
<1>1. CASE Join(t)
  BY <1>1 DEF Join
<1>2. CASE Leave(t)
  BY <1>2 DEF Leave, Holds
<1>3. CASE Abandon(t)
  BY <1>3 DEF Abandon
<1>4. QED
  BY <1>1, <1>2, <1>3

\* Who joins the queue is queued once, behind the others.
LEMMA JoinQueuesOnce ==
    ASSUME NEW S, NEW t \in S, queue \in Seq(S), NoneTwice, ~Queued(t), Join(t)
    PROVE  /\ NoneTwice'
           /\ \A u : Queued(u)' <=> Queued(u) \/ u = t
<1>1. /\ Len(queue') = Len(queue) + 1
      /\ \A i \in 1..Len(queue) : queue'[i] = queue[i]
      /\ queue'[Len(queue) + 1] = t
  BY DEF Join
<1>2. Len(queue) \in Nat
  OBVIOUS
<1>3. NoneTwice'
  BY <1>1, <1>2 DEF NoneTwice, Queued
<1>4. ASSUME NEW u PROVE Queued(u)' <=> Queued(u) \/ u = t
  BY <1>1, <1>2 DEF Queued
<1>5. QED
  BY <1>3, <1>4

\* Who leaves the queue, being its head, is not queued any more, and nobody
\* else is affected.
LEMMA LeaveUnqueues ==
    ASSUME NEW S, NEW t \in S, queue \in Seq(S), NoneTwice, Leave(t)
    PROVE  /\ NoneTwice'
           /\ \A u : Queued(u)' <=> Queued(u) /\ u # t
<1>1. /\ Len(queue) \in Nat \ {0}
      /\ queue[1] = t
      /\ Len(queue') = Len(queue) - 1
      /\ \A i \in 1..Len(queue') : queue'[i] = queue[i + 1]
  BY DEF Leave, Holds
<1>2. NoneTwice'
  BY <1>1 DEF NoneTwice
<1>3. ASSUME NEW u PROVE Queued(u)' <=> Queued(u) /\ u # t
  <2>1. ASSUME Queued(u)' PROVE Queued(u) /\ u # t
    BY <1>1, <2>1 DEF Queued, NoneTwice
  <2>2. ASSUME Queued(u), u # t PROVE Queued(u)'
    <3>1. PICK i \in 1..Len(queue) : queue[i] = u
      BY <2>2 DEF Queued
    <3>2. i - 1 \in 1..Len(queue') /\ queue'[i - 1] = u
      BY <1>1, <2>2, <3>1
    <3>3. QED
      BY <3>2 DEF Queued
  <2>3. QED
    BY <2>1, <2>2
<1>4. QED
  BY <1>2, <1>3

\* Who abandons the queue is taken out of it, and nobody else is affected.
LEMMA AbandonUnqueues ==
    ASSUME NEW S, NEW t \in S, queue \in Seq(S), NoneTwice, Abandon(t)
    PROVE  /\ NoneTwice'
           /\ \A u : Queued(u)' <=> Queued(u) /\ u # t
<1>1. PICK i \in 1..Len(queue) :
        /\ queue[i] = t
        /\ queue' = SubSeq(queue, 1, i - 1) \o SubSeq(queue, i + 1, Len(queue))
  BY DEF Abandon
<1>2. /\ Len(queue) \in Nat
      /\ Len(queue') = Len(queue) - 1
      /\ \A j \in 1..(i - 1) : queue'[j] = queue[j]
      /\ \A j \in i..(Len(queue) - 1) : queue'[j] = queue[j + 1]
  <2> DEFINE front == SubSeq(queue, 1, i - 1)
             back  == SubSeq(queue, i + 1, Len(queue))
  <2>1. /\ front \in Seq(S) /\ Len(front) = i - 1
        /\ \A j \in 1..(i - 1) : front[j] = queue[j]
    BY Z3
  <2>2. /\ back \in Seq(S) /\ Len(back) = Len(queue) - i
        /\ \A j \in 1..(Len(queue) - i) : back[j] = queue[i + j]
    BY Z3
  <2> HIDE DEF front, back
  <2>3. queue' = front \o back
    BY <1>1 DEF front, back
  <2>4. Len(queue') = Len(queue) - 1
    BY <2>1, <2>2, <2>3
  <2>5. \A j \in 1..(i - 1) : queue'[j] = queue[j]
    BY <2>1, <2>2, <2>3
  <2>6. \A j \in i..(Len(queue) - 1) : queue'[j] = queue[j + 1]
    BY <2>1, <2>2, <2>3
  <2>7. QED
    BY <2>4, <2>5, <2>6
<1>3. NoneTwice'
  BY <1>2 DEF NoneTwice
<1>4. ASSUME NEW u PROVE Queued(u)' <=> Queued(u) /\ u # t
  <2>1. ASSUME Queued(u)' PROVE Queued(u) /\ u # t
    <3>1. PICK j \in 1..(Len(queue) - 1) : queue'[j] = u
      BY <1>2, <2>1 DEF Queued
    <3>2. CASE j < i
      <4>1. queue[j] = u /\ j \in 1..Len(queue) /\ j # i
        BY <1>2, <3>1, <3>2
      <4>2. QED
        BY <1>1, <4>1 DEF Queued, NoneTwice
    <3>3. CASE j >= i
      <4>1. queue[j + 1] = u /\ j + 1 \in 1..Len(queue) /\ j + 1 # i
        BY <1>2, <3>1, <3>3
      <4>2. QED
        BY <1>1, <4>1 DEF Queued, NoneTwice
    <3>4. QED
      BY <3>1, <3>2, <3>3
  <2>2. ASSUME Queued(u), u # t PROVE Queued(u)'
    <3>1. PICK j \in 1..Len(queue) : queue[j] = u
      BY <2>2 DEF Queued
    <3>2. CASE j < i
      BY <1>2, <3>1, <3>2 DEF Queued
    <3>3. CASE j > i
      <4>1. j - 1 \in i..(Len(queue) - 1) /\ queue'[j - 1] = u
        BY <1>2, <3>1, <3>3
      <4>2. QED
        BY <1>2, <4>1 DEF Queued
    <3>4. QED
      BY <1>1, <2>2, <3>1, <3>2, <3>3
  <2>3. QED
    BY <2>1, <2>2
<1>5. QED
  BY <1>3, <1>4

\* Nobody is put before the holder of the lock, nor in its place: joining the
\* queue, or being taken out of it, does not touch another task at its head.
LEMMA HolderStays ==
    ASSUME NEW S, NEW s \in S, NEW t \in S, queue \in Seq(S), Holds(s),
           Join(t) \/ (Abandon(t) /\ s # t)
    PROVE  Holds(s)'
<1>1. CASE Join(t)
  BY <1>1 DEF Join, Holds
<1>2. CASE Abandon(t) /\ s # t
  <2>1. PICK i \in 1..Len(queue) :
            /\ queue[i] = t
            /\ queue' = SubSeq(queue, 1, i - 1) \o SubSeq(queue, i + 1, Len(queue))
    BY <1>2 DEF Abandon
  <2>2. i # 1 /\ queue[1] = s
    BY <1>2, <2>1 DEF Holds
  <2> DEFINE front == SubSeq(queue, 1, i - 1)
             back  == SubSeq(queue, i + 1, Len(queue))
  <2>3. front \in Seq(S) /\ Len(front) = i - 1 /\ front[1] = s
    BY <2>2, Z3
  <2>4. back \in Seq(S)
    BY Z3
  <2> HIDE DEF front, back
  <2>5. queue' = front \o back
    BY <2>1 DEF front, back
  <2>6. queue' \in Seq(S) /\ Len(queue') >= 1 /\ queue'[1] = s
    BY <2>2, <2>3, <2>4, <2>5
  <2>7. QED
    BY <2>6 DEF Holds
<1>3. QED
  BY <1>1, <1>2

=============================================================================
