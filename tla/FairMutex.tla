------------------------------ MODULE FairMutex ------------------------------
(***************************************************************************)
(* The tokio::sync::Mutex around the Blocklist (Arc<Mutex<Blocklist>>), as *)
(* the engine uses it: lock().await joins a first-come first-served queue, *)
(* the head of the queue holds the lock, and dropping the guard leaves.    *)
(* tokio promises that order; it is what makes starvation a question of    *)
(* whether a holder ever leaves.  A task whose future is dropped while it  *)
(* waits, or before it has noticed that it holds the lock, is taken out of *)
(* the queue wherever it is.                                               *)
(***************************************************************************)
EXTENDS Naturals, Sequences

VARIABLE queue  \* the tasks that wait for the lock, its holder first

Queued(t) == \E i \in 1..Len(queue) : queue[i] = t

Holds(t) == queue # <<>> /\ Head(queue) = t

NoneTwice == \A i, j \in 1..Len(queue) : queue[i] = queue[j] => i = j

Join(t) == queue' = Append(queue, t)

Leave(t) == Holds(t) /\ queue' = Tail(queue)

Abandon(t) ==
    \E i \in 1..Len(queue) :
        /\ queue[i] = t
        /\ queue' = SubSeq(queue, 1, i - 1) \o SubSeq(queue, i + 1, Len(queue))

=============================================================================
