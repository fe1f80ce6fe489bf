----------------------------- MODULE RateLimiter -----------------------------
(***************************************************************************)
(* The rate limiter in front of every route of the control API             *)
(* (rust-dns-engine/src/api.rs, struct RateLimiter): one window for all    *)
(* callers, because every request is counted under the key "local".        *)
(*                                                                         *)
(* A window is not tied to the clock: it opens with the request that finds *)
(* none, or one older than a second.  A check runs under the limiter's own *)
(* mutex without an await, so it is one action.                            *)
(***************************************************************************)
EXTENDS Integers, FiniteSets

CONSTANTS
    Request,    \* requests that arrive, each once
    Limit,      \* requests a window admits (100 in the code)
    Second,     \* ticks of the clock in a second
    Horizon,    \* bound: the last tick
    NoWindow,   \* the key is not in the map yet
    Pending     \* not checked yet

ASSUME LimiterAssumption ==
    /\ IsFiniteSet(Request)
    /\ Limit \in Nat \ {0}
    /\ Second \in Nat
    /\ Horizon \in Nat
    /\ NoWindow \notin [count : Nat, start : Nat]
    /\ Pending \notin [ok : BOOLEAN, at : Nat]

VARIABLES
    now,       \* Instant::now()
    window,    \* the entry of the map: how many were admitted, and since when
    check      \* check[r]: what the limiter said to request r, and when

vars == <<now, window, check>>

LimiterTypeOK ==
    /\ now \in Nat
    /\ window \in [count : 0..Limit, start : Nat] \cup {NoWindow}
    /\ check \in [Request -> [ok : BOOLEAN, at : Nat] \cup {Pending}]

Init ==
    /\ now = 0
    /\ window = NoWindow
    /\ check = [r \in Request |-> Pending]

-----------------------------------------------------------------------------

\* The entry or_insert finds or makes.
Entry == IF window = NoWindow THEN [count |-> 0, start |-> now] ELSE window

\* Mutant: a second that has just passed counts as passed.
ExpiredAtOnce(w) == now - w.start >= Second

Expired(w) == now - w.start > Second

Tell(r, ok) ==
    /\ check[r] = Pending
    /\ check' = [check EXCEPT ![r] = [ok |-> ok, at |-> now]]
    /\ UNCHANGED now

\* The window is over: this request opens the next one.
Open(r) ==
    /\ Expired(Entry)
    /\ window' = [count |-> 1, start |-> now]
    /\ Tell(r, TRUE)

\* Mutant: the window admits one request too many.
AdmitOneMore(r) ==
    /\ ~Expired(Entry)
    /\ Entry.count <= Limit
    /\ window' = [Entry EXCEPT !.count = @ + 1]
    /\ Tell(r, TRUE)

Admit(r) ==
    /\ ~Expired(Entry)
    /\ Entry.count < Limit
    /\ window' = [Entry EXCEPT !.count = @ + 1]
    /\ Tell(r, TRUE)

\* Mutant: whoever knocks too often has to wait from then on.
RefuseAndWait(r) ==
    /\ ~Expired(Entry)
    /\ Entry.count >= Limit
    /\ window' = [Entry EXCEPT !.start = now]
    /\ Tell(r, FALSE)

\* "rate_limit", TOO_MANY_REQUESTS.
Refuse(r) ==
    /\ ~Expired(Entry)
    /\ Entry.count >= Limit
    /\ window' = Entry
    /\ Tell(r, FALSE)

Tick ==
    /\ now < Horizon
    /\ now' = now + 1
    /\ UNCHANGED <<window, check>>

Next ==
    \/ \E r \in Request : Open(r) \/ Admit(r) \/ Refuse(r)
    \/ Tick

Spec == Init /\ [][Next]_vars

-----------------------------------------------------------------------------

\* The requests that were admitted from tick a to tick b, by the answers c.
AdmittedBy(c, a, b) == {r \in Request : c[r] # Pending /\ c[r].ok /\ c[r].at \in a..b}

Admitted(a, b) == AdmittedBy(check, a, b)

\* What the limiter bounds, since its windows start with a request and not with
\* the second: a second may see the tail of one window and the whole of the next,
\* but never the request that opened the first as well.  No second, wherever it
\* begins, sees more than twice the limit less one.
SlidingBound ==
    \A t \in 0..now : Cardinality(Admitted(t, t + Second)) <= 2 * Limit - 1

\* Nobody is turned away by traffic long past, nor by those turned away before:
\* whoever is refused arrives within a second that admitted a full window.
RefusedOnlyWhenBusy ==
    \A r \in Request :
        check[r] # Pending /\ ~check[r].ok =>
            Cardinality(Admitted(check[r].at - Second, check[r].at)) >= Limit

=============================================================================
