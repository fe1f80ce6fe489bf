------------------------- MODULE AppServicesProofs -------------------------
(***************************************************************************)
(* Proofs about AppServices, for every bound: the types, one engine per    *)
(* process, no tunnel that its service does not hold, and an engagement    *)
(* that nothing posted before it defeats.                                  *)
(***************************************************************************)
EXTENDS AppServices, TLAPS

\* The flag, the engine and the threads agree: the flag is given back only by the
\* death of the process.
EngineInv ==
    /\ threads = IF started THEN 1 ELSE 0
    /\ started <=> engine # "none"

\* The pool has work for a running service only, and then for one task at most.
PoolInv ==
    /\ pool.queued + pool.reading <= 1
    /\ ~vpn.isRunning => pool.queued = 0 /\ pool.reading = 0

TunnelInv ==
    /\ tunnels = IF vpn.open THEN 1 ELSE 0
    /\ vpn.open => vpn.alive /\ vpn.isRunning

ServicesInv == ServicesTypeOK /\ EngineInv /\ PoolInv /\ TunnelInv

-----------------------------------------------------------------------------

LEMMA MessageType ==
    ASSUME NEW s \in Service, NEW w \in {"start", "null", "destroy"}
    PROVE  To(s, w) \in Message
BY DEF To, Message

LEMMA TwoStartsType ==
    <<To("vpn", "start"), To("dns", "start")>> \in Seq(Message)
<1>1. To("vpn", "start") \in Message /\ To("dns", "start") \in Message
  BY MessageType DEF Service
<1> QED
  BY <1>1

\* Every action leaves inbox a sequence of messages.
LEMMA InboxType ==
    ASSUME ServicesTypeOK, [Next]_vars
    PROVE  inbox' \in Seq(Message)
<1> USE DEF ServicesTypeOK
<1>1. CASE Engage
  BY <1>1, TwoStartsType DEF Engage
<1>2. ASSUME NEW s \in Service, UserStops(s)
      PROVE  inbox' \in Seq(Message)
  BY <1>2, MessageType DEF UserStops
<1>3. ASSUME NEW s \in Service, Revive(s)
      PROVE  inbox' \in Seq(Message)
  <2>1. To(s, IF s \in pending THEN "start" ELSE "null") \in Message
    BY <1>3, MessageType
  <2> QED
    BY <2>1, <1>3 DEF Revive
<1>4. CASE MainThread
  <2>1. inbox # <<>>
    BY <1>4 DEF MainThread, StartVpnAgain, StartVpn, StartVpnThrows, StartVpnNull,
                DestroyVpn, StartDns, DestroyDns, Receives
  <2>2. Tail(inbox) \in Seq(Message)
    BY <2>1
  <2>3. Append(Tail(inbox), To("vpn", "destroy")) \in Seq(Message)
    BY <2>2, MessageType DEF Service
  <2> QED
    BY <1>4, <2>2, <2>3 DEF MainThread, StartVpnAgain, StartVpn, OpenTunnel,
       StartVpnThrows, StartVpnNull, DestroyVpn, StartDns, DestroyDns
<1>5. CASE TakeInterface \/ ReadFails \/ ReaderLeaves \/ EngineEnds
  BY <1>5 DEF TakeInterface, ReadFails, ReaderLeaves, EngineEnds
<1>6. CASE Death
  BY <1>6 DEF Death
<1>7. CASE Reboot
  BY <1>7, TwoStartsType DEF Reboot
<1>8. CASE UNCHANGED vars
  BY <1>8 DEF vars
<1> QED
  BY <1>1, <1>2, <1>3, <1>4, <1>5, <1>6, <1>7, <1>8 DEF Next

-----------------------------------------------------------------------------

LEMMA NothingRuns ==
    /\ NoVpn \in [alive : BOOLEAN, isRunning : BOOLEAN, open : BOOLEAN]
    /\ ~NoVpn.alive /\ ~NoVpn.isRunning /\ ~NoVpn.open
    /\ NoDns \in [alive : BOOLEAN, isEngineStarted : BOOLEAN]
    /\ IdlePool \in [queued : Nat, reading : 0..2, failed : BOOLEAN]
    /\ IdlePool.queued = 0 /\ IdlePool.reading = 0
<1>1. 0 \in 0..2
  OBVIOUS
<1>2. IdlePool \in [queued : Nat, reading : 0..2, failed : BOOLEAN]
  BY <1>1 DEF IdlePool
<1> QED
  BY <1>2 DEF NoVpn, NoDns, IdlePool

LEMMA ServicesInit == Init => ServicesInv
<1> SUFFICES ASSUME Init PROVE ServicesInv
  OBVIOUS
<1> USE DEF Init
<1>1. ServicesTypeOK
  <2>1. inbox \in Seq(Message)
    OBVIOUS
  <2>2. sticky \subseteq Service /\ pending \subseteq Service
    OBVIOUS
  <2>3. /\ vpn \in [alive : BOOLEAN, isRunning : BOOLEAN, open : BOOLEAN]
        /\ pool \in [queued : Nat, reading : 0..2, failed : BOOLEAN]
        /\ dns \in [alive : BOOLEAN, isEngineStarted : BOOLEAN]
    BY NothingRuns
  <2> QED
    BY <2>1, <2>2, <2>3 DEF ServicesTypeOK
<1>2. EngineInv
  BY DEF EngineInv
<1>3. PoolInv /\ TunnelInv
  BY NothingRuns DEF PoolInv, TunnelInv
<1> QED
  BY <1>1, <1>2, <1>3 DEF ServicesInv

\* What the system's bookkeeping can become.
LEMMA SystemType ==
    ASSUME ServicesTypeOK, [Next]_vars
    PROVE  /\ sticky' \subseteq Service /\ pending' \subseteq Service
           /\ prepared' \in BOOLEAN /\ wanted' \in BOOLEAN /\ deaths' \in Nat
<1> USE DEF ServicesTypeOK, Service
<1>1. CASE Engage
  BY <1>1 DEF Engage, Stuck, Deaf
<1>2. ASSUME NEW s \in Service, UserStops(s)
      PROVE  /\ sticky' \subseteq Service /\ pending' \subseteq Service
             /\ prepared' \in BOOLEAN /\ wanted' \in BOOLEAN /\ deaths' \in Nat
  <2>1. sticky' \subseteq Service /\ pending' \subseteq Service
    BY <1>2 DEF UserStops
  <2>2. wanted' \in BOOLEAN /\ deaths' \in Nat
    BY <1>2 DEF UserStops
  <2>3. prepared' \in BOOLEAN
    BY <1>2 DEF UserStops
  <2> QED
    BY <2>1, <2>2, <2>3
<1>3. ASSUME NEW s \in Service, Revive(s)
      PROVE  /\ sticky' \subseteq Service /\ pending' \subseteq Service
             /\ prepared' \in BOOLEAN /\ wanted' \in BOOLEAN /\ deaths' \in Nat
  BY <1>3 DEF Revive
<1>4. CASE StartVpnThrows
  BY <1>4 DEF StartVpnThrows
<1>5. CASE StartVpnAgain \/ StartVpn \/ StartVpnNull \/ DestroyVpn \/ StartDns \/ DestroyDns
  BY <1>5 DEF StartVpnAgain, StartVpn, OpenTunnel, StartVpnNull, DestroyVpn, StartDns,
              DestroyDns, sysVars
<1>6. CASE TakeInterface \/ ReadFails \/ ReaderLeaves \/ EngineEnds
  BY <1>6 DEF TakeInterface, ReadFails, ReaderLeaves, EngineEnds, sysVars
<1>7. CASE Death
  <2>1. sticky' \subseteq Service /\ pending' \subseteq Service /\ prepared' \in BOOLEAN
    BY <1>7 DEF Death
  <2>2. wanted' = FALSE /\ deaths' = deaths + 1
    BY <1>7 DEF Death, ProcessGone
  <2>3. deaths' \in Nat
    BY <2>2
  <2>4. wanted' \in BOOLEAN
    BY <2>2
  <2> QED
    BY <2>1, <2>3, <2>4
<1>8. CASE Reboot
  <2>1. sticky' \subseteq Service /\ pending' \subseteq Service /\ prepared' \in BOOLEAN
    BY <1>8 DEF Reboot
  <2>2. wanted' = FALSE /\ deaths' = deaths + 1
    BY <1>8 DEF Reboot, ProcessGone
  <2>3. deaths' \in Nat
    BY <2>2
  <2>4. wanted' \in BOOLEAN
    BY <2>2
  <2> QED
    BY <2>1, <2>3, <2>4
<1>9. CASE UNCHANGED vars
  BY <1>9 DEF vars
<1> QED
  BY <1>1, <1>2, <1>3, <1>4, <1>5, <1>6, <1>7, <1>8, <1>9 DEF Next, MainThread

LEMMA EngineStep ==
    ASSUME ServicesInv, [Next]_vars
    PROVE  /\ EngineInv'
           /\ dns' \in [alive : BOOLEAN, isEngineStarted : BOOLEAN]
           /\ started' \in BOOLEAN /\ engine' \in {"none", "running", "ended"}
           /\ threads' \in Nat
<1> USE DEF ServicesInv, ServicesTypeOK, EngineInv
<1>1. CASE StartDns
  <2>1. dns' = [alive |-> TRUE, isEngineStarted |-> TRUE]
    BY <1>1 DEF StartDns
  <2>2. CASE dns.isEngineStarted \/ started
    <3>1. UNCHANGED <<started, engine, threads>>
      BY <1>1, <2>2 DEF StartDns, SpawnEngine
    <3> QED
      BY <2>1, <3>1
  <2>3. CASE ~dns.isEngineStarted /\ ~started
    <3>1. started' = TRUE /\ engine' = "running" /\ threads' = threads + 1
      BY <1>1, <2>3 DEF StartDns, SpawnEngine
    <3> QED
      BY <2>1, <2>3, <3>1
  <2> QED
    BY <2>2, <2>3
<1>2. CASE DestroyDns
  BY <1>2 DEF DestroyDns, NoDns
<1>3. CASE EngineEnds
  BY <1>3 DEF EngineEnds
<1>4. CASE Death \/ Reboot
  <2>1. dns' = NoDns /\ started' = FALSE /\ engine' = "none" /\ threads' = 0
    BY <1>4 DEF Death, Reboot, ProcessGone
  <2> QED
    BY <2>1, NothingRuns
<1>5. CASE StartVpnAgain \/ StartVpn \/ StartVpnThrows \/ StartVpnNull \/ DestroyVpn
  BY <1>5 DEF StartVpnAgain, StartVpn, OpenTunnel, StartVpnThrows, StartVpnNull, DestroyVpn,
              dnsVars
<1>6. CASE TakeInterface \/ ReadFails \/ ReaderLeaves
  BY <1>6 DEF TakeInterface, ReadFails, ReaderLeaves, dnsVars
<1>7. CASE Engage \/ \E s \in Service : UserStops(s) \/ Revive(s)
  <2>1. UNCHANGED <<dns, started, engine, threads>>
    BY <1>7 DEF Engage, UserStops, Revive, dnsVars
  <2> QED
    BY <2>1
<1>8. CASE UNCHANGED vars
  BY <1>8 DEF vars
<1> QED
  BY <1>1, <1>2, <1>3, <1>4, <1>5, <1>6, <1>7, <1>8 DEF Next, MainThread

LEMMA TunnelStep ==
    ASSUME ServicesInv, [Next]_vars
    PROVE  /\ PoolInv' /\ TunnelInv'
           /\ vpn' \in [alive : BOOLEAN, isRunning : BOOLEAN, open : BOOLEAN]
           /\ tunnels' \in Nat
           /\ pool' \in [queued : Nat, reading : 0..2, failed : BOOLEAN]
<1> USE DEF ServicesInv, ServicesTypeOK, PoolInv, TunnelInv
<1>1. CASE StartVpn
  <2>1. /\ ~vpn.isRunning /\ ~vpn.open
        /\ pool.queued = 0 /\ pool.reading = 0 /\ tunnels = 0
    BY <1>1 DEF StartVpn
  <2>2. vpn' = [alive |-> TRUE, isRunning |-> TRUE, open |-> prepared]
    BY <1>1 DEF StartVpn, OpenTunnel
  <2>3. tunnels' = IF prepared THEN tunnels + 1 ELSE tunnels
    BY <1>1 DEF StartVpn, OpenTunnel
  <2>4. pool' = [pool EXCEPT !.queued = @ + 1]
    BY <1>1 DEF StartVpn, OpenTunnel
  <2>5. PoolInv' /\ pool' \in [queued : Nat, reading : 0..2, failed : BOOLEAN]
    BY <2>1, <2>2, <2>4
  <2>6. TunnelInv' /\ tunnels' \in Nat
    BY <2>1, <2>2, <2>3
  <2> QED
    BY <2>2, <2>5, <2>6
<1>2. CASE StartVpnThrows
  BY <1>2 DEF StartVpnThrows, NoVpn
<1>3. CASE StartVpnNull
  BY <1>3 DEF StartVpnNull
<1>4. CASE DestroyVpn
  BY <1>4 DEF DestroyVpn, NoVpn, IdlePool
<1>5. CASE TakeInterface
  <2>1. pool.queued = 1 /\ pool.reading = 0 /\ vpn.isRunning
    BY <1>5 DEF TakeInterface
  <2>2. pool' = [pool EXCEPT !.queued = @ - 1,
                             !.reading = IF vpn.open THEN @ + 1 ELSE @]
    BY <1>5 DEF TakeInterface
  <2>3. pool'.queued = 0 /\ pool'.reading \in {0, 1}
    BY <2>1, <2>2
  <2>4. pool' \in [queued : Nat, reading : 0..2, failed : BOOLEAN]
    <3>1. pool.queued - 1 \in Nat /\ (IF vpn.open THEN pool.reading + 1 ELSE pool.reading) \in 0..2
      BY <2>1
    <3> QED
      BY <2>2, <3>1
  <2>5. UNCHANGED <<vpn, tunnels>>
    BY <1>5 DEF TakeInterface
  <2> QED
    BY <2>1, <2>3, <2>4, <2>5
<1>6. CASE ReadFails
  <2>1. pool' = [pool EXCEPT !.reading = @ - 1, !.failed = TRUE] /\ pool.reading > 0
    BY <1>6 DEF ReadFails
  <2>2. UNCHANGED <<vpn, tunnels>>
    BY <1>6 DEF ReadFails
  <2>3. pool' \in [queued : Nat, reading : 0..2, failed : BOOLEAN]
    <3>1. pool.reading - 1 \in 0..2
      BY <2>1
    <3> QED
      BY <2>1, <3>1
  <2>4. PoolInv'
    BY <2>1, <2>2
  <2> QED
    BY <2>2, <2>3, <2>4
<1>7. CASE Death \/ Reboot
  <2>1. vpn' = NoVpn /\ tunnels' = 0 /\ pool' = IdlePool
    BY <1>7 DEF Death, Reboot, ProcessGone
  <2> QED
    BY <2>1, NothingRuns
<1>8. CASE StartVpnAgain \/ StartDns \/ DestroyDns \/ ReaderLeaves \/ EngineEnds
  BY <1>8 DEF StartVpnAgain, StartDns, DestroyDns, ReaderLeaves, EngineEnds, vpnVars
<1>9. CASE Engage \/ \E s \in Service : UserStops(s) \/ Revive(s)
  <2>1. UNCHANGED <<vpn, tunnels, pool>>
    BY <1>9 DEF Engage, UserStops, Revive, vpnVars
  <2> QED
    BY <2>1
<1>10. CASE UNCHANGED vars
  BY <1>10 DEF vars, vpnVars
<1> QED
  BY <1>1, <1>2, <1>3, <1>4, <1>5, <1>6, <1>7, <1>8, <1>9, <1>10 DEF Next, MainThread

\* A task that is left behind is one of the pool's.
LEMMA LeavingStep ==
    ASSUME ServicesTypeOK, [Next]_vars
    PROVE  leaving' \in Nat
<1>1. leaving \in Nat /\ pool.reading \in Nat /\ pool.queued \in Nat
  BY DEF ServicesTypeOK
<1>2. CASE DestroyVpn
  <2>1. leaving' \in (leaving + pool.reading)..(leaving + pool.reading + pool.queued)
    BY <1>2 DEF DestroyVpn
  <2> QED
    BY <1>1, <2>1
<1>3. CASE ReaderLeaves
  BY <1>1, <1>3 DEF ReaderLeaves
<1>4. CASE Death \/ Reboot
  <2>1. leaving' = 0
    BY <1>4 DEF Death, Reboot, ProcessGone
  <2> QED
    BY <2>1
<1>5. CASE MainThread /\ ~DestroyVpn
  <2>1. leaving' = leaving
    BY <1>5 DEF MainThread, StartVpnAgain, StartVpn, OpenTunnel, StartVpnThrows, StartVpnNull,
                StartDns, DestroyDns, vpnVars
  <2> QED
    BY <1>1, <2>1
<1>6. CASE Engage \/ TakeInterface \/ ReadFails \/ EngineEnds \/ UNCHANGED vars
  <2>1. leaving' = leaving
    BY <1>6 DEF Engage, TakeInterface, ReadFails, EngineEnds, vpnVars, vars
  <2> QED
    BY <1>1, <2>1
<1>7. CASE \E s \in Service : UserStops(s) \/ Revive(s)
  <2>1. leaving' = leaving
    BY <1>7 DEF UserStops, Revive, vpnVars
  <2> QED
    BY <1>1, <2>1
<1> QED
  BY <1>2, <1>3, <1>4, <1>5, <1>6, <1>7 DEF Next

LEMMA ServicesStep ==
    ASSUME ServicesInv, [Next]_vars
    PROVE  ServicesInv'
<1>1. ServicesTypeOK
  BY DEF ServicesInv
<1>2. inbox' \in Seq(Message)
  BY <1>1, InboxType
<1>3. /\ sticky' \subseteq Service /\ pending' \subseteq Service
      /\ prepared' \in BOOLEAN /\ wanted' \in BOOLEAN /\ deaths' \in Nat
  BY <1>1, SystemType
<1> QED
  BY <1>1, <1>2, <1>3, EngineStep, TunnelStep, LeavingStep DEF ServicesInv, ServicesTypeOK

\* The invariant of the two services: see its conjuncts.
THEOREM ServicesInvariance == Spec => []ServicesInv
<1>1. Init => ServicesInv
  BY ServicesInit
<1>2. ServicesInv /\ [Next]_vars => ServicesInv'
  BY ServicesStep
<1> QED
  BY <1>1, <1>2, PTL DEF Spec

\* The types of AppServices, after any number of messages and deaths.
THEOREM ServicesTypeCorrectness == Spec => []ServicesTypeOK
<1>1. ServicesInv => ServicesTypeOK
  BY DEF ServicesInv
<1> QED
  BY <1>1, ServicesInvariance, PTL

\* startNativeEngine starts one engine per process at most, however often its
\* service is created and destroyed.
THEOREM OneEnginePerProcess == Spec => []OneEngine
<1>1. ServicesInv => OneEngine
  BY DEF ServicesInv, ServicesTypeOK, EngineInv, OneEngine
<1> QED
  BY <1>1, ServicesInvariance, PTL

\* startVpn, stopVpn and onDestroy never lose a tunnel and never set two tasks on one.
THEOREM TunnelsAreHeld == Spec => []NoStrayTunnel
<1>1. ServicesInv => NoStrayTunnel
  BY DEF ServicesInv, PoolInv, TunnelInv, NoStrayTunnel
<1> QED
  BY <1>1, ServicesInvariance, PTL

-----------------------------------------------------------------------------
(***************************************************************************)
(* The engagement.  What it needs beside EngagementStands: a task of the   *)
(* pool for every open tunnel, failures that go with their service, and an *)
(* instance of DNSService that only believes in an engine it started.      *)
(***************************************************************************)

WorkInv ==
    /\ ~vpn.isRunning => ~pool.failed
    /\ vpn.open => pool.failed \/ pool.queued + pool.reading = 1

BelievesRightly == dns.isEngineStarted => started

EngagementInv ==
    /\ WorkInv /\ BelievesRightly
    /\ wanted => ~Stuck
    /\ EngagementStands

LEMMA EngagementInit == Init => EngagementInv
<1> SUFFICES ASSUME Init PROVE EngagementInv
  OBVIOUS
<1>1. ~vpn.isRunning /\ ~vpn.open /\ ~pool.failed
  BY NothingRuns DEF Init, IdlePool
<1>2. ~dns.isEngineStarted /\ ~wanted
  BY DEF Init, NoDns
<1> QED
  BY <1>1, <1>2 DEF EngagementInv, WorkInv, BelievesRightly, EngagementStands

\* A message added behind the others makes nothing of them vanish; a start stays
\* ahead unless a destroy is what is added.
LEMMA InboxGrows ==
    ASSUME NEW m \in Message, inbox \in Seq(Message), inbox' = Append(inbox, m)
    PROVE  /\ \A x : Posted(x) => Posted(x)'
           /\ \A x : Posted(x)' => Posted(x) \/ x = m
           /\ \A s \in Service : m # To(s, "destroy") /\ StartAhead(s) => StartAhead(s)'
<1>1. /\ Len(inbox') = Len(inbox) + 1 /\ Len(inbox) \in Nat
      /\ inbox'[Len(inbox) + 1] = m
      /\ \A i \in 1..Len(inbox) : inbox'[i] = inbox[i]
  OBVIOUS
<1>2. \A x : Posted(x) => Posted(x)'
  BY <1>1 DEF Posted
<1>3. \A x : Posted(x)' => Posted(x) \/ x = m
  BY <1>1 DEF Posted
<1>4. ASSUME NEW s \in Service, m # To(s, "destroy"), StartAhead(s)
      PROVE  StartAhead(s)'
  <2>1. PICK i \in 1..Len(inbox) :
           /\ inbox[i] = To(s, "start")
           /\ \A j \in (i + 1)..Len(inbox) : inbox[j] # To(s, "destroy")
    BY <1>4 DEF StartAhead
  <2>2. inbox'[i] = To(s, "start") /\ i \in 1..Len(inbox')
    BY <2>1, <1>1
  <2>3. \A j \in (i + 1)..Len(inbox') : inbox'[j] # To(s, "destroy")
    BY <2>1, <1>1, <1>4
  <2> QED
    BY <2>2, <2>3 DEF StartAhead
<1> QED
  BY <1>2, <1>3, <1>4

\* Handling the first message leaves the others as they were; a start that was
\* ahead still is, or is the one handled, with no destroy behind it.
LEMMA InboxShrinks ==
    ASSUME inbox \in Seq(Message), inbox # <<>>, inbox' = Tail(inbox)
    PROVE  /\ \A x : Posted(x)' => Posted(x)
           /\ \A x : Posted(x) => Posted(x)' \/ Head(inbox) = x
           /\ Posted(Head(inbox))
           /\ \A s \in Service : StartAhead(s) =>
                 \/ StartAhead(s)'
                 \/ Head(inbox) = To(s, "start") /\ ~Posted(To(s, "destroy"))'
<1>1. /\ Len(inbox) \in Nat /\ Len(inbox) > 0 /\ Len(inbox') = Len(inbox) - 1
      /\ Head(inbox) = inbox[1]
      /\ \A i \in 1..Len(inbox') : inbox'[i] = inbox[i + 1]
  OBVIOUS
<1>2. \A i \in 2..Len(inbox) : i - 1 \in 1..Len(inbox') /\ inbox'[i - 1] = inbox[i]
  BY <1>1
<1>3. \A x : Posted(x)' => Posted(x)
  BY <1>1 DEF Posted
<1>4. \A x : Posted(x) => Posted(x)' \/ Head(inbox) = x
  <2> SUFFICES ASSUME NEW x, Posted(x), Head(inbox) # x
               PROVE  Posted(x)'
    OBVIOUS
  <2>1. PICK i \in 1..Len(inbox) : inbox[i] = x
    BY DEF Posted
  <2>2. i \in 2..Len(inbox)
    BY <2>1, <1>1
  <2> QED
    BY <2>1, <2>2, <1>2 DEF Posted
<1>5. Posted(Head(inbox))
  BY <1>1 DEF Posted
<1>6. ASSUME NEW s \in Service, StartAhead(s)
      PROVE  \/ StartAhead(s)'
             \/ Head(inbox) = To(s, "start") /\ ~Posted(To(s, "destroy"))'
  <2>1. PICK i \in 1..Len(inbox) :
           /\ inbox[i] = To(s, "start")
           /\ \A j \in (i + 1)..Len(inbox) : inbox[j] # To(s, "destroy")
    BY <1>6 DEF StartAhead
  <2>2. CASE i = 1
    <3>1. \A j \in 1..Len(inbox') : inbox'[j] # To(s, "destroy")
      BY <2>1, <2>2, <1>1
    <3> QED
      BY <2>1, <2>2, <3>1, <1>1 DEF Posted
  <2>3. CASE i # 1
    <3>1. i - 1 \in 1..Len(inbox') /\ inbox'[i - 1] = To(s, "start")
      BY <2>1, <2>3, <1>2
    <3>2. \A j \in ((i - 1) + 1)..Len(inbox') : inbox'[j] # To(s, "destroy")
      BY <2>1, <1>1
    <3> QED
      BY <3>1, <3>2 DEF StartAhead
  <2> QED
    BY <2>2, <2>3
<1> QED
  BY <1>3, <1>4, <1>5, <1>6

\* Starts, destroys and null starts are different messages.
LEMMA MessagesDiffer ==
    /\ To("vpn", "start") # To("vpn", "destroy") /\ To("vpn", "null") # To("vpn", "destroy")
    /\ To("vpn", "start") # To("vpn", "null") /\ To("dns", "start") # To("dns", "destroy")
    /\ \A w, u : To("dns", w) # To("vpn", u)
<1>1. \A r, s, w, u : To(r, w) = To(s, u) => r = s /\ w = u
  BY DEF To
<1> QED
  BY <1>1

\* The tunnel, the pool and the fields of DNSService.
LEMMA WorkStep ==
    ASSUME ServicesInv, WorkInv, BelievesRightly, [Next]_vars
    PROVE  WorkInv' /\ BelievesRightly'
<1> USE DEF WorkInv, BelievesRightly
<1>1. CASE StartVpn
  <2>1. ~vpn.isRunning /\ ~pool.failed /\ pool.queued = 0 /\ pool.reading = 0
    BY <1>1 DEF StartVpn, ServicesInv, PoolInv
  <2>2. vpn' = [alive |-> TRUE, isRunning |-> TRUE, open |-> prepared]
    BY <1>1 DEF StartVpn, OpenTunnel
  <2>3. pool' = [pool EXCEPT !.queued = @ + 1]
    BY <1>1 DEF StartVpn, OpenTunnel
  <2>4. pool'.queued = 1 /\ pool'.reading = 0
    BY <2>1, <2>3 DEF ServicesInv, ServicesTypeOK
  <2>5. UNCHANGED <<dns, started>>
    BY <1>1 DEF StartVpn, OpenTunnel, dnsVars
  <2> QED
    BY <2>2, <2>4, <2>5
<1>2. CASE StartVpnThrows \/ StartVpnNull
  <2>1. vpn'.isRunning = vpn.isRunning /\ (vpn'.open => vpn.open)
    BY <1>2 DEF StartVpnThrows, StartVpnNull, NoVpn, ServicesInv, ServicesTypeOK
  <2>2. UNCHANGED <<pool, dns, started>>
    BY <1>2 DEF StartVpnThrows, StartVpnNull, dnsVars
  <2> QED
    BY <2>1, <2>2
<1>3. CASE DestroyVpn
  <2>1. vpn' = NoVpn /\ pool' = IdlePool
    BY <1>3 DEF DestroyVpn
  <2>2. UNCHANGED <<dns, started>>
    BY <1>3 DEF DestroyVpn, dnsVars
  <2> QED
    BY <2>1, <2>2, NothingRuns DEF IdlePool
<1>4. CASE TakeInterface
  <2>1. pool.queued = 1 /\ pool.reading = 0 /\ vpn.isRunning
    BY <1>4 DEF TakeInterface, ServicesInv, ServicesTypeOK, PoolInv
  <2>2. pool' = [pool EXCEPT !.queued = @ - 1,
                             !.reading = IF vpn.open THEN @ + 1 ELSE @]
    BY <1>4 DEF TakeInterface
  <2>3. pool'.queued = 0 /\ (vpn.open => pool'.reading = 1)
    BY <2>1, <2>2 DEF ServicesInv, ServicesTypeOK
  <2>4. UNCHANGED <<vpn, dns, started>>
    BY <1>4 DEF TakeInterface, dnsVars
  <2> QED
    BY <2>1, <2>3, <2>4
<1>5. CASE ReadFails
  <2>1. pool'.failed
    BY <1>5 DEF ReadFails, ServicesInv, ServicesTypeOK
  <2>2. vpn.isRunning
    BY <1>5 DEF ReadFails, ServicesInv, PoolInv
  <2>3. UNCHANGED <<vpn, dns, started>>
    BY <1>5 DEF ReadFails, dnsVars
  <2> QED
    BY <2>1, <2>2, <2>3
<1>6. CASE StartDns
  <2>1. UNCHANGED <<vpn, pool>>
    BY <1>6 DEF StartDns, vpnVars
  <2>2. started'
    BY <1>6 DEF StartDns, SpawnEngine
  <2> QED
    BY <2>1, <2>2
<1>7. CASE DestroyDns
  <2>1. UNCHANGED <<vpn, pool>> /\ dns' = NoDns
    BY <1>7 DEF DestroyDns, vpnVars
  <2> QED
    BY <2>1 DEF NoDns
<1>8. CASE Death \/ Reboot
  <2>1. vpn' = NoVpn /\ pool' = IdlePool /\ dns' = NoDns
    BY <1>8 DEF Death, Reboot, ProcessGone
  <2> QED
    BY <2>1, NothingRuns DEF IdlePool, NoDns
<1>9. CASE Engage \/ StartVpnAgain \/ ReaderLeaves \/ EngineEnds
  <2>1. UNCHANGED <<vpn, pool, dns, started>>
    BY <1>9 DEF Engage, StartVpnAgain, ReaderLeaves, EngineEnds, vpnVars, dnsVars
  <2> QED
    BY <2>1
<1>10. CASE \E s \in Service : UserStops(s) \/ Revive(s)
  <2>1. UNCHANGED <<vpn, pool, dns, started>>
    BY <1>10 DEF UserStops, Revive, vpnVars, dnsVars
  <2> QED
    BY <2>1
<1>11. CASE UNCHANGED vars
  BY <1>11 DEF vars
<1> QED
  BY <1>1, <1>2, <1>3, <1>4, <1>5, <1>6, <1>7, <1>8, <1>9, <1>10, <1>11 DEF Next, MainThread

\* With nothing stuck and the tunnel's work accounted for, a running service has an
\* open tunnel with its one task.
LEMMA RunningMeansOpen ==
    ASSUME WorkInv, ~Stuck, vpn.isRunning
    PROVE  vpn.open /\ pool.queued + pool.reading = 1
BY DEF WorkInv, Stuck, Deaf

\* TunnelDue in the form that is carried over a step.
LEMMA TunnelDueForm ==
    ASSUME ServicesInv, WorkInv, ~Stuck
    PROVE  TunnelDue <=> \/ vpn.isRunning /\ ~Posted(To("vpn", "destroy"))
                         \/ StartAhead("vpn")
<1>1. vpn.open => vpn.isRunning
  BY DEF ServicesInv, TunnelInv
<1>2. ~Deaf
  BY DEF Stuck
<1>3. vpn.isRunning => vpn.open /\ pool.queued + pool.reading = 1
  BY RunningMeansOpen
<1> QED
  BY <1>1, <1>2, <1>3 DEF TunnelDue

\* What the engagement needs of the tunnel side, in the form of TunnelDueForm.
VpnDue ==
    \/ vpn.isRunning /\ ~Posted(To("vpn", "destroy"))
    \/ StartAhead("vpn")

\* The main thread handles a message: either it is the start that counts, and the
\* service runs after it, or that start is still ahead.
LEMMA VpnDueStep ==
    ASSUME ServicesTypeOK, VpnDue, MainThread, ~StartVpnThrows
    PROVE  VpnDue'
<1>1. inbox \in Seq(Message) /\ inbox # <<>> /\ inbox' = Tail(inbox)
  BY DEF ServicesTypeOK, MainThread, StartVpnAgain, StartVpn, OpenTunnel, StartVpnThrows,
         StartVpnNull, DestroyVpn, StartDns, DestroyDns, Receives
<1>2. CASE StartVpn \/ StartVpnAgain
  <2>1. vpn'.isRunning /\ Head(inbox) = To("vpn", "start")
    BY <1>2 DEF StartVpn, OpenTunnel, StartVpnAgain, Receives, vpnVars
  <2>2. CASE StartAhead("vpn")
    BY <1>1, <2>1, <2>2, InboxShrinks DEF VpnDue, Service
  <2>3. CASE ~StartAhead("vpn")
    <3>1. ~Posted(To("vpn", "destroy"))
      BY <2>3 DEF VpnDue
    <3> QED
      BY <1>1, <2>1, <3>1, InboxShrinks DEF VpnDue
  <2> QED
    BY <2>2, <2>3
<1>3. CASE DestroyVpn
  <2>1. Head(inbox) = To("vpn", "destroy")
    BY <1>3 DEF DestroyVpn, Receives
  <2>2. Posted(To("vpn", "destroy"))
    BY <1>1, <2>1, InboxShrinks
  <2>3. StartAhead("vpn")
    BY <2>2 DEF VpnDue
  <2>4. StartAhead("vpn")'
    BY <1>1, <2>1, <2>3, InboxShrinks, MessagesDiffer DEF Service
  <2> QED
    BY <2>4 DEF VpnDue
<1>4. CASE StartVpnNull \/ StartDns \/ DestroyDns
  <2>1. vpn'.isRunning = vpn.isRunning
    BY <1>4 DEF StartVpnNull, StartDns, DestroyDns, vpnVars, ServicesTypeOK
  <2>2. Head(inbox) # To("vpn", "start")
    BY <1>4, MessagesDiffer DEF StartVpnNull, StartDns, DestroyDns, Receives
  <2>3. StartAhead("vpn") => StartAhead("vpn")'
    BY <1>1, <2>2, InboxShrinks DEF Service
  <2>4. ~Posted(To("vpn", "destroy")) => ~Posted(To("vpn", "destroy"))'
    BY <1>1, InboxShrinks
  <2> QED
    BY <2>1, <2>3, <2>4 DEF VpnDue
<1> QED
  BY <1>2, <1>3, <1>4 DEF MainThread

\* The same for the engine: the start that is awaited starts it.
LEMMA EngineDueStep ==
    ASSUME ServicesInv, BelievesRightly, EngineDue, MainThread, ~StartVpnThrows
    PROVE  EngineDue'
<1>1. inbox \in Seq(Message) /\ inbox # <<>> /\ inbox' = Tail(inbox)
  BY DEF ServicesInv, ServicesTypeOK, MainThread, StartVpnAgain, StartVpn, OpenTunnel,
         StartVpnThrows, StartVpnNull, DestroyVpn, StartDns, DestroyDns, Receives
<1>2. CASE StartDns
  <2>1. CASE engine = "running"
    <3>1. engine' = "running"
      BY <1>2, <2>1 DEF StartDns, SpawnEngine
    <3> QED
      BY <3>1 DEF EngineDue
  <2>2. CASE engine = "none"
    <3>1. ~started /\ ~dns.isEngineStarted
      BY <2>2 DEF ServicesInv, EngineInv, BelievesRightly
    <3>2. engine' = "running"
      BY <1>2, <3>1 DEF StartDns, SpawnEngine
    <3> QED
      BY <3>2 DEF EngineDue
  <2> QED
    BY <2>1, <2>2 DEF EngineDue
<1>3. CASE StartVpnAgain \/ StartVpn \/ StartVpnNull \/ DestroyVpn \/ DestroyDns
  <2>1. engine' = engine
    BY <1>3 DEF StartVpnAgain, StartVpn, OpenTunnel, StartVpnNull, DestroyVpn, DestroyDns,
                dnsVars
  <2>2. Head(inbox) # To("dns", "start")
    BY <1>3, MessagesDiffer DEF StartVpnAgain, StartVpn, OpenTunnel, StartVpnNull,
       DestroyVpn, DestroyDns, Receives
  <2>3. Posted(To("dns", "start")) => Posted(To("dns", "start"))'
    BY <1>1, <2>2, InboxShrinks
  <2> QED
    BY <2>1, <2>3 DEF EngineDue
<1> QED
  BY <1>2, <1>3 DEF MainThread

\* The button, at which the engagement begins.
LEMMA EngageStep ==
    ASSUME ServicesTypeOK, EngineInv, Engage
    PROVE  wanted' => ~Stuck' /\ prepared' /\ VpnDue' /\ EngineDue'
<1> SUFFICES ASSUME wanted' PROVE ~Stuck' /\ prepared' /\ VpnDue' /\ EngineDue'
  OBVIOUS
<1>1. /\ inbox' = inbox \o <<To("vpn", "start"), To("dns", "start")>>
      /\ prepared' /\ ~Stuck
      /\ UNCHANGED <<vpnVars, dnsVars>>
  BY DEF Engage
<1>2. ~Stuck' /\ engine' = engine
  BY <1>1 DEF Stuck, Deaf, vpnVars, dnsVars
<1> DEFINE n == Len(inbox)
           a == To("vpn", "start")
           b == To("dns", "start")
<1>3. inbox \in Seq(Message) /\ a \in Message /\ b \in Message
  BY MessageType DEF ServicesTypeOK, Service
<1>4. a # To("vpn", "destroy") /\ b # To("vpn", "destroy")
  BY MessagesDiffer
<1> HIDE DEF a, b
<1>5. n \in Nat /\ Len(inbox') = n + 2 /\ inbox'[n + 1] = a /\ inbox'[n + 2] = b
  BY <1>1, <1>3 DEF a, b
<1>6. StartAhead("vpn")'
  <2>1. n + 1 \in 1..Len(inbox') /\ inbox'[n + 1] = To("vpn", "start")
    BY <1>5 DEF a
  <2>2. \A j \in ((n + 1) + 1)..Len(inbox') : inbox'[j] # To("vpn", "destroy")
    BY <1>4, <1>5
  <2> QED
    BY <2>1, <2>2 DEF StartAhead
<1>7. Posted(To("dns", "start"))'
  <2>1. n + 2 \in 1..Len(inbox') /\ inbox'[n + 2] = To("dns", "start")
    BY <1>5 DEF b
  <2> QED
    BY <2>1 DEF Posted
<1>8. engine \in {"none", "running"}
  BY <1>1 DEF Stuck, ServicesTypeOK
<1> QED
  BY <1>1, <1>2, <1>6, <1>7, <1>8 DEF VpnDue, EngineDue

\* The engagement, carried over every step that does not end it.
LEMMA EngagementStep ==
    ASSUME ServicesInv, EngagementInv, [Next]_vars
    PROVE  EngagementInv'
<1>1. ServicesTypeOK /\ EngineInv /\ WorkInv /\ BelievesRightly
  BY DEF ServicesInv, EngagementInv
<1>2. WorkInv' /\ BelievesRightly' /\ ServicesInv'
  BY <1>1, WorkStep, ServicesStep
<1>3. wanted => ~Stuck /\ prepared /\ VpnDue /\ EngineDue
  BY <1>1, TunnelDueForm DEF EngagementInv, EngagementStands, VpnDue
<1>4. SUFFICES wanted' => ~Stuck' /\ prepared' /\ VpnDue' /\ EngineDue'
  <2>1. ~Stuck' => (TunnelDue' <=> VpnDue')
    <3> SUFFICES ASSUME ~Stuck' PROVE TunnelDue' <=> VpnDue'
      OBVIOUS
    <3>1. vpn'.open => vpn'.isRunning
      BY <1>2 DEF ServicesInv, TunnelInv
    <3>2. ~Deaf'
      BY DEF Stuck
    <3>3. vpn'.isRunning => vpn'.open /\ pool'.queued + pool'.reading = 1
      BY <1>2, <3>2 DEF WorkInv, Stuck, Deaf
    <3> QED
      BY <3>1, <3>2, <3>3 DEF TunnelDue, VpnDue
  <2> QED
    BY <1>2, <1>4, <2>1 DEF EngagementInv, EngagementStands
<1>5. CASE Engage
  BY <1>1, <1>5, EngageStep
<1> SUFFICES ASSUME wanted', ~Engage
             PROVE  ~Stuck' /\ prepared' /\ VpnDue' /\ EngineDue'
  BY <1>5
<1>6. CASE MainThread
  <2>1. ~StartVpnThrows
    BY DEF StartVpnThrows
  <2>2. wanted /\ prepared'
    BY <1>3, <1>6, <2>1 DEF MainThread, StartVpnAgain, StartVpn, OpenTunnel, StartVpnNull,
       DestroyVpn, StartDns, DestroyDns, sysVars
  <2>3. VpnDue' /\ EngineDue'
    BY <1>1, <1>3, <1>6, <2>1, <2>2, VpnDueStep, EngineDueStep
  <2>4. ~Deaf'
    <3>1. CASE StartVpn
      BY <1>3, <2>2, <3>1 DEF StartVpn, OpenTunnel, Deaf
    <3>2. CASE DestroyVpn
      BY <3>2, NothingRuns DEF DestroyVpn, Deaf
    <3>3. CASE StartVpnAgain \/ StartVpnNull \/ StartDns \/ DestroyDns
      <4>1. vpn'.isRunning = vpn.isRunning /\ vpn'.open = vpn.open
        BY <1>1, <3>3 DEF StartVpnAgain, StartVpnNull, StartDns, DestroyDns, vpnVars,
                          ServicesTypeOK
      <4> QED
        BY <1>3, <2>2, <4>1 DEF Stuck, Deaf
    <3> QED
      BY <1>6, <2>1, <3>1, <3>2, <3>3 DEF MainThread
  <2>5. ~pool'.failed
    <3>1. CASE StartVpn
      BY <1>1, <1>3, <2>2, <3>1 DEF StartVpn, OpenTunnel, Stuck, ServicesTypeOK
    <3>2. CASE DestroyVpn
      BY <3>2 DEF DestroyVpn, IdlePool
    <3>3. CASE StartVpnAgain \/ StartVpnNull \/ StartDns \/ DestroyDns
      BY <1>3, <2>2, <3>3 DEF StartVpnAgain, StartVpnNull, StartDns, DestroyDns, vpnVars, Stuck
    <3> QED
      BY <1>6, <2>1, <3>1, <3>2, <3>3 DEF MainThread
  <2>6. engine' # "ended"
    BY <2>3 DEF EngineDue
  <2> QED
    BY <2>2, <2>3, <2>4, <2>5, <2>6 DEF Stuck
<1>7. CASE TakeInterface
  <2>1. UNCHANGED <<inbox, prepared, vpn, engine, wanted>> /\ pool'.failed = pool.failed
    BY <1>1, <1>7 DEF TakeInterface, sysVars, dnsVars, ServicesTypeOK
  <2> QED
    BY <1>3, <2>1 DEF Stuck, Deaf, VpnDue, StartAhead, EngineDue, Posted
<1>8. ASSUME NEW s \in Service, Revive(s)
      PROVE  ~Stuck' /\ prepared' /\ VpnDue' /\ EngineDue'
  <2> DEFINE m == To(s, IF s \in pending THEN "start" ELSE "null")
  <2>1. /\ UNCHANGED <<prepared, vpn, pool, engine, wanted>>
        /\ inbox' = Append(inbox, m)
    BY <1>8 DEF Revive, vpnVars, dnsVars
  <2>2. m \in Message /\ m # To("vpn", "destroy")
    BY MessageType DEF Service, To
  <2>3. inbox \in Seq(Message)
    BY <1>1 DEF ServicesTypeOK
  <2> HIDE DEF m
  <2>4. /\ StartAhead("vpn") => StartAhead("vpn")'
        /\ ~Posted(To("vpn", "destroy")) => ~Posted(To("vpn", "destroy"))'
        /\ Posted(To("dns", "start")) => Posted(To("dns", "start"))'
    BY <2>1, <2>2, <2>3, InboxGrows DEF Service
  <2> QED
    BY <1>3, <2>1, <2>4 DEF Stuck, Deaf, VpnDue, EngineDue
<1>9. CASE ReadFails \/ EngineEnds \/ Death \/ Reboot
  BY <1>9 DEF ReadFails, EngineEnds, Death, Reboot, ProcessGone
<1>10. ASSUME NEW s \in Service, UserStops(s)
       PROVE  FALSE
  BY <1>10 DEF UserStops
<1>11. CASE ReaderLeaves \/ UNCHANGED vars
  <2>1. UNCHANGED <<inbox, prepared, vpn, pool, engine, wanted>>
    BY <1>11 DEF ReaderLeaves, sysVars, dnsVars, vars
  <2> QED
    BY <1>3, <2>1 DEF Stuck, Deaf, VpnDue, StartAhead, EngineDue, Posted
<1> QED
  BY <1>6, <1>7, <1>8, <1>9, <1>10, <1>11 DEF Next

\* Once the user has engaged the shield (startVpnServices), the tunnel and the engine
\* are there or due: no order of the messages that onStartCommand, onDestroy and the
\* sticky restarts handle defeats it, for any length of the inbox.
THEOREM EngagementsStand == Spec => []EngagementStands
<1>1. Init => EngagementInv
  BY EngagementInit
<1>2. ServicesInv /\ EngagementInv /\ [Next]_vars => EngagementInv'
  BY EngagementStep
<1>3. EngagementInv => EngagementStands
  BY DEF EngagementInv
<1> QED
  BY <1>1, <1>2, <1>3, ServicesInvariance, PTL DEF Spec

=============================================================================
