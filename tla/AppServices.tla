---------------------------- MODULE AppServices ----------------------------
(***************************************************************************)
(* The two services of the app and what starts and ends them: DNSService,  *)
(* which starts the native engine, and VPNServiceBridge, which opens the   *)
(* tunnel and reads it (src/app/.../*.kt), with the once-only start of the *)
(* engine (rust-dns-engine/src/lib.rs).                                    *)
(*                                                                         *)
(* Service callbacks run on the main thread, one after the other, in the   *)
(* order the system posted them: inbox.  A service instance comes into     *)
(* being with its first message and goes with a "destroy".  The process    *)
(* may die at any time; both services are START_STICKY, so the system      *)
(* starts them again, with the intent they never got or with a null one.   *)
(***************************************************************************)
EXTENDS Integers, Sequences

CONSTANTS
    MaxInbox,    \* bound: messages waiting for the main thread
    MaxDeaths,   \* bound: deaths of the process and reboots
    MaxLeaving   \* bound: tasks of ended instances at the time of an engagement

ASSUME ServiceAssumption == MaxInbox \in Nat /\ MaxDeaths \in Nat /\ MaxLeaving \in Nat

VARIABLES
    inbox,       \* messages posted to the main thread
    sticky,      \* services the system keeps running
    pending,     \* those whose start died with the process undelivered
    prepared,    \* VpnService.prepare has been granted, and is not revoked
    vpn,         \* the instance of VPNServiceBridge and its fields
    tunnels,     \* tun descriptors open in the process
    pool,        \* its executor: tasks queued, tasks reading, whether one failed
    leaving,     \* tasks of ended instances that have not ended themselves
    dns,         \* the instance of DNSService and its field
    started,     \* ENGINE_STARTED
    engine,      \* the engine of this process
    threads,     \* engine threads spawned in this process
    wanted,      \* history: the user engaged the shield and nothing ended that since
    deaths       \* deaths so far

vpnVars == <<vpn, tunnels, pool, leaving>>
dnsVars == <<dns, started, engine, threads>>
sysVars == <<sticky, pending, prepared, deaths>>
vars == <<inbox, sticky, pending, prepared, vpn, tunnels, pool, leaving, dns, started,
          engine, threads, wanted, deaths>>

Service == {"vpn", "dns"}

Message == [to : Service, what : {"start", "null", "destroy"}]

NoVpn == [alive |-> FALSE, isRunning |-> FALSE, open |-> FALSE]
NoDns == [alive |-> FALSE, isEngineStarted |-> FALSE]
IdlePool == [queued |-> 0, reading |-> 0, failed |-> FALSE]

ServicesTypeOK ==
    /\ inbox \in Seq(Message)
    /\ sticky \subseteq Service /\ pending \subseteq Service
    /\ prepared \in BOOLEAN
    /\ vpn \in [alive : BOOLEAN, isRunning : BOOLEAN, open : BOOLEAN]
    /\ tunnels \in Nat
    /\ pool \in [queued : Nat, reading : 0..2, failed : BOOLEAN]
    /\ leaving \in Nat
    /\ dns \in [alive : BOOLEAN, isEngineStarted : BOOLEAN]
    /\ started \in BOOLEAN
    /\ engine \in {"none", "running", "ended"}
    /\ threads \in Nat
    /\ wanted \in BOOLEAN
    /\ deaths \in Nat

Init ==
    /\ inbox = <<>>
    /\ sticky = {} /\ pending = {}
    /\ prepared = FALSE
    /\ vpn = NoVpn /\ tunnels = 0 /\ pool = IdlePool /\ leaving = 0
    /\ dns = NoDns /\ started = FALSE /\ engine = "none" /\ threads = 0
    /\ wanted = FALSE
    /\ deaths = 0

-----------------------------------------------------------------------------

To(s, w) == [to |-> s, what |-> w]

Posted(m) == \E i \in 1..Len(inbox) : inbox[i] = m

Room(n) == Len(inbox) + n <= MaxInbox

\* The VPN service counts as running and has no tunnel: establish() returned null.
Deaf == vpn.isRunning /\ ~vpn.open

Stuck == Deaf \/ pool.failed \/ engine = "ended"

\* Mutant: the start the boot receiver makes, without asking for the VPN.
EngageUnprepared ==
    /\ Room(2) /\ leaving < MaxLeaving
    /\ inbox' = inbox \o <<To("vpn", "start"), To("dns", "start")>>
    /\ sticky' = Service /\ pending' = {}
    /\ wanted' = ~Stuck
    /\ UNCHANGED <<prepared, vpnVars, dnsVars, deaths>>

\* Mutant: the VPN is started only if it is not seen running.
EngageIfIdle ==
    /\ Room(2) /\ leaving < MaxLeaving
    /\ prepared' = TRUE
    /\ inbox' = inbox \o (IF vpn.isRunning THEN <<>> ELSE <<To("vpn", "start")>>)
                      \o <<To("dns", "start")>>
    /\ sticky' = Service /\ pending' = {}
    /\ wanted' = ~Stuck
    /\ UNCHANGED <<vpnVars, dnsVars, deaths>>

\* The button "Engage": requestVpn, and startVpnServices once the user agrees.
Engage ==
    /\ Room(2) /\ leaving < MaxLeaving
    /\ prepared' = TRUE
    /\ inbox' = inbox \o <<To("vpn", "start"), To("dns", "start")>>
    /\ sticky' = Service /\ pending' = {}
    /\ wanted' = ~Stuck
    /\ UNCHANGED <<vpnVars, dnsVars, deaths>>

Alive(s) == IF s = "vpn" THEN vpn.alive ELSE dns.alive

\* The user stops a service in the system's list, or revokes the VPN (onRevoke of
\* VpnService stops it): the instance there is, or is about to be, gets a destroy.
UserStops(s) ==
    /\ Room(1)
    /\ s \in sticky
    /\ sticky' = sticky \ {s}
    /\ inbox' = IF Alive(s) \/ Posted(To(s, "start")) \/ Posted(To(s, "null"))
                THEN Append(inbox, To(s, "destroy"))
                ELSE inbox
    /\ wanted' = FALSE
    /\ prepared' \in IF s = "vpn" THEN {prepared, FALSE} ELSE {prepared}
    /\ UNCHANGED <<pending, vpnVars, dnsVars, deaths>>

-----------------------------------------------------------------------------
(***************************************************************************)
(* The main thread.                                                        *)
(***************************************************************************)

Receives(s, w) == inbox # <<>> /\ Head(inbox) = To(s, w)

\* onStartCommand with ACTION_START while isRunning.
StartVpnAgain ==
    /\ Receives("vpn", "start")
    /\ vpn.isRunning
    /\ inbox' = Tail(inbox)
    /\ UNCHANGED <<sysVars, vpnVars, dnsVars, wanted>>

\* startVpn: establish() gives a tunnel, or null when the VPN is not prepared; a
\* task is submitted either way.
OpenTunnel ==
    /\ vpn' = [alive |-> TRUE, isRunning |-> TRUE, open |-> prepared]
    /\ tunnels' = IF prepared THEN tunnels + 1 ELSE tunnels
    /\ pool' = [pool EXCEPT !.queued = @ + 1]
    /\ inbox' = Tail(inbox)
    /\ UNCHANGED <<sysVars, leaving, dnsVars, wanted>>

\* Mutant: no look at isRunning.
StartVpnAnyway == Receives("vpn", "start") /\ OpenTunnel

StartVpn ==
    /\ Receives("vpn", "start")
    /\ ~vpn.isRunning
    /\ OpenTunnel

\* establish() throws: stopVpn, whose stopSelf has the service destroyed, unless this
\* instance is about to be.
StartVpnThrows ==
    /\ Receives("vpn", "start")
    /\ ~vpn.isRunning
    /\ vpn' = [NoVpn EXCEPT !.alive = TRUE]
    /\ IF Posted(To("vpn", "destroy"))
       THEN inbox' = Tail(inbox) /\ UNCHANGED sticky
       ELSE /\ inbox' = Append(Tail(inbox), To("vpn", "destroy"))
            /\ sticky' = sticky \ {"vpn"}
    /\ wanted' = FALSE
    /\ UNCHANGED <<pending, prepared, deaths, tunnels, pool, leaving, dnsVars>>

\* A sticky restart: intent is null, and no branch is for that.
StartVpnNull ==
    /\ Receives("vpn", "null")
    /\ vpn' = [vpn EXCEPT !.alive = TRUE]
    /\ inbox' = Tail(inbox)
    /\ UNCHANGED <<sysVars, tunnels, pool, leaving, dnsVars, wanted>>

\* Mutant: the interface is closed without a look at whether there is one.
DestroyVpnBlindly ==
    /\ Receives("vpn", "destroy")
    /\ vpn' = NoVpn /\ pool' = IdlePool
    /\ tunnels' = tunnels - 1
    /\ leaving' \in (leaving + pool.reading)..(leaving + pool.reading + pool.queued)
    /\ inbox' = Tail(inbox)
    /\ UNCHANGED <<sysVars, dnsVars, wanted>>

\* onDestroy: stopVpn clears isRunning and closes the tunnel, shutdownNow drops what
\* is queued.  A task that reads, or is on its way to, is left to find that out.
DestroyVpn ==
    /\ Receives("vpn", "destroy")
    /\ vpn' = NoVpn /\ pool' = IdlePool
    /\ tunnels' = IF vpn.open THEN tunnels - 1 ELSE tunnels
    /\ leaving' \in (leaving + pool.reading)..(leaving + pool.reading + pool.queued)
    /\ inbox' = Tail(inbox)
    /\ UNCHANGED <<sysVars, dnsVars, wanted>>

\* Mutant: every instance of the service starts an engine.
SpawnEngineAgain ==
    /\ started' = TRUE /\ engine' = "running" /\ threads' = threads + 1

\* startNativeEngine: the flag is taken once per process, and never given back.
SpawnEngine ==
    IF started
    THEN UNCHANGED <<started, engine, threads>>
    ELSE started' = TRUE /\ engine' = "running" /\ threads' = threads + 1

\* Mutant: only a start of the app starts the engine.
StartDnsByIntent ==
    /\ Receives("dns", "start")
    /\ dns' = [alive |-> TRUE, isEngineStarted |-> TRUE]
    /\ IF dns.isEngineStarted THEN UNCHANGED <<started, engine, threads>> ELSE SpawnEngine
    /\ inbox' = Tail(inbox)
    /\ UNCHANGED <<sysVars, vpnVars, wanted>>

\* onStartCommand of DNSService, whatever the intent.
StartDns ==
    /\ Receives("dns", "start") \/ Receives("dns", "null")
    /\ dns' = [alive |-> TRUE, isEngineStarted |-> TRUE]
    /\ IF dns.isEngineStarted THEN UNCHANGED <<started, engine, threads>> ELSE SpawnEngine
    /\ inbox' = Tail(inbox)
    /\ UNCHANGED <<sysVars, vpnVars, wanted>>

\* onDestroy of DNSService: nobody tells the engine.
DestroyDns ==
    /\ Receives("dns", "destroy")
    /\ dns' = NoDns
    /\ inbox' = Tail(inbox)
    /\ UNCHANGED <<sysVars, vpnVars, started, engine, threads, wanted>>

MainThread ==
    \/ StartVpnAgain \/ StartVpn \/ StartVpnThrows \/ StartVpnNull \/ DestroyVpn
    \/ StartDns \/ DestroyDns

-----------------------------------------------------------------------------
(***************************************************************************)
(* The other threads, and the process.                                     *)
(***************************************************************************)

\* A task takes the interface: it reads, or ends in a NullPointerException that
\* its Future keeps to itself.
TakeInterface ==
    /\ pool.queued > 0 /\ pool.reading < 2
    /\ pool' = [pool EXCEPT !.queued = @ - 1,
                            !.reading = IF vpn.open THEN @ + 1 ELSE @]
    /\ UNCHANGED <<inbox, sysVars, vpn, tunnels, leaving, dnsVars, wanted>>

\* "Read error": the loop breaks; the tunnel stays open and isRunning stays TRUE.
ReadFails ==
    /\ pool.reading > 0
    /\ pool' = [pool EXCEPT !.reading = @ - 1, !.failed = TRUE]
    /\ wanted' = FALSE
    /\ UNCHANGED <<inbox, sysVars, vpn, tunnels, leaving, dnsVars>>

\* Mutant: isRunning is one for all instances, and a task that ends clears it.
ReaderLeavesStopping ==
    /\ leaving > 0
    /\ leaving' = leaving - 1
    /\ vpn' = [vpn EXCEPT !.isRunning = FALSE]
    /\ UNCHANGED <<inbox, sysVars, tunnels, pool, dnsVars, wanted>>

\* A task of an ended instance ends: the tunnel it took was closed or its interface
\* is null, or it sees isRunning cleared.  By then another instance may be running,
\* with an isRunning, an interface and a pool of its own.
ReaderLeaves ==
    /\ leaving > 0
    /\ leaving' = leaving - 1
    /\ UNCHANGED <<inbox, sysVars, vpn, tunnels, pool, dnsVars, wanted>>

\* dns_server::run returns, block_on with it; the flag stays.
EngineEnds ==
    /\ engine = "running"
    /\ engine' = "ended"
    /\ wanted' = FALSE
    /\ UNCHANGED <<inbox, sysVars, vpnVars, dns, started, threads>>

ProcessGone ==
    /\ deaths < MaxDeaths
    /\ deaths' = deaths + 1
    /\ vpn' = NoVpn /\ tunnels' = 0 /\ pool' = IdlePool /\ leaving' = 0
    /\ dns' = NoDns /\ started' = FALSE /\ engine' = "none" /\ threads' = 0
    /\ wanted' = FALSE

\* The process dies.
Death ==
    /\ ProcessGone
    /\ inbox' = <<>>
    /\ pending' = {s \in sticky : s \in pending \/ Posted(To(s, "start"))}
    /\ UNCHANGED <<sticky, prepared>>

\* The phone boots: BootReceiver starts both services and prepares nothing (what the
\* system restores of that is its own affair).
Reboot ==
    /\ Room(2)
    /\ ProcessGone
    /\ inbox' = <<To("vpn", "start"), To("dns", "start")>>
    /\ sticky' = Service /\ pending' = {}
    /\ prepared' \in {prepared, FALSE}

\* START_STICKY: the system starts a service again that died with its process.
Revive(s) ==
    /\ Room(1)
    /\ s \in sticky
    /\ ~Alive(s)
    /\ ~Posted(To(s, "start")) /\ ~Posted(To(s, "null"))
    /\ inbox' = Append(inbox, To(s, IF s \in pending THEN "start" ELSE "null"))
    /\ pending' = pending \ {s}
    /\ UNCHANGED <<sticky, prepared, deaths, vpnVars, dnsVars, wanted>>

Next ==
    \/ Engage \/ MainThread \/ TakeInterface \/ ReadFails \/ ReaderLeaves \/ EngineEnds
    \/ Death \/ Reboot
    \/ \E s \in Service : UserStops(s) \/ Revive(s)

Spec == Init /\ [][Next]_vars

\* The main thread handles its messages, the pool runs its tasks, and the system
\* restarts what is sticky.  When a blocked read notices that its tunnel was closed
\* is not promised: nothing of ReaderLeaves.
FairSpec ==
    /\ Spec
    /\ WF_vars(MainThread)
    /\ WF_vars(TakeInterface)
    /\ \A s \in Service : WF_vars(Revive(s))

-----------------------------------------------------------------------------

\* A process runs one engine at most, although its service comes and goes and
\* forgets (isEngineStarted is a field of the instance): two engines would share
\* one config file and two ports.
OneEngine == threads <= 1 /\ (engine # "none" => started)

\* No tunnel outlives its service, none is lost from sight, and no two tasks read
\* one: starts, stops, revocations and failing starts may come in any order, and
\* the task of a tunnel that was closed may end long after the next one is open.
NoStrayTunnel ==
    /\ tunnels = IF vpn.open THEN 1 ELSE 0
    /\ vpn.open => vpn.alive /\ vpn.isRunning
    /\ pool.queued + pool.reading <= 1

Engaged == vpn.open /\ pool.reading = 1 /\ engine = "running"

\* The last message for s that counts is a start: no destroy comes after it.
StartAhead(s) ==
    \E i \in 1..Len(inbox) :
        /\ inbox[i] = To(s, "start")
        /\ \A j \in (i + 1)..Len(inbox) : inbox[j] # To(s, "destroy")

\* The tunnel is open and has its reader, and nothing on the way closes it; or a
\* start is on the way that no destroy overtakes.
TunnelDue ==
    \/ /\ vpn.open /\ pool.queued + pool.reading = 1
       /\ ~Posted(To("vpn", "destroy"))
    \/ ~Deaf /\ StartAhead("vpn")

EngineDue == engine = "running" \/ (engine = "none" /\ Posted(To("dns", "start")))

\* "Shield Engaged" (MainActivity.kt:72), its safety half: from the button on, while
\* nothing has ended the engagement, the tunnel and the engine are there or will be
\* once the messages already posted are handled.  No destroy posted before, no start
\* taken for a repeated one and no task of an older tunnel defeats it.
EngagementStands == wanted => prepared /\ TunnelDue /\ EngineDue

\* "Shield Engaged" (MainActivity.kt:72): engaging a shield that is not stuck
\* opens a tunnel that is read, with the engine running, unless the service is
\* stopped or revoked, establish() throws, a read fails, the engine ends or the
\* process dies.  Nothing else keeps it from that, whatever was posted before.
EngageWorks == wanted ~> (Engaged \/ ~wanted)

\* README.md:35, "crash recovery": after a death the engine starts again by itself,
\* as long as nobody stopped its service.
EngineComesBack == "dns" \in sticky ~> (engine # "none" \/ "dns" \notin sticky)

=============================================================================
