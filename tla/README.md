# PyHoleX: a verification project for the engine

TLA+ models of the PyHoleX engine (`src/rust-dns-engine`) and of what the Android app
(`src/app`) does to it, the TLC runs that check them on small instances, and theorems
that TLAPS checks for every value of the constants. `PROJECT.json` maps each definition
to the lines it models and lists the runs, their mutants, the findings, the hazards and
the theorems.

    tlc -config MCDnsServer.cfg MCDnsServer.tla     # one run
    tlapm DnsServerProofs.tla                       # one proof module

## 1. The system

PyHoleX is a DNS filter on the phone. `DNSService` (a sticky foreground service) calls
`startNativeEngine` through JNI; the engine starts one thread with one tokio runtime and
puts five things on it (`lib.rs`): the control API, the mesh task, an hourly monitoring
task, a daily retention task and the DNS server. They share the rules, an
`Arc<Mutex<Blocklist>>`, and the query log, an SQLite file. The app talks to the engine
over HTTP on `127.0.0.1:8080`; apps talk to it over DNS on UDP 5353. `VPNServiceBridge`, the
other sticky service, opens the tunnel that sends the phone's DNS there. The button "Engage"
and a boot start both services.

| Part | State it keeps | Operations | Hard about it | Correct when |
| --- | --- | --- | --- | --- |
| DNS server, `dns_server.rs` | LRU cache of upstream messages, counters | one task per datagram: judge, log, look for a local mapping, look up, forward, put, send; a per-second reset; `run` returns on a failed bind | two acquisitions of the rule lock per query with a log write between, concurrent misses, rules changing under a query, timeouts upstream | log and answer stem from one verdict; nothing blocked is answered upstream; the cache holds what upstreams answered and nothing of the engine's own, within its bound; every query ends |
| Rule set, `blocklist.rs`, `classifier.rs`, `p2p.rs` | lists, regexes, mappings, gravity domains, nine settings; the config file | `is_blocked`, `resolve_local`, load, save, sync | truncating save, ignored write errors, a silent fallback to the defaults, downloads under the lock | file and memory agree; a change is whole, acknowledged after it is made, and survives a restart |
| Control API, `api.rs` | rate limiter's window | read, edit, restore, sync, log routes | a hang-up drops a waiting handler; a sync is answered before it runs; handlers that are not routed | each request takes effect at most once, before its answer |
| Mesh, `p2p.rs` | seeds that never change | an endless loop, awaited with the rule lock held | the lock is never given back | (it is not: section 6) |
| Query log, `logger.rs` | rows of SQLite | insert, search, statistics, flush, the daily delete | statistics in several statements, ids given again after a delete, a date modifier pasted together, a delete that reads its retention before it runs | a search shows the newest rows; counts disagree by the inserts between them only; old rows go |
| Rate limiter, `api.rs` | one window for all callers | check, before every route | a window opens with a request and not with the clock; refused requests do not count | no second admits more than it may, nobody is refused without cause |
| Start-up, `lib.rs`, `DNSService.kt`, `BootReceiver.kt` | `ENGINE_STARTED`, `isEngineStarted` | start once, sticky restart, boot | process death, instances that forget, a runtime that ended while the flag stays | one engine per process, and it comes back after a death |
| VPN, `VPNServiceBridge.kt` | `isRunning`, the interface, a pool | start, a failing start, destroy; the task that reads | the main thread closes what the task reads; a null interface; a null intent; a stop behind a start | one reader per tunnel, no tunnel without its service, "Engage" engages |
| API client, `DNSManager.kt`, `GravityUpdateWorker.kt` | none | HTTP calls; a periodic sync with retry | an acknowledgement that says nothing of the outcome | not modelled |
| User interface, `native-lib.cpp`, `network_scanner.rs`, build files | preferences | layout, a test whose result is ignored, a constant list, packaging | none here | not modelled |

How the parts meet. Everything that concerns the rules goes through the one mutex, which
tokio serves first come, first served: requests queue for it twice, API handlers once, a
sync for as long as it downloads, the retention task once a day, the mesh task for ever.
The cache has a mutex of its own, never held across an await, and so has the limiter. The log
is written outside all of them, through a connection per call. The config file is written under the rule lock, by synchronous code.

## 2. The modules

    Blocklist ── DnsMessages ─┬─ QueryContract             what a query is promised
        │                     └─ DnsServer ── DnsServerProperties ─┬─ Engine ── MCEngine
        │             FairMutex ──┘   │                            ├─ MCDnsServer
        │                 │           │                            └─ DnsServerProofs ─ DnsContractProofs ─ EngineProofs
        │                 ├───── FairMutexProofs (used by DnsServerProofs, RuleStoreProofs)
        └─ RuleConfig ─┬─ │ ──── RuleContract              what a request about the rules is promised
                       └─ RuleStore ── RuleStoreProperties ─┬─ MCRuleStore ──────┐
                                                            └─ RuleStoreHistory ─┴─ MCRuleHistory
                                                                       └─ RuleStoreProofs
    RateLimiter ─┬─ MCRateLimiter     QueryLog ─┬─ MCQueryLog     AppServices ── AppServicesProofs
                 └─ RateLimiterProofs           └─ QueryLogProofs

| Module | Models | How |
| --- | --- | --- |
| `Blocklist` | `is_blocked`, `resolve_local` | pure operators. A written domain is a record: a clean name, capitals, trailing dot. Regex matches, keywords, the heuristic, the strict-mode test are constant relations on names. |
| `DnsMessages` | questions, answers, replies, rows | values of `handle_dns_request`; `ServerOf` is the fallback of an upstream that does not parse |
| `FairMutex` | `tokio::sync::Mutex` (external) | a queue, its head holds; `Abandon` takes a dropped waiter out of it |
| `DnsServer` | `dns_server.rs` | `pc[q]` is the await or lock point a request's task is at. `held[q]` is what it copied out of the rules. `TakeVerdict` and `ResolveLocally`/`Refuse`/`LetPass` are the two critical sections, `WriteLog` what is between them, `CacheHit`/`CacheMiss` and `PutAnswer` those of the cache, which holds whole replies: one the engine made itself would show. Writers stand for whoever changes the rules. |
| `QueryContract` | the promise | no lock, no cache: judged by the rules of one instant, recorded at the privacy level of that instant, routed by the rules of one later instant |
| `Engine` | `startNativeEngine` | `DnsServer` with the mesh task among the writers, which queues once, never changes a rule and never leaves |
| `RuleConfig` | `BlocklistConfig`, its conversions, what each request makes of the rules | pure operators: `ToConfig`, `FromConfig`, `Load`, `Changed`, `Synced` |
| `RuleStore` | the handlers of `api.rs`, `save_config`, `sync_remote`, process death and restart | a save is two actions, because the process can die between the truncation of the file and its last byte; a sync fetches one URL at a time with the lock held; `HangUp` drops a waiting handler |
| `RuleContract` | the promise | no lock, no file: a request takes effect at most once, is acknowledged only after, and a death settles what comes back |
| `RateLimiter` | `RateLimiter::check`, `limiter_filter` | a check holds its mutex without an await: one action. `check[r]` is what request `r` was told, and when; the code keeps the window only. |
| `QueryLog` | `logger.rs`, the hourly and daily tasks of `lib.rs`, the log routes | each SQL statement is one action. `keeper` is the daily task: asleep, or between its read of the retention and its delete. `stats` is a reply in the making; `drift`, `disturbed` are history. |
| `AppServices` | both services, the boot receiver, the button, `ENGINE_STARTED` | `inbox` is the main thread's queue: what Android posts, in order. Android is external: when it destroys, restarts and revokes is any time. `vpn`, `dns` are the fields of the instances, `pool` the executor, `engine` the native thread. A destroy closes the tunnel under the task that reads it; the task is then one of `leaving`, and ends in a step of its own (`ReaderLeaves`), before or after the next instance has opened the next tunnel. |
| `RuleStoreHistory` | what was acknowledged, and what the file is worth | `RuleStore` with three history variables, which see every step and decide none: `behind` (a write failed, none has succeeded since), `lost` (a death with the file behind or torn), `standing` (the edits no other request overrules). The refinement mapping to `RuleContract` uses `behind`. |
| `*Properties` | properties and refinement mappings | |
| `MC*` | the instances for TLC | |
| `*Proofs` | the theorems; `FairMutexProofs` has the queue lemmas that the server and the store share | |

`RuleStore` is the control API at work, as the standalone binary `main.rs` runs it. In
`startNativeEngine` the mesh task takes the lock soon after the start and then no handler
gets any further: that is what `Engine` shows (`FrozenBehindMesh`), so everything said of
`RuleStore` holds there of the time before.

Names of the code are kept where TLA+ allows it (`ToConfig` for the construction in
`save_config`, `Held` for the tuple `handle_dns_request` copies out).

## 3. The runs

Deadlock checking is off everywhere: requests are one-shot, and the server may be down,
so a run ends in states with no step left. Progress is what the liveness runs are for.

| Run | Bounds | States | Shows |
| --- | --- | --- | --- |
| `dns_safety` | 2 requests for 2 names, 1 writer, 4 rule sets, cache of 1 | 288 thousand | `LockDiscipline`, `CacheIsUpstreams`, `LogAgreesWithAnswer`, `LookupsCountedOnce`, and the refinement `KeepsContract` |
| `dns_cache` | 3 requests, 3 spellings, 2 record types, cache of 2 | 457 thousand | `CacheIsLru`, `OtherTypeWasAskedFor` |
| `dns_liveness` | 2 requests, 2 writers | 77 thousand | `EveryRequestEnds` |
| `dns_anonymous` | 2 requests, 1 writer | violation | the level Anonymous keeps the client's address |
| `engine` | 2 requests, 1 API task, the mesh task | 77 thousand | `MeshKeepsTheRules`, `FrozenBehindMesh`, `PastFilterEnds` |
| `engine_mesh` | the same | violation | with the mesh task a request waits for ever |
| `rule_store` | 3 calls of 11 kinds, 2 lists, 2 deaths, 1 failed write | 515 thousand | `FileFollowsMemory`, `StoreLockDiscipline`, `AckedEditsHold`, and the refinement `KeepsRules` |
| `rule_liveness` | 3 calls of 5 kinds, 1 death | 47 thousand | `HeldUpByFetchOnly` |
| `rule_crash` | the same | violation | a saved and acknowledged whitelist entry is lost |
| `rate_limiter` | 6 requests, windows of 2 requests and 2 ticks, 8 ticks | 6 thousand | `SlidingBound`, `RefusedOnlyWhenBusy` |
| `query_log` | 2 rows at a time, days of 2 ticks, 6 ticks, retentions -1, 0 and 1 | 3.1 million | `SearchShowsNewest`, `RepliesDriftByInsertsOnly`, `RowsExpire` |
| `app_services` | 6 messages, 2 deaths or boots, 2 tasks of closed tunnels | 23 thousand | `OneEngine`, `NoStrayTunnel`, `EngagementStands`, `EngageWorks`, `EngineComesBack` |

Why these bounds are enough to be worth running. Two requests and a writer are the least
that shows each race: a change between the two acquisitions of one request, a request
that overtakes another at the cache. The four rule sets differ in what each later step
reads: listed or lifted, mapped, blacklisted, the three privacy levels, the three kinds of
upstream. A cache of one with two names evicts; a cache of two with three keys evicts with
a choice of victim. Three calls allow one that holds the lock, one that waits and one that
arrives, hangs up or syncs; among the eleven kinds is a removal that overrules an addition,
so an acknowledged edit is met by one that does and by ones that do not. Two deaths allow a restart from what a restart left behind; one
failed write is what separates the memory from the file, and the save after it what joins them again. Six requests of a limit of two are
two full windows and a refusal in each, and eight ticks hold two windows wherever they begin.
Two rows are a row left out by a search or a row that outlives a delete; six ticks are three
days, one to be late in, one to recover and one to be held to the promise. Six messages are
three engagements, or two with stops and restarts between them. Each property has a mutant, a
plausible bug put into one definition, with which its run fails: the bounds are large
enough to tell.

Symmetry is used for requests and calls only, in the runs without liveness: no definition
tells them apart.

Bounds in the guards: `MaxDeaths` and `MaxErrors` in `RuleStore`; `Horizon`, the last tick of the
clock, in `RateLimiter` and `QueryLog`; `MaxRows` and `MaxDrift` in `QueryLog`; `MaxInbox`,
`MaxDeaths` and `MaxLeaving` (nobody engages while so many tasks of closed tunnels have not ended) in `AppServices`. Everything else is finite
by its constants: a request is asked once, a call made once.

## 4. Fairness

- `WF(TaskStep(q))`: tokio polls every task that can run, and an upstream exchange ends by
  its own timeout (2 s over UDP, 3 s over DoH), so `Forward` or `ForwardFails` happens.
- `WF(ChangeRules(w))`: a writer's critical section has no await. (A sync is a holder that
  can await for ever; that is the subject of `RuleStore`.)
- `WF(MeshQueues)`: the mesh task is polled; nothing makes it leave.
- `WF(CallStep(c))` in `RuleStore`, without `Fetch`: `reqwest::get` has no timeout, so no
  fairness is assumed of a download, and `HeldUpByFetchOnly` says exactly that downloads
  that end are needed. No fairness of arrivals, hang-ups, deaths or restarts.

- `WF(MainThread)`, `WF(TakeInterface)` in `AppServices`: the main thread handles what is
  posted to it, and the pool of two runs a task that is queued.
- `WF(Revive(s))`: `START_STICKY` asks the system to start a service again; a system that never
  does, or that is always short of memory, is outside the model. No fairness of users, boots,
  deaths, failing reads or an engine that ends, and none of `ReaderLeaves`: when a read notices that
  its tunnel was closed is Android's affair.
- `RateLimiter` and `QueryLog` are about what must not happen: no fairness, the clock included.

A task queues for the lock once per wait and the queue is first come, first served; weak
fairness is enough because a holder stays the holder until it takes its step.

## 5. What is proved

For any sets of requests, writers, names, rule sets, calls, lists and backups, any
capacity of the cache, any number of deaths and failed writes, any limit and length of a
second or a day, any retentions, any number of messages:

| Theorem | Says |
| --- | --- |
| `DnsServerProofs!Invariance`, `TypeCorrectness` | the inductive invariant and the types of the DNS server |
| `CacheHoldsUpstreamsOnly`, `LogAndAnswerAgree`, `LockIsDisciplined` | the safety properties of `dns_safety` |
| `DnsServerProofs!CacheStaysLru`, `LookupsAreCountedOnce`, `OtherTypesWereAskedFor` | the cache, its counters, and where a wrong-type answer comes from |
| `DnsContractProofs!ServerKeepsContract` | `DnsServer` implements `QueryContract` |
| `EngineProofs!EngineImplementsServer`, `EngineKeepsContract`, `MeshFreezesRules` | the engine adds no behaviour to the server; once the mesh task holds the lock it holds it for ever, and rules and waiting requests stay as they are |
| `RuleStoreProofs!StoreInvariance`, `StoreTypeCorrectness`, `StoreLockIsDisciplined` | the invariant of the rule store, its types, who is in the queue of its lock |
| `RuleStoreProofs!HistoryImplementsStore`, `HistoryInvariance` | the history adds no behaviour, and its inductive invariant |
| `RuleStoreProofs!FileIsFaithful`, `AcknowledgedEditsHold`, `StoreKeepsContract` | file and memory agree; what was acknowledged stays in force until it is overruled; `RuleStore` implements `RuleContract` |
| `RateLimiterProofs!LimiterInvariance`, `LimiterTypeCorrectness`, `SlidingSecondIsBounded`, `RefusalsAreEarned` | the limiter |
| `QueryLogProofs!LogInvariance`, `LogTypeCorrectness`, `SearchesShowNewest`, `RepliesDrift`, `OldRowsExpire` | the query log |
| `AppServicesProofs!ServicesInvariance`, `ServicesTypeCorrectness`, `OneEnginePerProcess`, `TunnelsAreHeld`, `EngagementsStand` | the services' safety: one engine, no stray tunnel, and an engagement that no earlier message defeats |

The arguments.

- *DNS server.* The types are not inductive: a task uses the question it decoded and the
  answer it got several steps later. `IInv == TypeOK /\ Phases /\ CacheIsUpstreams`, where
  `Phases` says what a task carries at each point (a question from the verdict to the put,
  no reply before the put, no row before the log) and `CacheIsUpstreams` what a hit
  returns: each cached message has a voucher, an unblocked request for that name that got exactly
  this reply from the upstream its verdict named. A request that has a reply is touched by nothing
  but its own put and send, so it vouches for ever (`VouchingLasts`), and `PutAnswer` adds a voucher
  with the message (`PutStoresAnswer`). A reply the engine made itself can have none. The further properties are proved relative to `IInv`, each with the link it
  needs: `VerdictsRule` (row and reply both follow `held[q]`), `Counters` (each counter is
  the size of a set of requests), `Sourced` (each message answers a question that was
  asked), and for the lock the lemmas of `FairMutexProofs` (a join queues once, a leave and an
  abandon take out exactly one, and none of them but the holder's leave changes the holder).
- *Cache.* `Touch` keeps recency a strict total order of the keys kept
  (`TouchOrders`); at capacity a put drops one key before it adds one
  (`PutStaysWithinCapacity`).
- *Engine.* Every step of `EngineNext` is a step of `Next`, so the server's safety
  theorems carry over. While the mesh task is the head of the queue nobody else can
  `Leave`, and every change of the rules and every verdict does: `StepsBehindMesh` says so of
  one step. `FrozenBehindMesh` is what follows for ever: the lock stays with the mesh task, whatever
  the rules were then they remain, and a request at either of its two lock points stays there.
- *Rule store.* `SInv == StoreTypeOK /\ Requests /\ SyncFinds /\ TornWhileSaving`.
  `Requests` says that whoever fetches or saves holds the lock, so there is one such
  request at most (`HolderIsAlone`), and with the queue lemmas that the queue holds exactly the
  requests that wait, sync or save (`StoreLockDiscipline`); `SyncFinds` that a running sync has
  found only what lists *still* registered served, which holds because it keeps the lock across
  its awaits. `Reload` is the data lemma: what `save_config` writes loads as the store without
  its gravity domains; it needs that no expression in force fails to compile.
- *File and memory.* That loading the file gives the rules in force is false while a failed write
  has not been made good. `behind` says exactly when that is, so `FileFollowsMemory` holds
  through any number of failures: a write that succeeds writes the whole store, whatever the file missed before.
  In the refinement an edit takes effect when `Edit` changes the memory, a sync when `EndSync`
  does, and a death settles what comes back: `Load(file)`, which `FileFollowsMemory` ties
  to the rules in force. The contract's `sound` is `~behind`, or a save under way.
- *Acknowledged edits.* `AckedEditsHold` is not inductive: an edit is in force from the moment its
  save begins, and acknowledged only after. `HInv` therefore has `EditsHold` for both phases,
  `Stands` for the edits in `standing` (no request that overrules one is under way: the guard of
  the next change), and `DownIsSettled` (a death decides at once whether the file was behind).
  Two lemmas are about the data: an edit of another entry or another list leaves this one in
  force, and so do a sync and a restart, which touch domains and a time only
  (`DomainsDoNotMatter`). The rules meant are `RulesToBe`, so the theorem spans deaths: what was
  acknowledged before one is there after it.
- *Rate limiter.* That a sliding second is bounded is not inductive. `WindowCounts` makes it
  so: the window counts whom it admitted, the request that opened it among them, and the
  second before it opened admitted *less* than the limit, since it lies within the window
  before and does not reach back to the request that opened that. Hence `2 * Limit - 1`.
- *Query log.* `IdsFollowTime`: ids may be given again, and still a larger id is never an older
  row, because the next id is above all that are there. `StatsDrift` bounds what the next
  statement of a reply may find. `KeeperKeeps` says of a task that sleeps undisturbed that it
  purged with the retention in force.
- *Services.* The flag counts the threads (`EngineInv`), the service instance holds the only
  tunnel (`TunnelInv`), and the pool has work for a running service only (`PoolInv`).
- *Engagement.* `EngagementStands` is the safety half of `EngageWorks`: what liveness then adds is
  only that messages are handled and tasks run. It is a statement about the order in the inbox: the
  last VPN start has no destroy behind it, or the service runs and no destroy is on the way.
  `InboxGrows` and `InboxShrinks` say what a post at the tail and a message handled at the head leave of that. It needs
  that an open tunnel has its one task unless a read failed (`WorkInv`), that an instance of
  `DNSService` believes only in an engine that was started (`BelievesRightly`: otherwise the awaited
  start would start nothing), and that an engaged shield is not `Stuck`.

Assumptions: only those on the constants (`NameAssumption`, `MessageAssumption`,
`ServerAssumption`, `MeshAssumption`, `ConfigAssumption`, `FileAssumption`,
`StoreAssumption`, `LimiterAssumption`, `LogAssumption`, `ServiceAssumption`), which TLC evaluates in the runs. The finiteness of the sets of
requests and domains is one of them. `QueryLog` takes the clock to be monotone: with one that
is set back, ids and times need not agree.

Only model-checked: liveness (`EveryRequestEnds`, `MeshKeepsTheRules`, `PastFilterEnds`,
`HeldUpByFetchOnly`, `EngageWorks`, `EngineComesBack`), because TLAPS does not reason about fairness and `ENABLED`.
What these rest on that is safety is proved: the discipline of both locks for the first and the fourth,
`FrozenBehindMesh` for the second, `EngagementStands` for the fifth. `AckedRulesSurvive` is false
of the code (section 6), as are the other two that runs refute.

## 6. What was found

1. **The mesh task stops the engine** (`engine_mesh`). `lib.rs:66-69` locks the rules and
   awaits an endless loop with the guard alive. From the moment it gets the lock no DNS
   query is judged and no handler answers. `MeshFreezesRules` proves that nothing undoes it.
2. **Anonymous logging keeps the client's address** (`dns_anonymous`). README.md:65
   promises to mask client IDs; `dns_server.rs:124-125` masks the domain only.
3. **A death during a save loses every rule** (`rule_crash`). `fs::write` truncates the
   only copy (`blocklist.rs:131`), and a file that does not parse is silently replaced by
   the defaults (`blocklist.rs:83`, `107-110`). The smallest behaviour: a whitelist entry is added
   and acknowledged, a second change begins its save, the process dies, the new one starts
   from the factory settings. `AcknowledgedEditsHold` is the other side: that death, and one
   before a failed write has been made good, are the only ways to lose an acknowledged edit.

Met while modelling, and not findings of a run: `profile` and `privacy` are built and not
routed, and the upstream the app sets has no handler (`CallUnrouted`: such a request is
answered `not_found`, where the contract only asks that it change nothing); a sync whose
downloads all fail empties the gravity lists and stamps `last_sync`; `last_sync` survives a
restart that the gravity domains do not; `main.rs` calls functions the library does not
define. They are among the hazards in `PROJECT.json`.

Of the parts around the engine:

- The level Ghost, by README.md:66 without statistics, still counts a query in the metrics that
  `/stats` shows (`dns_server.rs:67`); only the log is skipped.
- A shield can be stuck. After a boot that was not prepared, or a read error,
  `isRunning` is true with no tunnel or no reader, and every later start returns at its first
  line; an engine that has ended keeps its flag. Only the end of the service, or of the process,
  helps. `EngageWorks` names these states (`Stuck`) and holds of all others.
- Stopping `DNSService` does not stop the engine, and nobody sends `ACTION_STOP`.
- After a death the engine comes back by itself and the tunnel does not: the sticky restart
  has no intent for it.
- The daily delete needs the rule lock, so behind the mesh task it never runs again.
- Two windows of the limiter meet in one second: 199 requests, where one would read 100.
- A negative retention keeps every row; a retention of 0 deletes all rows older than the second, once
  a day.
- An entry with a trailing dot, or with capitals in a restored backup, is never found; `AckedEditsHold`
  excepts the first and says of a restore only that the config itself is in force.

## 7. What the models leave out

- Sizes, wording, latencies, the A record's TTL: no property is about them.
- Vectors of URLs and expressions are sets, their order decides nothing. A sync fetches
  its URLs in any order: what it finds is a union.
- The nine fields only a restore writes are one value, `settings`, in `RuleConfig`;
  `Blocklist` has those a query reads one by one.
- Upstreams. `Forward` lets the server that was asked answer, about the name and the type it was
  asked. That is an assumption about the environment: `forward_query_udp` takes the first datagram
  its fresh socket receives, drops the sender and compares neither the id nor the question
  (`dns_server.rs:174-176`), and `forward_query_doh` takes any body that decodes. `OtherTypeWasAskedFor`,
  and in `CacheIsUpstreams` *what* the message says, rest on it; that a cached message passed the
  filter, came in by an exchange and was not made by the engine does not.
- Time: timeouts are steps that may happen, recency is an order.
- A death kills the process at any step; during a save it leaves the file torn, or whole
  with the answer unsent. The power-loss order of blocks on the disk is not modelled.
- A torn file is one that does not parse. A prefix of pretty-printed JSON never does.
- The first start: no config file. The engine then meets files of its own only.
- SQLite is a row per request; a failed insert is a step that leaves none.

- A process of the app is one process: services, engine and pool die together. The order
  in which Android handles messages for one service is the order they were posted.
- A tunnel is open or not; what flows through it, and the battery, are not modelled. A read
  that blocks for ever on an idle tunnel is a reader that does its work.
- The columns `reason`, `category`, `client_ip` and `app_package` of a log row: no statement
  treats them differently from the name and the flag that are there. SQLite's busy errors are
  a statement that did not happen.

## 8. Not modelled

- *Rules and queries in one state space.* `DnsServer` has writers that change the rules while
  they hold the lock, `RuleStore` says what they change: that a change is whole and made by the
  holder is `KeepsRules`, all that `DnsServer` assumes. For the lock, the two acquisitions of a
  query are two `read` requests of `RuleStore`, so `HeldUpByFetchOnly` speaks of queries behind
  a download too. What the product would add, the verdict under one store and the mapping
  under the next, `DnsServer` has with its rule sets.
- *`main.rs`*: the server and the API without the mesh task are `DnsServer` and `RuleStore`
  themselves; its start calls functions the library lacks.
- *API client.* `DNSManager` has no state. `GravityUpdateWorker` is one call; its answer is
  given before the sync runs, so neither outcome of the worker says anything of the lists.
- *User interface, settings*: layout and single assignments. *Packet inspection*: a test on one
  header whose result its caller ignores. *Network scanner*: a constant list, whatever is on the network.
  *Build files*.
