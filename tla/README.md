# Verification of session-node

TLA+ models, TLC checks and TLAPS proofs for the repository: the **manager** that samples,
shows and controls Session nodes, the **dashboard** that shows it, the **node container** it
controls, and the **host scripts** that onboard a node, connect nodes to the L2 proxy and open
their firewall. Line numbers refer to the source tree, for example
`manager.py:549` for `src/manager/manager.py`, line 549.

## 1. The system

| Part | Source | State it keeps | Operations |
| --- | --- | --- | --- |
| Collector: cache, requests, landing | `manager/manager.py:353-617, 884-930, 1054-1085` | `entries` (epoch, pending, attempt, data), `forced`, `running`, `excluded`, tickets; all under `Collector.lock` | `plan`, `step`, `run`, `abandon`, `request`, `invalidate`; from handlers `power`, `refresh`, `refresh_peer`, `relay` |
| Collector: schedule | `manager.py:470-487, 529-548, 591-602` | `due`, `order`, `origin`, `wake` | `stagger`, `next_slot`, `step`, the cooldown of `request` |
| Probe and sync memory | `manager.py:232-350, 757-870` | remembered sync progress, probe locks | `problems`, `assess`, `sync_state`, `probe`, `forget_stale` |
| Mesh | `manager.py:643-697, 893-915, 1054-1085` | the hub's entry for each peer | `fetch_peer`, `relay`, the merged view with added ages |
| Dashboard client | `manager/app.js` | refresh generation, `busy`, pending marks | `refresh`, `tick`, `power`, `runAction`, `settlePending` |
| Node supervisor | `entrypoint.sh` | `pids`, pid files, exit status | start in order, wait, TERM and INT traps, bounded stop |
| Health check | `healthcheck.sh` | none; reads the pid files | one check |
| Firewall transaction | `scripts/node_firewall.py` | `added`, `removed`, `positions`; the rules are UFW's | plan, recheck, add, remove, roll back |
| Onboarding transaction | `scripts/node_onboarding.py`, `onboard-node.sh` | staged files, `installed`, `replaced`, a backup, the lock | prepare, stop, back up, install keys, replace files, roll back |
| L2 proxy setup | `configure_l2_proxy.py` | the override file, the allowlist, the lock it shares with onboarding | discover, bootstrap, write, restart |
| HTTP layer and configuration | `manager.py` (top and bottom) | none that changes | routing, authorization, validation |
| Images, Compose files, CI | `Dockerfile`, `docker-compose.yml`, `.github/` | none | build and deployment |

**How they interact.** HTTP handler threads and the one collector thread share the collector's
state under a single lock. Everything slow happens outside it: listing containers, acting on
Docker, probing a node, asking a peer. A handler waits for a sample through a *ticket*. A hub
manager relays an action to the peer that owns the node and refreshes its copy of that peer.
The browser polls the manager's JSON and re-renders. The manager acts on a node through Docker,
whose stop is a TERM to `tini` and so to `entrypoint.sh`; Docker runs `healthcheck.sh` beside
it, and its restart policy reacts to the exit status alone. Onboarding and the L2 setup write
the same directory under `.l2-setup.lock`; the firewall helper has a lock of its own, and
neither lock binds the user or the administrator.

**What is hard.**

- *Stale results.* A sample takes up to minutes. While it runs, its node may be restarted, its
  container recreated, its service removed, or the layout of the schedule changed.
- *Interleaved plans.* Handlers run `plan()` as well as the thread, and apply listings that were
  taken in another order.
- *Tickets handed over.* An outdated sample passes its waiters on to a newer ticket, which may be
  outdated in turn; a waiter must be neither lost nor kept waiting for ever.
- *Clock arithmetic.* Slots, overruns and new layouts: off-by-one, double slots, starvation.
- *Signals and forks.* A trap runs between any two commands of the shell script; pid files survive
  a restart of the container.
- *Caches behind caches.* A row of the dashboard has come through the peer's cache, the hub's cache
  and the page; requests cross, answers are lost, managers restart.
- *Transactions without a database.* Firewall, onboarding and L2 setup change outside state step by
  step, any step may fail or be interrupted, and someone else edits the same state meanwhile.

**What makes each part correct.**

- Collector: every waiter is on exactly one live ticket of its own key; pending means a sample is
  coming; a result lands only in the entry it was taken for; an action is answered with a sample
  taken after it; managers are never sampled; every new container is sampled in the end.
- Schedule: even slots, one key each; missed slots skipped; no node misses a round that nothing
  has disturbed.
- Supervisor: no service killed without a TERM first; a failure that the shell sees ends the run,
  and is reported as a failure; the health check misses no dead service and does not fail a node
  for synchronizing.
- Firewall: a complete rollback restores the rules; success means exactly the needed ones; a rule
  the node keeps is never out of force, and a replaced one only while a rollback swaps it back;
  nobody else's rule touched.
- Onboarding: no foreign key replaced; nothing overwritten without a copy; a failed run leaves the
  configuration as it was; a saved one is complete.
- Probe and sync memory: a sync is not shown as going on when it has long ended, a busy node is
  not an alarm, a registered node that may be decommissioned is one, also where a sample changes
  the memory and is then discarded.
- Mesh and dashboard: what is shown after an action is the node after the action, or says that it
  is not; nothing shown goes back in time; every change is shown in the end.
- L2 setup: a node sent through the proxy is let in by it; no run takes that from a node that has
  it; success is complete; an unchanged deployment is left alone.

## 2. The modules

Each component has a module with its state, actions and properties, an `MC` module that TLC runs,
and where there are theorems a module of proofs. PROJECT.json maps every definition to the lines
it stands for. An operator whose comment starts with "Mutant" is not part of the model: it is a
plausible bug, substituted for the definition after it to see that a property notices.

### Collector (`Collector`, `MCCollector`; proofs `CollectorProofs`)

Each section under `Collector.lock` is one action, and each step outside it is another:

| Code | Actions |
| --- | --- |
| `plan()`: listing, then the lock | `PlanList`/`PlanFail`, `PlanApply` for the thread; `HandlerPlanList`, `HandlerPlanFail`, `HandlerPlanApply` for a handler. `Apply` is the locked part, `Snapshot` the unlocked inspections |
| `step()`: pick, sample, land | `PickForced`, `PickDue`, `NothingDue`; `Observe` (the probe, and the unlocked read of `entry.container_id` at 552); `LandCurrent`, `LandOutdated`, `LandForgotten` |
| `run()`, `abandon()` | `Wake`, `Abandon` |
| `power()`, `refresh()`, `refresh_peer()`, `relay()` | `Locate`, `Invalidate`, `Act`, `ActFails`; `Refresh`; `Relay` |
| `request()` and `Ticket.wait` | `Check` (is the key known, else plan), `AskNotFound`, `AskTooSoon`, `Ask`, `Timeout` |
| Docker (external) | `CreateContainer`, `RemoveService` |

`forced`, a dict whose order matters, is the set `forced` with its order `ahead`. `waiters[k]` is
the set of handlers that will return when the forced ticket of `k`, or one that follows it,
resolves. `changes` and `goal` are ground truth: how many actions have changed a node, and which
count the handler's own action brought it to. A sample `seen` the count at the moment it looked.

Abstractions: a due time is "past" or not, and a key that is not due may become due at any step
(`Schedule` has the clock); the cooldown may or may not have passed; the role of a container is a
property of the container (`ManagerIds`), so reading it with the listing is the same as reading it
after; removal of a service makes a probe fail. `stop()` and the rendering of views change nothing
here and are left out.

`CacheContract` says what the cache promises to its readers and to those who wait, without
threads, tickets, epochs, queue or schedule: a view never goes back in time, and a waiting handler
is answered with a sample from after its action, with a failure, with a view that is pending again,
or because its key is gone. `CollectorRefines` maps the collector to it (`ShownView` is
`describe()`, `Promised` what a waiting handler was promised), and `KeepsContract` is the
refinement, checked as a property of the run `collector`. The contract had to allow for one thing
the code does not exclude, a *stray* sample (finding 1).

### Probe (`Probe`, `MCProbe`; proofs `ProbeProofs`)

One sample, from the choice of the container (`Pick`) over its details (`Details`) and its
inspection (`SampleStopped`, `SampleRunning`, `SampleFails`) to its end: `inspect()` writes the
memory (801-821) before `step()` looks at the epoch, so the view of an inspection lands (`Land`) or
is discarded as outdated (`Discard`), and the memory is changed in either case. `last` is the view
of the last inspection, `shown` the row of the cache. Which samples are outdated is `Collector`'s;
here any may be. `SyncState` is `_sync_state`: RPC, else a fresh log line, else memory. `Assess` is
`assess`, `Problems` is `problems`. Heights are three distances (`gap`), ages are ticks, and
`farAge`, `lastAge`, `raced` are history. What the probe gets to see (`Sees`) is chosen anew in each
sample: RPC, target, service node status, log. Docker, oxend and the handlers' plans
(`HandlerLists`, `HandlerForgets`) go on during a sample; the clock does not, a sample being limited
to 40 s. A probe that was skipped or killed sees nothing at all.

### Mesh and dashboard (`Fleet`, `MCFleet`; proofs `FleetProofs`)

A node on a peer, the peer's cache, the hub's copy of it, and a dashboard of the hub. The two
caches do here what `CacheContract` says: `floor` is the change the next sample to land has seen at
least, since it began after (`PeerActs`, `PeerAsks`, `PeerLands`). A view is the sample it is of
(`seen`) and whether it is shown without a tag (`sure`: not pending and not failed, on the peer or
on the hub). Each sample, scheduled ones included, tags the view while it is under way
(manager.py:546, shown as "updating…", app.js:232): `PeerBegins`, and `PeerReads` for a fetch of the
hub. `Click`, `PeerActs`, `PeerAsks`, `Refetch`, `Reload` follow one action through
`runAction`, `relay`, `power` and back; `PeerReads`, `FetchLands` are `fetch_peer`; `Requests`,
`HubReads`, `ReadLands`, `ReadFails` are `refresh()`, whose `generation` is kept as the one bit that
matters, whether a request is the newest. Answers are lost (`AnswerLost`), samples, fetches and
reloads fail, and either manager restarts with an empty cache. The stray sample of finding 1 is not
in this model: its node is one that is not dropped from the peer's list.

### Schedule (`Schedule`, `MCSchedule`; proofs `ScheduleProofs`)

The same thread with a discrete clock: `Slot` and `SlotAfter` are `next_slot`, `Apply` is the locked
half of `plan()` and contains `stagger`, `Tick` lets time pass only where the code spends it (in a
sample, or in `wake.wait`), and `HostStalls` jumps over it. The thread plans at the start of each
round (`Plan`); the handler of a request for a name that is not known plans first (498-500), at any
moment (`HandlerPlans`), and its request is then a step of its own (`Request`). `forced` and `ahead`
are the queue, as in `Collector`; an epoch is kept as the one bit that matters, `outdated`: whether
that of the running sample has moved (for a key that was dropped and listed again meanwhile, either
may be the case: finding 1). `landed`, `calm` and `load` are history. Every sample takes at most
`MaxSample` unless the host stalls.

### Supervisor (`Supervisor`, `MCSupervisor`; proofs `SupervisorProofs`)

`pc` is the line the shell script is at. `Fork` and `Track` are separate since bash runs a pending
trap between `"$@" &` and `pids+=($!)` (131, 217-221). `Truncate` and `Publish` are the two
effects of `printf > file`. `Trap` needs a pending `term`; `WaitReturns` is `wait -n`. A service that
ends has exited ("own") or was killed by a signal: a job killed by a signal before `wait -n` begins
is one the shell, which is not interactive, may report between two commands and take off its job
table (`Forget`), and `wait -n` leaves out a pid that is not there (`Ended`). The health
check is a second process: it chooses its file (`CheckBegins`), reads it (`CheckPids`), then asks
oxend (`CheckRpc`). `Restart` starts the container again with the files that are left. The
100 attempts of `stop_services` are `Attempts`; that they fit in Docker's grace period of
120 s is an assumption about time that is not modelled.

### Firewall (`Firewall`, `MCFirewall`; proofs `FirewallProofs`)

`rules` is UFW's list, one rule per identity (all but action and comment). The helper's commands
are `Snapshot` (positions are taken), `Recheck`, `Allow`, `Delete`, and for the rollback `Unadd` and
`Unremove`; `Fails` is a command that raises before or after its effect. `AdminEdits` may change
any rule between any two of them, and `edited` remembers since which look of the helper. UFW
itself is external and modelled as the helper uses it: `allow` replaces a rule of the same
identity in place, `delete` needs the very rule, `insert` skips an identity that is there and may
refuse a position past the end. The lists the script works through are kept as what decides their
order: `additions` and `added` are sets of identities, numbered in the order of `desired_rules`, and
`removals` maps places of the plan's listing to rules. A helper that was killed leaves rules that are an initial state.

### Onboarding (`Onboarding`, `MCOnboarding`; proofs `OnboardingProofs`)

`apply()` from the lock to the end. Creating a key and recording it (350, 351), replacing a file
and recording it (356, 357) are separate actions. `Fails` is an operation that raises, `Interrupt`
a `KeyboardInterrupt`, which Python raises between any two steps; both go to the rollback
(`UndoKey`, `KeysUndone`, `UndoFile`, `Undone`), where `UndoFails` ends it half done. `UserEdits`
and `KeyAppears` happen at any time, `L2SetupSaves` only while the lock is free. The checks of the
settings are one refusal; the wizard that collects the answers is left out.

### L2 setup (`L2Setup`, `MCL2Setup`; proofs `L2SetupProofs`)

`setup()` under the lock: `Begin` (checks, participants, the reduced copy of the override),
`StartProxy`, then for each node `ReadKey`, or `Bootstrap` and `AwaitKey`, then `Save`, `ApplyProxy`,
`ApplyNode`, `Succeed`; `Fail` at any place leaves what is done. A key is a node and the number of
its identity. Compose (external) replaces a container when its configuration differs, so a
container is its `mode` and the identity it started with. Around it act the onboarding (as one step
under the same lock; `Onboarding` has its parts), `docker compose up`, the dashboard's starts and
stops, and the user who removes a node, returns to direct RPC or writes an override. `misread`,
`outdated`, `restarted`, `calm`, `silent` and `settled` are history.

## 3. The runs

| Run | Checks | Instance |
| --- | --- | --- |
| `collector` | `TypeOK`, `WaiterHasOneTicket`, `PendingMeansWork`, `ManagersNeverSampled`, `AnsweredIsFresh`, `WaitersReturn`, `KeepsContract` | 1 service, 2 containers of which number 2 is a manager, 2 handlers, 2 requests, 1 fault; 610 thousand states |
| `collector_live` | `QueueConsistent`, `EveryContainerIsSampled`, `LandedIsCurrent` | 1 service and 1 peer, 2 containers, 1 handler, 1 request, 1 fault; 459 thousand states |
| `collector_shown` | finds `ShownIsThisContainer` violated | finding 1 |
| `collector_action` | finds `NothingLandsFromBeforeTheAction` violated | finding 2 |
| `schedule` | `TypeOK`, `SlotKept`, `NoCatchUp`, `NeverStaleWhileQuiet` | 2 services, interval 6, 15 ticks, 1 change, 1 request, 1 stall, 1 failure, any number of plans by handlers; 12 million states |
| `supervisor` | `TypeOK`, `TrackedStopGracefully`, `FailureIsReported`, `HealthyIsTrue`, `SyncIsHealthy`, `SeenFailureEndsTheRun` | node of 4 services or of 1, 2 starts, 1 health check; 856 thousand states |
| `supervisor_forgotten` | finds `FailureEndsTheRun` violated | finding 3 |
| `firewall` | `TypeOK`, `RollbackRestores`, `UpdateIsComplete`, `NoGap`, `OthersKept` | every list of at most 3 rules, every set of needed ones, 2 faults, 1 edit; 297 thousand states |
| `onboarding` | `TypeOK`, `FailureChangesNothing`, `SavedIsComplete`, `KeysNeverReplaced`, `NothingLost` | 2 faults, 2 edits, 1 interrupt; 596 thousand states |
| `probe` | `SyncIsRecent`, `BusyIsNotBroken`, `AttentionKept` | 2 containers, a log line fresh for 2 ticks, a memory of 3; 4.9 million states |
| `l2setup` | `RewiredIsAllowed`, `NeverLocksOut`, `SuccessIsComplete`, `UnchangedIsNotRestarted` | 2 nodes, 1 manual key, 2 identities, 3 runs, 4 events; 1.7 million states |
| `fleet` | `SettledIsFresh`, `RowNeverGoesBack`, `ShownInTheEnd` | 2 actions, 2 reloads in flight, 1 fault; 1.9 million states |

**Why the bounds are enough.**

- *Collector.* Services interact only through the queue and the thread, which `collector_live`
  shows with two keys; the epochs, the tickets and the plans are per service. In `collector`, one
  service that is recreated (as a manager), two handlers with a request each (both may act, join or
  plan) and one round that dies meet every pair of steps: a sample that is outdated while somebody
  waits for it, its waiters handed over to a newer ticket, dropped with the service, or released by
  `abandon()`. A service that is recreated as another node, and two handlers with it, are in the
  theorems, which remove all the bounds for the safety properties; with `LandedIsCurrent` and the
  two keys it is in `collector_live`, where no container is a manager and there is a single request.
  No symmetry is used, as liveness is checked in both. `KeepsContract` says what a waiter may be
  told, not who is told it: the contract lets any single waiter go with a failure or with its key.
  That no ticket is lost is `WaiterHasOneTicket`, and that all are released, `WaitersReturn`.
- *Schedule.* Two keys are enough to share a slot or to swap order, an interval of 6 divides by
  1 and 2, so that every slot falls on a tick, the stall (7) is longer than a round, and 15 ticks
  are more than two rounds. `NeverStaleWhileQuiet` holds where the samples that can come before a
  slot fit in an interval, `(N + 2 + load) * MaxSample < Interval`: a condition on the deployment,
  which the code does not check, with the `load` since the last sample of the key alone. It is met
  here with no request or one (5 < 6).
- *Supervisor.* Two starts leave stale pid files once; a check overlaps any part of a start. Each of
  the four services may end in either way at any time.
- *Firewall.* Three identities give a rule before, at and after each position; two faults are
  one in the transaction and one in its rollback.
- *Onboarding.* Two keys and three files are what the code has; two faults as above, two edits so
  that both a file and a key may change.
- *Probe.* A memory outlives a fresh log line (3 > 2), as `SYNC_MEMORY` does `SYNC_LOG_FRESH`, and a
  second container can inherit nothing from the first. The clock and the number of samples, of
  discarded ones too, are unbounded: ages saturate.
- *L2 setup.* A second node shows what happens to the one that a failed run had not reached; three
  runs are a success, a failure and the run after it; four events change, restart, remove and add.
  The nodes are interchangeable, and a symmetry.
- *Fleet.* Two actions cross on their way and back; two reloads are the newest and one that is too
  late. The schedule, the reloads and the number of samples are unbounded.

Deadlock is checked for the collector, the probe and the fleet, which never stop. The other models stop where the program
does (a finished script, an exited container, the end of the clock), so their configurations turn
it off.

## 4. Fairness

- *Collector* (`WaitersReturn`, `EveryContainerIsSampled`). The thread runs and every sample has a
  deadline: weak fairness on its steps. `PlanList` is strongly fair: Docker answers a listing now
  and then, and `run()` tries again at least every `LISTING_INTERVAL`. `PickDue(k)` is strongly
  fair: every known key has a due time that comes within an interval and stays until the key is
  sampled, and `min(due)` (540) takes the oldest while the others move an interval ahead.
  Handlers have no fairness: no property counts on their timeouts.
- *Supervisor* (`SeenFailureEndsTheRun`). Weak fairness on the script as a whole: bash goes on.
  Neither a restart, nor a health check, nor the end of a service is counted on; the wait for a slow
  stop ends because its attempts are bounded.
- *Fleet* (`ShownInTheEnd`). Weak fairness on the begin and the landing of the peer's samples and on
  the hub's fetches, which each manager's thread takes on its schedule; on the automatic reload,
  which the page's timer starts; and on the answers to it, which the hub gives from memory. Nothing
  is owed to a click, an action or an early answer. The page's own requests have no timeout (`api()`,
  app.js:28): that they end is up to the browser and the connection. What is shown in the end
  is the last change of the node; whether it carries a tag changes with every sample for ever.

## 5. What is proved

Every safety invariant and every action property of the passing runs, and the refinement of
`CacheContract`, is a theorem. All hold for every value of the constants that satisfies the named
assumptions of the modules:

| Module | Assumption | What it says |
| --- | --- | --- |
| `Collector` | `KeysAssumption`, `BoundsAssumption` | services and peers are disjoint and `NoKey` is neither; the bounds are naturals and `ManagerIds` are containers |
| `Schedule` | `TimeAssumption` | durations are naturals; the unit of time is fine enough for the slots of any layout of up to `N` keys to fall on a tick |
| `Probe` | `AgesAssumption`, `BoundAssumption` | the two limits of age are positive; the bound is a natural |
| `Supervisor`, `Onboarding`, `Firewall` | `SupervisorAssumption`, `OnboardingAssumption`, `FirewallAssumption` | the bounds are naturals |

`Fleet` and `L2Setup` need none, and no theorem has a hypothesis besides.

`CollectorProofs`:

- `CoreInvariant`: `Spec => []Core`, where `Core` is `TypeOK`, `Threads` and `WaiterHasOneTicket`.
  `WaiterHasOneTicket` is not inductive alone: that a handler joins a ticket of its own key
  needs that a handler at `"ask"` has a request for a key, and that the thread samples a key exactly
  between picking and landing. `Threads` says these two things, and the conjunction is inductive.
  There is one step per action and below it one per conjunct.
- `TypeTheorem` and `TicketTheorem` project `TypeOK` and `WaiterHasOneTicket`.
- `QueueTheorem`: `QueueConsistent`. `forced` and `due` stay within `known`, so that `step()` never
  indexes an entry that is gone, and popping from the middle of the dict keeps one total order.
- `PendingTheorem`: `PendingMeansWork`.
- `ManagersTheorem`: `ManagersNeverSampled`. It also shows that `step()` never meets a manager in
  its sample: the branch for it (553-556) is reached for a service that stopped being a node in
  no execution of the model.
- `LandedTheorem`: `LandedIsCurrent`. The strengthening `EpochGuardsContainer` says that while the epoch of
  the running sample is that of the entry, so is the container. It is stated for entries not dropped
  meanwhile (`live`), which is exactly what finding 1 is about.
- `AnsweredTheorem`: `AnsweredIsFresh`. The strengthening `GoalsReached` says that no request asks for
  more than has happened to its node, so that a sample that has not looked yet will see it, and
  that a sample that has looked and may answer an acting handler has seen that action.
- `ContractTheorem`: `KeepsContract`, the refinement. `Sound` is `Core`, `QueueConsistent`,
  `PendingMeansWork`, the two strengthenings above and `Observed`: a sample has seen no more than has
  happened and no less than the data it will replace. From it, each step of the collector is a step
  of the contract or leaves `ShownView` and `Promised` alone; a landing is `Deliver`, and needs
  `GoalsReached` for the waiters and `Observed` for the view, or, where the entry was dropped
  meanwhile, the stray sample.

`ScheduleProofs`: `Inv` is `TypeOK`, `LaidOut` (a layout covers the known keys), `OnlyKnown`
(so does the queue), `Slotted`, `Past` and `NoCatchUp`.

- `SlotTheorem`: `SlotKept`. `Slotted` says that a key that waits for its schedule waits for its slot
  of the layout, or that slot some intervals later. The lemmas on `Slot` and `SlotAfter`
  (`SlotFacts`, `SlotAfterFacts`, `PlacesApart` and others) are the arithmetic of `next_slot`: slots of
  different keys differ, also modulo the interval, and `SlotAfter` is after now and at most an
  interval away.
- `NoCatchUpTheorem`: `NoCatchUp`, from the same lemma and `Past`.
- `StaleTheorem`: `NeverStaleWhileQuiet`. It speaks of a key that is `calm`: since its last sample
  began there was no new layout, stall or failure, nor a plan that made a key due while the thread
  slept. Then what the schedule gives it is within an interval of that sample (`Rounds`), and the
  thread does not sleep past it (`WakesInTime`). From then on it is late only by samples, and a
  measure pays for them: `Samples(k)` counts those that can still end before that of `k`, the keys
  `Ahead` of it and the one under way, at most `N + 1` at any time. Each request may add one and
  each plan that finds a service recreated all of them, which is what `load[k]` counts since the
  last sample of `k`. `Timely` says that the lateness of `k` is at most the samples that are `Over`:
  `N + 1 + load[k]` less those still to come. If `N + 2 + load[k]` samples take less than an
  interval, that is less than two intervals in all. Nothing is assumed of the rest of the execution,
  however long it is and whatever happened before.

`ProbeProofs`: `Inv` is `Types`, `Recent` and `Remembered`.

- `RecentTheorem`: `SyncIsRecent`. `Recent` bounds the time since the sync really was under way by
  the age of whatever still speaks of it, the log line or the memory.
- `BusyTheorem` and `AttentionTheorem`: the action properties `BusyIsNotBroken` and `AttentionKept`,
  from `Remembered`: what the last inspection found of a node's sync (`last`, not the row, which
  may be older) is in the memory too, unless a stale plan has dropped it.

`FleetProofs`: `Inv` is `Types`, `OneNewest`, `Ordered` and `Reported`.

- `ForwardTheorem`: the action property `RowNeverGoesBack`. `Ordered` says that along the way from the
  peer over the fetch, the hub and the one answer that counts to the row, nothing is newer than
  what may replace it, unless that comes from a manager that has restarted and says nothing.
- `SettledTheorem`: the action property `SettledIsFresh`. `Reported` says, for each place on that way,
  which actions a view without a tag has seen by then.

`L2SetupProofs`: `Inv` is `Types`, `Identities`, `Discovered`, `OverrideKept`, `StillAllowed`,
`RewiredIsAllowed`, `Undisturbed` and `Untouched`.

- `RewiredTheorem`: `RewiredIsAllowed`. `Identities` says which keys can be on any list, and that a node
  whose key is on one has no container of a former identity; `Discovered`, that who has answered with
  the right key is on the list of this run.
- `LockOutTheorem`: the action property `NeverLocksOut`, from these and `StillAllowed`.
- `CompleteTheorem`: the action property `SuccessIsComplete`. `Undisturbed` says what each part of
  an undisturbed run has done.
- `UntouchedTheorem`: the action property `UnchangedIsNotRestarted`, from `Untouched`: a run that
  finds everything as it would leave it still does so at each of its steps.

`FirewallProofs`: `Inv` is `TypeOK`, `Own`, `Nested`, `Steps`, `Rechecked`, `Covered`, `Planned`,
`Restorable` and `Needed`.

- `TypeTheorem`: `TypeOK`.
- `RollbackTheorem`: `RollbackRestores`. `Restorable` says how the rules at any time stem from those of
  the snapshot (`Shape`): of those removed some are gone, the others stand in their old order, each as
  many places further up as are gone before it (`Count`), and behind them are only rules that the
  helper added. One lemma for each command of UFW, and for each of its undoing, says that
  it keeps this shape; the undoing inserts at the recorded place from the first on, which is why it
  ends in the old order. The lemmas on `UfwAllow`, `UfwDelete` and `UfwInsert` say what the filtered
  and spliced lists are, place by place.
- `CompleteTheorem`: `UpdateIsComplete`, from `Covered`: what the node needs is allowed or still to be
  added, and nothing is removed before that.
- `GapTheorem`: `NoGap`. `Needed` says that nothing the node has and still needs is added, and so
  nothing of it is taken away by the rollback; `Covered` gives the new rules while the old ones go,
  and `Restorable` the old ones once the rollback is through.
- `OthersTheorem`: the action property `OthersKept`, from `Own` and `Rechecked`.

`SupervisorProofs`: `Inv` is `TypeOK`, `Progress`, `Lives`, `Recorded`, `Reported`, `FilesFollow`,
`Missed` and `Syncing`, one lemma each.

- `TypeTheorem`: `TypeOK`.
- `GracefulTheorem`: `TrackedStopGracefully`. `Lives` carries why a service ended: killed only if it
  got a TERM and the attempts are used up, lost only with the container. `Recorded` says that a
  service without a record is the last one started, about to be recorded or overtaken by a TERM.
- `ReportTheorem`: `FailureIsReported`. `Reported` says that a status of 0 at the way out, and a
  pending `term`, come from someone who asked.
- `HealthyTheorem`: `HealthyIsTrue`. A check that has missed a dead service so far is one that either
  still has to ask oxend, which is dead, or has chosen the pid file of this run and will find
  the dead pid in it (`Missed`); `FilesFollow` says when the file is of this run.
- `SyncTheorem`: `SyncIsHealthy`. Needs that no pid file exists between `Clean` and `publish`
  (`FilesFollow`), so a check during the synchronization has chosen the sync file (`Syncing`).

`OnboardingProofs`: `Inv` is `TypeOK`, `Positions` (what is not done yet at each place),
`OursAreNoted`, `FilesKept`, `KeysDone` and `FilesDone`.

- `TypeTheorem`: `TypeOK`.
- `FailureTheorem`: `FailureChangesNothing`. It is a statement about the end of a run, which says nothing of
  the way there. `OursAreNoted` (every key file of the script is noted, or about to be) and
  `FilesKept` (a file is as in the backup, or replaced and known to be) are what the rollback
  works from; it empties `installed` and `replaced`, and what is left is the backup.
- `SavedTheorem`: `SavedIsComplete`, from `KeysDone` and `FilesDone`, the invariants of the two loops.
- `KeysTheorem`: the action property `KeysNeverReplaced`. The script writes only the key it has just
  created; the rollback removes only what `OursAreNoted` and `TypeOK` say is its own.
- `NothingLostTheorem`: the action property `NothingLost`, from `FilesKept`.

Only model-checked: the four liveness properties (`WaitersReturn`, `EveryContainerIsSampled`,
`SeenFailureEndsTheRun`, `ShownInTheEnd`), since the proof system treats neither liveness under fairness nor
`ENABLED`. That the lemmas on the firewall's lists go by places and cardinalities, instead of
by induction over the lists, has the same kind of reason: the library's induction theorems cannot be
applied here.

## 6. Findings

Each is a disagreement between the code and what the repository says of it, with a run that shows
it. PROJECT.json quotes the lines.

1. `collector_shown`: epochs start at 0 again when a service is dropped and listed again
   (`manager.py:386`, `564`), so a probe of the old container may land in the entry of the new one.
   README.md:382-383 excludes that.
2. `collector_action`: `power()` moves the epoch before Docker acts (926); a scheduled sample that
   begins after that and ends before `request()` lands, although it looked at the node before the
   action. The comment at 924-925 excludes that. Handlers are still answered with a fresh sample
   (`AnsweredIsFresh`).
3. `supervisor_forgotten`: a service killed by a signal (out of memory, a crash) while the script
   starts others, and does not look at this one, is reported by the shell and taken off its job
   table before `wait -n "${pids[@]}"` (246) begins; `wait -n` waits for the other pids, and the run
   goes on without it. README.md:213 and the comment at 244 exclude that. What does hold is
   `SeenFailureEndsTheRun`: a service that exits by itself ends the run whenever it does, one killed
   by a signal does while the start waits for it or once all run.

Known limits, which the models contain and the properties state as exceptions:

- *Schedule.* Every change of the set of services lays the schedule out again from now (472), so
  two changes within an interval leave a healthy node unsampled for two intervals, and it is shown
  stale, which README.md:319-320 explains by a missed round. `NeverStaleWhileQuiet` counts a round
  from the last sample on a settled layout and excludes these (`calm`).
- *Supervisor.* A TERM between the fork of a service and the recording of its pid (131) is answered
  without that service, which is then killed with the container, although README.md:145 promises
  to "gracefully stop all services". `TrackedStopGracefully` says that it can only be the last one
  started.
- *Firewall.* The rollback deletes the added rules before it inserts the removed ones again
  (`node_firewall.py:239-248`): of rules that are replaced, neither the old nor the new ones need
  all be in force meanwhile, nor after a rollback that ended incomplete or was interrupted. What the
  node keeps is in force throughout (`NoGap`).
- *Onboarding.* An interrupt between a change and its record (`node_onboarding.py:356-357`, 350-351)
  escapes the rollback that 341 promises: the new file, or an empty key file, stays.
  `FailureChangesNothing` excludes it (`unrecorded`).
- *Probe.* A handler's `plan()` with a listing older than the container makes `forget_stale` drop
  the memory of a container that exists (863: "containers that no longer exist"); a node busy with
  its sync is then raised as degraded until it is seen syncing again (`raced`).
- *Probe.* A fresh log line that says the node has caught up does not end a remembered sync (817-823
  look only at progress): an alarm may be held back for the rest of `SYNC_MEMORY`. A service node
  status that times out while RPC answers is remembered as "not registered" (341, 810), and a
  height without a target reads as no sync (266). Both change the memory also where the view is
  then discarded (564-572): the row that is shown next may have lost its attention, or be raised
  as degraded, without a row that says why. `BusyIsNotBroken` and `AttentionKept` are therefore about
  inspections, not about rows.
- *L2 setup.* A node that still runs with a former identity when its key is read is put on the
  allowlist under that identity (144) and locked out once it restarts, until the next run
  (`misread`, `outdated`); README.md:239 says to run again after replacing keys.
- *L2 setup.* A running node that does not answer within five seconds is recreated by the bootstrap
  (143-148), although README.md:241 says running deployments are not restarted (`silent`).
- *L2 setup.* A user's override is looked for once (88); one written during the run is replaced at
  157. A run that fails after the bootstrap leaves nodes with a direct RPC until a run succeeds.
- *Dashboard.* A forced reload removes the pending marks of every service (app.js:798), those of an
  action under way among them, and automatic reloads remove none: if the reload after an action
  fails, "stopping…" stays until the next forced one. What the row is of is right all the same
  (`SettledIsFresh`).

## 7. What a property does not say

- `LandedIsCurrent` and `AnsweredIsFresh` are about entries that were not dropped while the sample
  ran (finding 1).
- `PendingMeansWork`, the part "pending only if work is left", excludes runs with a fault:
  `abandon()` leaves the entry pending until its due time.
- `FailureChangesNothing` excludes the line appended to `.gitignore`, which the code leaves on
  purpose, files the user wrote after the backup, and an interrupt between a change and its record (section 6).
- `RollbackRestores` and `OthersKept` exclude identities that the administrator has changed since
  the helper last looked; UFW offers no transaction that would do better.
- `BusyIsNotBroken` and `AttentionKept` exclude a memory that a stale plan has dropped (`raced`); they
  go from one inspection of a container to the next, shown or discarded.
- `NeverLocksOut` is about a node that runs as the override says, and about the steps of the setup;
  a user who returns to direct RPC or removes a node does what they ask for.
- `SuccessIsComplete` and `UnchangedIsNotRestarted` are about runs in which nobody else touches the
  files or the containers (`calm`); the lock binds the onboarding only.
- `SettledIsFresh` and `RowNeverGoesBack` say which sample a row is of, not how old it is called.
- A second interrupt during the firewall's rollback ends it (`Aborted`); nothing is promised then,
  nor after a rollback in which UFW refused an insert (`incomplete`), but for the rules the node keeps.
- `ShownInTheEnd` says which change a row shows in the end, not that it is shown without a tag.

## 8. Not modelled, and the plan

Not modelled, or in part:

- *Ages.* `describe()` adds the age of a peer's sample to that of the listing and recomputes its
  status with the peer's interval (683-690). It is a function of two ages, without state.
- *Promptness.* `wake` keeps a request from waiting for `LISTING_INTERVAL` (602). `Schedule` has the
  event and its clearing, but no property bounds the delay.
- *Dashboard.* Marks, bulk actions (one action after the other, one reload at the end), dialogs,
  logs and rendering.
- *The log write.* An exception of `print` between `running = None` and `ticket.resolve()` (580)
  leaves waiters to their timeout.
- *Left out for good.* The HTTP layer and the configuration (one pass over their inputs, without
  state), the texts of generated files, the wizard, images, Compose files and CI.

What is left to prove:

1. That a request is sampled promptly: a bound on the time a key is in `forced`, which the measure of
   `StaleTheorem` should give with the queue alone.
2. That the two caches of `Fleet` are instances of `CacheContract`, and not only written like it.
