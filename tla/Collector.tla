------------------------------ MODULE Collector ------------------------------
(***************************************************************************)
(* The manager's sampling cache (manager/manager.py, class Collector): one *)
(* serial collector thread, any number of HTTP handler threads, and the    *)
(* Docker daemon whose containers they observe and change.                 *)
(*                                                                         *)
(* Every section the code runs under Collector.lock is one action; what it *)
(* does outside the lock (container listing, Docker actions, the sample    *)
(* itself, the read of entry.container_id at manager.py:552) is a step of  *)
(* its own, so that everything may happen in between.                      *)
(*                                                                         *)
(* Time is abstracted: a key is either due now (`due`) or waits for a slot *)
(* that may come up at any step, and the cooldown of a plain request may   *)
(* or may not have passed.  Schedule.tla models the clock.                 *)
(***************************************************************************)
EXTENDS Naturals, FiniteSets

CONSTANTS Services,       \* Compose services other than the manager itself
          Peers,          \* peer managers named in MANAGER_PEERS
          Handlers,       \* HTTP handler threads
          NoKey,          \* "no sample is running"
          MaxContainers,  \* bound: containers Docker creates, numbered from 1
          ManagerIds,     \* the containers whose environment says ROLE=manager
          MaxRequests,    \* bound: API requests that reach request()
          MaxFaults       \* bound: times step() dies in the middle of a sample

Keys       == Services \cup Peers
Containers == 1..MaxContainers
None       == 0             \* the container id of a peer, or of an absent service

ASSUME KeysAssumption == Services \cap Peers = {} /\ NoKey \notin Keys
ASSUME BoundsAssumption ==
    /\ MaxContainers \in Nat /\ MaxRequests \in Nat /\ MaxFaults \in Nat
    /\ ManagerIds \subseteq Containers

VARIABLES
    listing,    \* Docker: service -> its container, or None
    created,    \* Docker: containers created so far
    changes,    \* ground truth: key -> actions that have changed it
    entries,    \* key -> Entry (meaningful for the known keys)
    known,      \* the keys of Collector.entries
    due,        \* keys whose due time is already past
    forced,     \* the keys of Collector.forced: tickets queued ahead of the schedule
    ahead,      \* insertion order of forced: <<a, b>> when a was queued before b
    waiters,    \* key -> handlers waiting on its forced ticket or its followers
    running,    \* (key, ticket, epoch) of the sample being taken, and what it saw
    excluded,   \* containers found to be managers
    cpc,        \* where the collector thread is in step()
    cplan,      \* the listing the collector thread is about to apply
    hpc,        \* where each handler thread is
    hplan,      \* the listing a handler thread is about to apply
    req,        \* the request each handler serves
    requests,   \* requests accepted so far (bounded)
    faults      \* faults so far (bounded)

docker == <<listing, created, changes>>
cache  == <<entries, known, due, forced, ahead, waiters, excluded>>
thread == <<running, cpc, cplan>>
http   == <<hpc, hplan, req, requests>>
vars   == <<docker, cache, thread, http, faults>>

------------------------------------------------------------------------------
(* Data *)

NoData == [container_id |-> None, seen |-> 0]

\* A new Entry: pending, never attempted, epoch 0.
NewEntry(c) == [container_id |-> c, epoch |-> 0, pending |-> TRUE,
                attempted |-> FALSE, ok |-> FALSE, error |-> FALSE, data |-> NoData]

\* running is None.
Idle == [key |-> NoKey, epoch |-> 0, container_id |-> None, live |-> FALSE,
         waiters |-> {}, ok |-> FALSE, seen |-> 0]

NoPlan    == [nodes |-> [s \in Services |-> None], all |-> {}]
NoRequest == [key |-> NoKey, invalidate |-> FALSE, container_id |-> None, goal |-> 0]

\* Mutant: a dropped key keeps its place behind others in the queue.
WithoutFirst(gone) == {p \in ahead : p[1] \notin gone}

\* The order of the forced dict: what dict.pop leaves, and next(iter(forced)).
Without(gone) == {p \in ahead : p[1] \notin gone /\ p[2] \notin gone}
IsFirst(k)    == k \in forced /\ \A a \in forced : <<a, k>> \notin ahead

\* Mutant: only the released threads are left.
ResolvedOnly(hs) == [h \in hs |-> "idle"]

\* ticket.resolve(): the ticket's waiters, and those of its followers, return.
Resolved(hs) == [h \in Handlers |-> IF h \in hs THEN "idle" ELSE hpc[h]]
Released(hs) == [h \in Handlers |-> IF h \in hs THEN NoRequest ELSE req[h]]

Init ==
    /\ listing = [s \in Services |-> None]
    /\ created = 0
    /\ changes = [k \in Keys |-> 0]
    /\ entries = [k \in Keys |-> NewEntry(None)]
    /\ known = {} /\ due = {} /\ forced = {} /\ ahead = {}
    /\ waiters = [k \in Keys |-> {}]
    /\ running = Idle /\ excluded = {}
    /\ cpc = "plan" /\ cplan = NoPlan
    /\ hpc = [h \in Handlers |-> "idle"]
    /\ hplan = [h \in Handlers |-> NoPlan]
    /\ req = [h \in Handlers |-> NoRequest]
    /\ requests = 0 /\ faults = 0

------------------------------------------------------------------------------
(* Docker: services come, are recreated with a new container, and go *)

CreateContainer(s) ==
    /\ created < MaxContainers
    /\ created' = created + 1
    /\ listing' = [listing EXCEPT ![s] = created + 1]
    /\ UNCHANGED <<changes, cache, thread, http, faults>>

RemoveService(s) ==
    /\ listing[s] # None
    /\ listing' = [listing EXCEPT ![s] = None]
    /\ UNCHANGED <<created, changes, cache, thread, http, faults>>

------------------------------------------------------------------------------
(* plan(), run by the collector thread and by handlers asking for an unknown key *)

\* Mutant: a known service is not inspected again when its container changes.
InspectsNew(s) == s \notin known

\* The unlocked half: list the containers, and inspect every one the cache does
\* not hold yet.  Managers are put on the excluded list and left out.
Inspects(s) == s \in known => entries[s].container_id # listing[s]
Skips(s)    == listing[s] \in excluded
Refuses(s)  == ~ Skips(s) /\ Inspects(s) /\ listing[s] \in ManagerIds

Snapshot ==
    [nodes |-> [s \in Services |-> IF Skips(s) \/ Refuses(s) THEN None ELSE listing[s]],
     all   |-> {listing[s] : s \in Services}]

Found == {listing[s] : s \in {t \in Services : Refuses(t)}}

\* Mutants: the epoch stays; the entry keeps the old container's id.
RecreatedSameEpoch(e, c) == [e EXCEPT !.container_id = c, !.pending = TRUE]
RecreatedSameId(e, c)    == [e EXCEPT !.pending = TRUE]

\* A recreated service: whatever a running probe of the old container returns is outdated.
Recreated(e, c) == [e EXCEPT !.container_id = c, !.pending = TRUE, !.epoch = @ + 1]

\* The locked half: forget what is gone, add what is new, and mark a recreated
\* service for a fresh sample.  A ticket of a forgotten key is resolved.
Apply(plan) ==
    LET fresh     == Peers \cup {s \in Services : plan.nodes[s] # None}
        id(k)     == IF k \in Services THEN plan.nodes[k] ELSE None
        gone      == known \ fresh
        added     == fresh \ known
        recreated == {k \in known \cap fresh : entries[k].container_id # id(k)}
        dropped   == UNION {waiters[k] : k \in gone}
    IN  /\ known' = fresh
        /\ entries' = [k \in Keys |->
                         IF k \in gone THEN NewEntry(None)
                         ELSE IF k \in added THEN NewEntry(id(k))
                         ELSE IF k \in recreated THEN Recreated(entries[k], id(k))
                         ELSE entries[k]]
        /\ due' = (due \ gone) \cup added \cup recreated
        /\ forced' = forced \ gone
        /\ ahead' = Without(gone)
        /\ waiters' = [k \in Keys |-> IF k \in gone THEN {} ELSE waiters[k]]
        /\ excluded' = excluded \cap plan.all
        \* The sampler holds the Entry object itself: it sees a container id that
        \* changes before it reads it, and keeps the object of a dropped key.
        /\ running' = [running EXCEPT
                         !.live = @ /\ running.key \notin gone,
                         !.container_id = IF /\ running.live /\ cpc = "sample"
                                             /\ running.key \in recreated
                                          THEN id(running.key) ELSE @]
        /\ req' = Released(dropped)

PlanList ==
    /\ cpc = "plan"
    /\ cplan' = Snapshot
    /\ excluded' = excluded \cup Found
    /\ cpc' = "apply"
    /\ UNCHANGED <<docker, entries, known, due, forced, ahead, waiters, running, http, faults>>

\* The listing, or an inspection that belongs to it, failed: retry later.
PlanFail ==
    /\ cpc \in {"plan", "apply"}
    /\ cpc' = "wait"
    /\ cplan' = NoPlan
    /\ UNCHANGED <<docker, cache, running, http, faults>>

PlanApply ==
    /\ cpc = "apply"
    /\ Apply(cplan)
    /\ hpc' = Resolved(UNION {waiters[k] : k \in known \ known'})
    /\ cplan' = NoPlan
    /\ cpc' = "pick"
    /\ UNCHANGED <<docker, hplan, requests, faults>>

------------------------------------------------------------------------------
(* step(): choose, sample, land *)

Begin(k) ==
    /\ entries' = [entries EXCEPT ![k].pending = TRUE]
    /\ running' = [key |-> k, epoch |-> entries[k].epoch,
                   container_id |-> entries[k].container_id, live |-> TRUE,
                   waiters |-> waiters[k], ok |-> FALSE, seen |-> 0]
    /\ forced' = forced \ {k}
    /\ ahead' = Without({k})
    /\ waiters' = [waiters EXCEPT ![k] = {}]
    /\ cpc' = "sample"
    /\ UNCHANGED <<docker, known, due, excluded, cplan, http, faults>>

\* Mutant: a key that is pending is taken to be sampled already.
PickForcedIdle(k) == cpc = "pick" /\ IsFirst(k) /\ ~ entries[k].pending /\ Begin(k)

\* Requested samples go first, in request order.
PickForced(k) == cpc = "pick" /\ IsFirst(k) /\ Begin(k)

\* Otherwise any key whose due time has come.
PickDue(k) == cpc = "pick" /\ forced = {} /\ k \in known /\ Begin(k)

NothingDue ==
    /\ cpc = "pick" /\ forced = {} /\ due = {}
    /\ cpc' = "wait"
    /\ UNCHANGED <<docker, cache, running, cplan, http, faults>>

\* wake.wait is bounded by LISTING_INTERVAL, so the thread always comes back.
Wake ==
    /\ cpc = "wait"
    /\ cpc' = "plan"
    /\ UNCHANGED <<docker, cache, running, cplan, http, faults>>

\* The moment the probe looks at the node, or the peer answers.  A container that
\* is gone cannot be observed, and any probe may fail.
Observe(succeeds) ==
    LET k == running.key
    IN  /\ cpc = "sample"
        /\ succeeds /\ k \in Services => listing[k] = running.container_id
        /\ running' = [running EXCEPT !.ok = succeeds, !.seen = changes[k]]
        /\ cpc' = "land"
        /\ UNCHANGED <<docker, cache, cplan, http, faults>>

\* The epoch moved on: drop the result, and let a newer sample answer its waiters.
Outdated == entries[running.key].epoch # running.epoch

\* Mutant: the followers of an outdated sample are forgotten when a newer ticket waits.
JoinedIfNew(k, hs) == [waiters EXCEPT ![k] = IF k \in forced THEN @ ELSE @ \cup hs]

\* Queue k, or join the ticket that already is; its waiters come along (followers).
Queue(k) ==
    /\ forced' = forced \cup {k}
    /\ ahead' = IF k \in forced THEN ahead ELSE ahead \cup {<<a, k>> : a \in forced}
Joined(k, hs) == [waiters EXCEPT ![k] = @ \cup hs]

\* The outdated result is dropped, and a newer sample is queued for its waiters.
LandOutdated ==
    LET k == running.key
    IN  /\ cpc = "land"
        /\ k \in known /\ Outdated
        /\ Queue(k)
        /\ waiters' = Joined(k, running.waiters)
        /\ running' = Idle
        /\ cpc' = "plan"
        /\ UNCHANGED <<docker, entries, known, due, excluded, cplan, http, faults>>

\* Mutant: a landed sample clears pending although another one is queued.
NeverQueued(k) == FALSE

StillQueued(k) == k \in forced

\* A failed sample keeps the last good data and says why it failed.
Landed(e, r) == [e EXCEPT !.pending = StillQueued(r.key),
                          !.attempted = TRUE,
                          !.ok = @ \/ r.ok,
                          !.error = ~ r.ok,
                          !.data = IF r.ok THEN [container_id |-> r.container_id,
                                                 seen |-> r.seen]
                                   ELSE @]

LandCurrent ==
    LET k == running.key
    IN  /\ cpc = "land"
        /\ k \in known /\ ~ Outdated
        /\ entries' = [entries EXCEPT ![k] = Landed(@, running)]
        /\ due' = due \ {k}
        /\ hpc' = Resolved(running.waiters)
        /\ req' = Released(running.waiters)
        /\ running' = Idle
        /\ cpc' = "plan"
        /\ UNCHANGED <<docker, known, forced, ahead, waiters, excluded, cplan,
                       hplan, requests, faults>>

\* The key was dropped while its sample ran: only the waiters are released.
LandForgotten ==
    /\ cpc = "land"
    /\ running.key \notin known
    /\ hpc' = Resolved(running.waiters)
    /\ req' = Released(running.waiters)
    /\ running' = Idle
    /\ cpc' = "plan"
    /\ UNCHANGED <<docker, cache, cplan, hplan, requests, faults>>

\* step() died in mid-sample: run() catches it, abandon() releases the waiters.
Abandon ==
    LET k == running.key
    IN  /\ cpc \in {"sample", "land"}
        /\ faults < MaxFaults
        /\ faults' = faults + 1
        /\ entries' = IF k \in known
                      THEN [entries EXCEPT ![k].pending = TRUE] ELSE entries
        /\ hpc' = Resolved(running.waiters)
        /\ req' = Released(running.waiters)
        /\ running' = Idle
        /\ cpc' = "wait"
        /\ UNCHANGED <<docker, known, due, forced, ahead, waiters, excluded, cplan,
                       hplan, requests>>

------------------------------------------------------------------------------
(* Handlers: POST .../refresh, .../start|stop|restart, and their relayed forms *)

Accept(h, pc, r) ==
    /\ hpc[h] = "idle" /\ requests < MaxRequests
    /\ requests' = requests + 1
    /\ hpc' = [hpc EXCEPT ![h] = pc]
    /\ req' = [req EXCEPT ![h] = r]

Moves(h, from, to) ==
    /\ hpc[h] = from
    /\ hpc' = [hpc EXCEPT ![h] = to]

\* The handler answers with an error and is free again.
Fails(h) ==
    /\ hpc' = [hpc EXCEPT ![h] = "idle"]
    /\ req' = [req EXCEPT ![h] = NoRequest]
    /\ hplan' = [hplan EXCEPT ![h] = NoPlan]
    /\ UNCHANGED requests

\* refresh() and refresh_peer() without an action.
Refresh(h, k) ==
    /\ Accept(h, "check", [NoRequest EXCEPT !.key = k])
    /\ UNCHANGED <<docker, cache, thread, hplan, faults>>

\* power(): locate the container; a manager, or no container, is NotFound.
Locate(h, s) ==
    /\ listing[s] # None /\ listing[s] \notin ManagerIds
    /\ Accept(h, "invalidate", [NoRequest EXCEPT !.key = s, !.invalidate = TRUE,
                                                 !.container_id = listing[s]])
    /\ UNCHANGED <<docker, cache, thread, hplan, faults>>

\* power(): outdate the sample in flight before touching the container.
Invalidate(h) ==
    LET k == req[h].key
    IN  /\ Moves(h, "invalidate", "act")
        /\ entries' = IF k \in known
                      THEN [entries EXCEPT ![k].epoch = @ + 1] ELSE entries
        /\ UNCHANGED <<docker, known, due, forced, ahead, waiters, excluded, thread,
                       hplan, req, requests, faults>>

\* power(): Docker starts, stops or restarts the container.
Act(h) ==
    LET k == req[h].key
    IN  /\ Moves(h, "act", "check")
        /\ listing[k] = req[h].container_id
        /\ changes' = [changes EXCEPT ![k] = @ + 1]
        /\ req' = [req EXCEPT ![h].goal = changes[k] + 1]
        /\ UNCHANGED <<listing, created, cache, thread, hplan, requests, faults>>

\* power(): Docker refused, or timed out with or without having acted.
ActFails(h) ==
    LET k == req[h].key
    IN  /\ hpc[h] = "act"
        /\ \/ UNCHANGED changes
           \/ /\ listing[k] = req[h].container_id
              /\ changes' = [changes EXCEPT ![k] = @ + 1]
        /\ Fails(h)
        /\ UNCHANGED <<listing, created, cache, thread, faults>>

\* relay(): the peer has carried out the action; its listing must be fetched again.
Relay(h, p) ==
    /\ Accept(h, "check", [NoRequest EXCEPT !.key = p, !.invalidate = TRUE,
                                            !.goal = changes[p] + 1])
    /\ changes' = [changes EXCEPT ![p] = @ + 1]
    /\ UNCHANGED <<listing, created, cache, thread, hplan, faults>>

\* request(): is the key known?  If not, plan first.
Check(h) ==
    /\ Moves(h, "check", IF req[h].key \in known THEN "ask" ELSE "plan")
    /\ UNCHANGED <<docker, cache, thread, hplan, req, requests, faults>>

HandlerPlanList(h) ==
    /\ Moves(h, "plan", "apply")
    /\ hplan' = [hplan EXCEPT ![h] = Snapshot]
    /\ excluded' = excluded \cup Found
    /\ UNCHANGED <<docker, entries, known, due, forced, ahead, waiters, thread,
                   req, requests, faults>>

HandlerPlanFail(h) ==
    /\ hpc[h] \in {"plan", "apply"}
    /\ Fails(h)
    /\ UNCHANGED <<docker, cache, thread, faults>>

HandlerPlanApply(h) ==
    /\ hpc[h] = "apply"
    /\ Apply(hplan[h])
    /\ hpc' = [Resolved(UNION {waiters[k] : k \in known \ known'}) EXCEPT ![h] = "ask"]
    /\ hplan' = [hplan EXCEPT ![h] = NoPlan]
    /\ UNCHANGED <<docker, cpc, cplan, requests, faults>>

\* request(): the key is not there after all (404).
AskNotFound(h) ==
    /\ hpc[h] = "ask" /\ req[h].key \notin known
    /\ Fails(h)
    /\ UNCHANGED <<docker, cache, thread, faults>>

\* Mutant: request(invalidate=True) does not advance the epoch.
EpochKept(h) == entries[req[h].key].epoch

\* The epoch request() works with: an invalidating one has just advanced it.
EpochAt(h) == entries[req[h].key].epoch + (IF req[h].invalidate THEN 1 ELSE 0)

CanJoinRunning(h) ==
    LET k == req[h].key
    IN  k \notin forced /\ running.key = k /\ running.epoch = EpochAt(h)

\* request(): the last sample is too recent for a plain request (429).
AskTooSoon(h) ==
    LET k == req[h].key
    IN  /\ hpc[h] = "ask" /\ k \in known
        /\ k \notin forced /\ ~ CanJoinRunning(h)
        /\ ~ req[h].invalidate /\ entries[k].attempted
        /\ Fails(h)
        /\ UNCHANGED <<docker, cache, thread, faults>>

\* request(): join the queued ticket, else the running one of this epoch, else queue.
Ask(h) ==
    LET k == req[h].key
    IN  /\ Moves(h, "ask", "wait")
        /\ k \in known
        /\ entries' = [entries EXCEPT ![k].epoch = EpochAt(h), ![k].pending = TRUE]
        /\ IF CanJoinRunning(h)
           THEN /\ running' = [running EXCEPT !.waiters = @ \cup {h}]
                /\ UNCHANGED <<forced, ahead, waiters>>
           ELSE /\ Queue(k)
                /\ waiters' = Joined(k, {h})
                /\ UNCHANGED running
        /\ UNCHANGED <<docker, known, due, excluded, cpc, cplan, hplan, req,
                       requests, faults>>

\* ticket.wait() gave up: the caller answers 202 and the ticket lives on.
Timeout(h) ==
    /\ hpc[h] = "wait"
    /\ Fails(h)
    /\ waiters' = [k \in Keys |-> waiters[k] \ {h}]
    /\ running' = [running EXCEPT !.waiters = @ \ {h}]
    /\ UNCHANGED <<docker, entries, known, due, forced, ahead, excluded, cpc, cplan, faults>>

------------------------------------------------------------------------------
Docker == \E s \in Services : CreateContainer(s) \/ RemoveService(s)

Step ==
    \/ PlanList \/ PlanFail \/ PlanApply \/ NothingDue \/ Wake
    \/ \E k \in Keys : PickForced(k) \/ PickDue(k)
    \/ \E succeeds \in BOOLEAN : Observe(succeeds)
    \/ LandOutdated \/ LandCurrent \/ LandForgotten \/ Abandon

Handle(h) ==
    \/ \E k \in Keys : Refresh(h, k)
    \/ \E s \in Services : Locate(h, s)
    \/ \E p \in Peers : Relay(h, p)
    \/ Invalidate(h) \/ Act(h) \/ ActFails(h)
    \/ Check(h) \/ HandlerPlanList(h) \/ HandlerPlanFail(h) \/ HandlerPlanApply(h)
    \/ AskNotFound(h) \/ AskTooSoon(h) \/ Ask(h) \/ Timeout(h)

Next == Docker \/ Step \/ \E h \in Handlers : Handle(h)

Spec == Init /\ [][Next]_vars

\* The collector thread is scheduled, and every sample has a deadline (WF).  Docker
\* answers a listing now and then (SF).  Every known key has a due time, which comes within
\* an interval and stays while the others move to their next slots, so that min(due) takes
\* each of them in the end (SF).
\* Handlers owe nothing: no property counts on a handler's timeout.
Fairness ==
    /\ SF_vars(PlanList) /\ SF_vars(PlanApply)
    /\ WF_vars(NothingDue \/ Wake)
    /\ WF_vars(\E k \in Keys : PickForced(k))
    /\ \A k \in Keys : SF_vars(PickDue(k))
    /\ WF_vars(\E succeeds \in BOOLEAN : Observe(succeeds))
    /\ WF_vars(LandOutdated \/ LandCurrent \/ LandForgotten)

FairSpec == Spec /\ Fairness

------------------------------------------------------------------------------
(* Safety *)

DataType  == [container_id : Containers \cup {None}, seen : Nat]
EntryType == [container_id : Containers \cup {None}, epoch : Nat,
              pending : BOOLEAN, attempted : BOOLEAN, ok : BOOLEAN, error : BOOLEAN,
              data : DataType]
RunType == [key : Keys \cup {NoKey}, epoch : Nat,
            container_id : Containers \cup {None}, live : BOOLEAN,
            waiters : SUBSET Handlers, ok : BOOLEAN, seen : Nat]
PlanType == [nodes : [Services -> Containers \cup {None}],
             all : SUBSET (Containers \cup {None})]
RequestType == [key : Keys \cup {NoKey}, invalidate : BOOLEAN,
                container_id : Containers \cup {None}, goal : Nat]

TypeOK ==
    /\ listing \in [Services -> Containers \cup {None}]
    /\ created \in 0..MaxContainers
    /\ changes \in [Keys -> Nat]
    /\ entries \in [Keys -> EntryType]
    /\ known \in SUBSET Keys /\ due \in SUBSET Keys /\ forced \in SUBSET Keys
    /\ ahead \in SUBSET (Keys \X Keys)
    /\ waiters \in [Keys -> SUBSET Handlers]
    /\ running \in RunType
    /\ excluded \in SUBSET (Containers \cup {None})
    /\ cpc \in {"plan", "apply", "pick", "sample", "land", "wait"}
    /\ cplan \in PlanType
    /\ hpc \in [Handlers -> {"idle", "invalidate", "act", "check", "plan", "apply",
                             "ask", "wait"}]
    /\ hplan \in [Handlers -> PlanType]
    /\ req \in [Handlers -> RequestType]
    /\ requests \in Nat /\ faults \in Nat

\* step() indexes entries with whatever key the forced dict or the due dict yields
\* (manager.py:541-544): neither may hold a key plan() has dropped, and the forced
\* dict keeps one total order although keys are popped from its middle.
QueueConsistent ==
    /\ forced \subseteq known /\ due \subseteq known
    /\ \A k \in known : ~ entries[k].attempted => k \in due
    /\ ahead \subseteq forced \X forced
    /\ \A a, b \in forced : a # b => (<<a, b>> \in ahead <=> <<b, a>> \notin ahead)
    /\ \A k \in Keys : <<k, k>> \notin ahead

\* "Two probes never overlap, duplicate requests share one sample" (manager.py:401):
\* whatever is dropped, outdated or joined, a waiting handler is on exactly one ticket
\* that will be resolved, and it is a ticket of the key it asked for.
WaiterHasOneTicket ==
    /\ \A h \in Handlers : hpc[h] = "wait" <=>
          \/ h \in running.waiters
          \/ \E k \in Keys : h \in waiters[k]
    /\ \A k \in Keys : \A h \in waiters[k] :
          k \in forced /\ req[h].key = k /\ h \notin running.waiters
    /\ \A h \in running.waiters : req[h].key = running.key

\* Entry.pending means "a sample is queued or running" (manager.py:388), and the
\* dashboard waits for it to clear: it is never shown clear while one is, nor set
\* when none is queued, running or due at once (but for one that was abandoned).
PendingMeansWork ==
    \A k \in known :
        /\ k \in forced \/ running.key = k => entries[k].pending
        /\ entries[k].pending /\ faults = 0 =>
              k \in forced \/ running.key = k \/ k \in due

\* A fellow manager is "never sampled, never listed" (manager.py:439), even when a
\* service is recreated as a manager, or plans race with a stale listing.
ManagersNeverSampled ==
    /\ \A k \in known : entries[k].container_id \notin ManagerIds
    /\ running.container_id \notin ManagerIds
    /\ excluded \subseteq ManagerIds

\* README: a probe that started in a container instance which has since been recreated
\* does not reach the dashboard.  Settled, healthy data is of the current container.
ShownIsThisContainer ==
    \A k \in known :
        ~ entries[k].pending /\ entries[k].ok /\ ~ entries[k].error =>
            entries[k].data.container_id = entries[k].container_id

------------------------------------------------------------------------------
(* What a step may never do *)

\* A result lands only in the entry of the very container it was sampled from
\* (manager.py:563-574), as long as the service was not dropped in the meantime.
LandedIsCurrent ==
    [][LandCurrent /\ running.live =>
         running.container_id = entries[running.key].container_id]_vars

\* The sample that answers a start, stop or restart looked at the node after the
\* action: "it always samples afresh and discards any sample that was already in
\* flight" (manager.py:494).
AnsweredIsFresh ==
    [][LandCurrent /\ running.live =>
         \A h \in running.waiters : req[h].invalidate => running.seen >= req[h].goal]_vars

\* power(): "A sample taken while the container changes must not land in the cache;
\* the one taken after the action is what the dashboard shows next" (manager.py:924).
NothingLandsFromBeforeTheAction ==
    [][LandCurrent /\ running.ok =>
         \A h \in Handlers : req[h].key = running.key => running.seen >= req[h].goal]_vars

------------------------------------------------------------------------------
(* Liveness *)

\* Whoever waits on a ticket is answered, without help from the handler's own timeout.
WaitersReturn == \A h \in Handlers : hpc[h] = "wait" ~> hpc[h] # "wait"

\* A new or recreated container is sampled, however requests and plans race.
EveryContainerIsSampled ==
    \A s \in Services, c \in Containers \ ManagerIds :
        listing[s] = c ~> \/ listing[s] # c
                          \/ /\ s \in known /\ entries[s].container_id = c
                             /\ entries[s].attempted /\ ~ entries[s].pending

==============================================================================
