------------------------------- MODULE Schedule -------------------------------
(***************************************************************************)
(* The clock of the manager's collector (manager/manager.py, class         *)
(* Collector: plan, stagger, next_slot, step, run, and the cooldown of     *)
(* request): who is sampled when.  What a sample finds, and the races of   *)
(* its result with plans and actions, are Collector's.                     *)
(*                                                                         *)
(* One kind of key is modelled: nodes and peers have a layout each and     *)
(* share the thread, and the peers never change.  Keys are numbered in     *)
(* name order, time is discrete, and only samples, waits and stalls of the *)
(* host take any: a plan lists the services at the moment it applies.      *)
(***************************************************************************)
EXTENDS Naturals, FiniteSets

CONSTANTS N,            \* the services are 1..N, in name order
          Interval,     \* MANAGER_POLL_INTERVAL
          Cooldown,     \* REFRESH_COOLDOWN
          Listing,      \* LISTING_INTERVAL
          MaxSample,    \* the longest a sample takes while the host is not stalled
          Stall,        \* how long the host stalls
          MaxTime,      \* bound: the clock
          MaxChanges,   \* bound: services created, removed or recreated
          MaxRequests,  \* bound: explicit requests
          MaxStalls,    \* bound: stalls of the host
          MaxFails      \* bound: listings that fail and samples that die

Keys == 1..N

\* The unit of time is fine enough for every slot to fall on one.
ASSUME TimeAssumption ==
    /\ N \in Nat /\ Interval \in Nat \ {0} /\ Cooldown \in Nat /\ Listing \in Nat \ {0}
    /\ MaxSample \in Nat /\ Stall \in Nat /\ MaxTime \in Nat
    /\ \A n \in 1..N : Interval % n = 0

VARIABLES now,
          listed,     \* services that have a container
          replaced,   \* known services whose container is not the one plan() saw
          known,      \* the keys of Collector.entries
          order,      \* the keys of the current layout (a set: its order is the keys')
          origin,     \* when the current layout was laid out
          due,        \* key -> next scheduled sample
          pending,    \* Entry.pending
          attempt,    \* Entry.attempt_at, of the keys in tried
          tried,      \* keys whose attempt_at is not None
          forced,     \* requested keys
          ahead,      \* the order of the requests: <<a, b>> when a was queued before b
          pc,         \* where the thread is
          running,    \* the key being sampled
          started,    \* since when
          outdated,   \* its epoch has moved since
          wakeat,     \* when wake.wait times out
          woken,      \* Collector.wake is set
          landed,     \* history: when the key's last sample ended
          calm,       \* history: since it began nothing disturbed the rounds: no new
                      \* layout, stall or failure, and no plan that made a key due while
                      \* the thread slept
          load,       \* history: requests since it ended, and N for each plan that found
                      \* a service recreated
          changes, requests, stalls, fails   \* bounded

docker  == <<listed, replaced, changes>>
layout  == <<known, order, origin>>
entries == <<pending, attempt, tried>>
history == <<landed, calm, load>>
thread  == <<pc, running, started, outdated, wakeat, woken>>
queue   == <<forced, ahead>>
vars    == <<now, docker, layout, due, entries, queue, thread, history,
             requests, stalls, fails>>

Init ==
    /\ now = 0
    /\ listed \in SUBSET Keys /\ replaced = {}
    /\ known = {} /\ order = {} /\ origin = 0
    /\ due = [k \in Keys |-> 0]
    /\ pending = [k \in Keys |-> TRUE]
    /\ attempt = [k \in Keys |-> 0] /\ tried = {}
    /\ forced = {} /\ ahead = {}
    /\ pc = "plan" /\ running = 0 /\ started = 0 /\ outdated = FALSE /\ wakeat = 0
    /\ woken = FALSE
    /\ landed = [k \in Keys |-> 0]
    /\ calm = [k \in Keys |-> FALSE] /\ load = [k \in Keys |-> 0]
    /\ changes = 0 /\ requests = 0 /\ stalls = 0 /\ fails = 0

------------------------------------------------------------------------------
(* Slots *)

\* Mutant: every key gets the first slot.
SlotShared(k, keys, from) == from + (Interval \div Cardinality(keys))

\* Even slots across the interval, in name order.
Slot(k, keys, from) ==
    from + Cardinality({j \in keys : j <= k}) * (Interval \div Cardinality(keys))

\* Mutant: the slot after the one that was due, however late it is.
SlotCaughtUp(base, t) ==
    IF t < base + Interval THEN base + Interval ELSE base + ((t - base) \div Interval) * Interval

\* Mutant: a slot too many is skipped.
SlotSkipsOne(base, t) ==
    IF t < base THEN base ELSE base + ((t - base) \div Interval + 2) * Interval

\* The first slot after t of a key whose first slot is base.
SlotAfter(base, t) ==
    IF t < base THEN base ELSE base + ((t - base) \div Interval + 1) * Interval

NextSlot(k, t, keys, from) == SlotAfter(Slot(k, keys, from), t)

------------------------------------------------------------------------------
(* forced: a dict, in the order in which its keys came *)

IsFirst(k)    == k \in forced /\ \A a \in forced : <<a, k>> \notin ahead
Without(gone) == {p \in ahead : p[1] \notin gone /\ p[2] \notin gone}

\* A key that is already there keeps its place.
Queue(k) ==
    /\ forced' = forced \cup {k}
    /\ ahead' = IF k \in forced THEN ahead ELSE ahead \cup {<<a, k>> : a \in forced}

------------------------------------------------------------------------------
(* The world *)

\* Time passes while the thread waits or samples; it is never late but for a stall.
Tick ==
    /\ now < MaxTime
    /\ \/ pc = "wait" /\ now < wakeat /\ ~ woken
       \/ pc = "sample" /\ now < started + MaxSample
    /\ now' = now + 1
    /\ UNCHANGED <<docker, layout, due, entries, queue, thread, history,
                   requests, stalls, fails>>

\* The rounds of no key are any longer what its last sample left.
Disturbed == calm' = [k \in Keys |-> FALSE]

HostStalls ==
    /\ pc \in {"wait", "sample"} /\ stalls < MaxStalls /\ now + Stall <= MaxTime
    /\ stalls' = stalls + 1
    /\ now' = now + Stall
    /\ Disturbed
    /\ UNCHANGED <<docker, layout, due, entries, queue, thread, landed, load, requests, fails>>

\* A service is created, removed or recreated.
ServicesChange(k) ==
    /\ changes < MaxChanges
    /\ changes' = changes + 1
    /\ \/ listed' = listed \cup {k} /\ k \notin listed /\ UNCHANGED replaced
       \/ listed' = listed \ {k} /\ k \in listed /\ UNCHANGED replaced
       \/ k \in listed /\ replaced' = replaced \cup {k} /\ UNCHANGED listed
    /\ UNCHANGED <<now, layout, due, entries, queue, thread, history,
                   requests, stalls, fails>>

------------------------------------------------------------------------------
(* step() *)

\* stagger(): the keys that have a sample and wait for no other get a slot of the new layout.
Settled(k) == k \in tried /\ ~ pending[k]

\* plan(): forget, add, mark what was recreated, and lay out again if the set changed.  What
\* runs for a recreated key is outdated; for one that was dropped and added again it may be.
Apply ==
    LET gone      == known \ listed
        added     == listed \ known
        recreated == replaced \cap known \cap listed
        changed   == gone \cup added # {}
        asap      == added \cup recreated
    IN  /\ known' = listed
        /\ replaced' = {}
        /\ forced' = forced \ gone
        /\ ahead' = Without(gone)
        /\ tried' = tried \ (gone \cup added)
        /\ pending' = [k \in Keys |-> pending[k] \/ k \in asap]
        /\ order' = IF changed THEN listed ELSE order
        /\ origin' = IF changed THEN now ELSE origin
        /\ due' = [k \in Keys |->
                     IF k \in asap THEN now
                     ELSE IF changed /\ k \in listed /\ Settled(k)
                          THEN NextSlot(k, now, order', origin')
                     ELSE due[k]]
        /\ outdated' \in IF running \in added THEN BOOLEAN
                         ELSE {outdated \/ running \in recreated}
        /\ calm' = [k \in Keys |-> calm[k] /\ ~ changed /\ ~ (pc = "wait" /\ due' # due)]
        /\ load' = [k \in Keys |-> IF recreated # {} THEN load[k] + N ELSE load[k]]
        /\ UNCHANGED <<now, listed, changes, attempt, running, started, wakeat, woken, landed,
                       stalls, fails>>

Plan ==
    /\ pc = "plan"
    /\ Apply
    /\ pc' = "pick"
    /\ UNCHANGED requests

\* request() for a name that is not known: the handler plans first, whatever the thread is
\* at, and does not wake it.
HandlerPlans == Apply /\ UNCHANGED <<pc, requests>>

Waits(t) == pc' = "wait" /\ wakeat' = t

PlanFails ==
    /\ pc = "plan" /\ fails < MaxFails
    /\ fails' = fails + 1
    /\ Waits(now + Listing)
    /\ Disturbed
    /\ UNCHANGED <<now, docker, layout, due, entries, queue, running, started, outdated, woken,
                   landed, load, requests, stalls>>

\* Mutant: min(due)[0] instead of min(due)[1].
BeginWhen(k) ==
    /\ pc' = "sample" /\ running' = due[k] /\ started' = now /\ outdated' = FALSE
    /\ pending' = [pending EXCEPT ![k] = TRUE]
    /\ UNCHANGED <<now, docker, layout, due, attempt, tried, wakeat, woken, history,
                   requests, stalls, fails>>

Begin(k) ==
    /\ pc' = "sample" /\ running' = k /\ started' = now /\ outdated' = FALSE
    /\ pending' = [pending EXCEPT ![k] = TRUE]
    /\ UNCHANGED <<now, docker, layout, due, attempt, tried, wakeat, woken, history,
                   requests, stalls, fails>>

PickForced(k) ==
    /\ pc = "pick" /\ IsFirst(k)
    /\ Begin(k)
    /\ forced' = forced \ {k}
    /\ ahead' = Without({k})

\* min(due): the earliest due time, and the first name of those.
IsNext(k) == \A j \in known : due[j] > due[k] \/ (due[j] = due[k] /\ j >= k)

PickDue(k) ==
    /\ pc = "pick" /\ forced = {}
    /\ k \in known /\ due[k] <= now /\ IsNext(k)
    /\ Begin(k)
    /\ UNCHANGED queue

\* step() returns the time to the next due sample, run() waits at most Listing.
Naps(t) == IF t < now + Listing THEN t ELSE now + Listing

NothingDue ==
    /\ pc = "pick" /\ forced = {}
    /\ \A k \in known : due[k] > now
    /\ IF known = {} THEN Waits(now + Listing)
       ELSE \E k \in known : IsNext(k) /\ Waits(Naps(due[k]))
    /\ UNCHANGED <<now, docker, layout, due, entries, queue, running, started, outdated, woken,
                   history, requests, stalls, fails>>

\* wake.wait and wake.clear: a request in between is in forced before the next step().
Wake ==
    /\ pc = "wait" /\ (woken \/ now >= wakeat)
    /\ pc' = "plan" /\ woken' = FALSE
    /\ UNCHANGED <<now, docker, layout, due, entries, queue, running, started, outdated,
                   wakeat, history, requests, stalls, fails>>

\* The next slot is counted from the end of the sample.
Land ==
    /\ pc = "sample" /\ running \in known /\ ~ outdated
    /\ pc' = "plan" /\ running' = 0
    /\ pending' = [pending EXCEPT ![running] = running \in forced]
    /\ attempt' = [attempt EXCEPT ![running] = started]
    /\ tried' = tried \cup {running}
    /\ due' = [due EXCEPT ![running] = NextSlot(running, now, order, origin)]
    /\ landed' = [landed EXCEPT ![running] = now]
    /\ calm' = [calm EXCEPT ![running] = now <= started + MaxSample]
    /\ load' = [load EXCEPT ![running] = 0]
    /\ UNCHANGED <<now, docker, layout, queue, started, outdated, wakeat, woken,
                   requests, stalls, fails>>

LandOutdated ==
    /\ pc = "sample" /\ running \in known /\ outdated
    /\ pc' = "plan" /\ running' = 0 /\ outdated' = FALSE
    /\ Queue(running)
    /\ UNCHANGED <<now, docker, layout, due, entries, started, wakeat, woken, history,
                   requests, stalls, fails>>

\* The key was dropped while its sample ran.
LandForgotten ==
    /\ pc = "sample" /\ running \notin known
    /\ pc' = "plan" /\ running' = 0 /\ outdated' = FALSE
    /\ UNCHANGED <<now, docker, layout, due, entries, queue, started, wakeat, woken, history,
                   requests, stalls, fails>>

\* step() died: "the schedule is untouched", and the thread waits.
Abandon ==
    /\ pc = "sample" /\ fails < MaxFails
    /\ fails' = fails + 1
    /\ pending' = [pending EXCEPT ![running] = TRUE]
    /\ running' = 0 /\ outdated' = FALSE
    /\ Waits(now + Listing)
    /\ Disturbed
    /\ UNCHANGED <<now, docker, layout, due, attempt, tried, queue, started, woken, landed,
                   load, requests, stalls>>

------------------------------------------------------------------------------
(* request() *)

TooSoon(k) == k \in tried /\ now < attempt[k] + Cooldown

\* A plain request joins what is queued or running, or is refused, or is queued; one
\* that follows an action outdates what is running and is never refused.
Request(k, invalidate) ==
    LET joins == ~ invalidate /\ running = k /\ ~ outdated
    IN  /\ requests < MaxRequests /\ k \in known
        /\ requests' = requests + 1
        /\ k \in forced \/ joins \/ invalidate \/ ~ TooSoon(k)
        /\ IF joins THEN UNCHANGED queue ELSE Queue(k)
        /\ pending' = [pending EXCEPT ![k] = TRUE]
        /\ outdated' = (outdated \/ (invalidate /\ running = k))
        /\ woken' = TRUE
        /\ load' = [j \in Keys |-> load[j] + 1]
        /\ UNCHANGED <<now, docker, layout, due, attempt, tried, pc, running, started, wakeat,
                       landed, calm, stalls, fails>>

Next ==
    \/ Tick \/ HostStalls
    \/ Plan \/ PlanFails \/ NothingDue \/ Wake \/ HandlerPlans
    \/ Land \/ LandOutdated \/ LandForgotten \/ Abandon
    \/ \E k \in Keys : ServicesChange(k) \/ PickForced(k) \/ PickDue(k)
    \/ \E k \in Keys, invalidate \in BOOLEAN : Request(k, invalidate)

Spec == Init /\ [][Next]_vars

------------------------------------------------------------------------------
(* Properties *)

TypeOK ==
    /\ now \in Nat /\ origin \in Nat /\ started \in Nat /\ wakeat \in Nat
    /\ listed \in SUBSET Keys /\ replaced \in SUBSET Keys /\ known \in SUBSET Keys
    /\ order \in SUBSET Keys /\ tried \in SUBSET Keys
    /\ due \in [Keys -> Nat] /\ attempt \in [Keys -> Nat]
    /\ landed \in [Keys -> Nat] /\ calm \in [Keys -> BOOLEAN] /\ load \in [Keys -> Nat]
    /\ pending \in [Keys -> BOOLEAN] /\ outdated \in BOOLEAN /\ woken \in BOOLEAN
    /\ forced \in SUBSET Keys /\ ahead \in SUBSET (Keys \X Keys)
    /\ pc \in {"plan", "pick", "sample", "wait"} /\ running \in Keys \cup {0}
    /\ changes \in Nat /\ requests \in Nat /\ stalls \in Nat /\ fails \in Nat

\* "Nodes spread evenly across the interval" (README.md:360): a key that waits for its
\* schedule waits for a slot of the current layout, at its place or rounds later, that no
\* other key waits for (manager.py:478-485).
SlotKept ==
    \A k \in known : ~ pending[k] =>
        /\ due[k] >= Slot(k, order, origin)
        /\ (due[k] - Slot(k, order, origin)) % Interval = 0
        /\ order = known
        /\ \A j \in known \ {k} : ~ pending[j] => due[j] # due[k]

\* "The missed slots are skipped rather than caught up" (README.md:364): however long a
\* sample or a stall took, no key is due again for a slot that was already over.
NoCatchUp == \A k \in known : ~ pending[k] => due[k] > landed[k]

\* "Each once every MANAGER_POLL_INTERVAL seconds" (README.md:359): a node whose rounds
\* nothing has disturbed since its last sample never misses one and turns stale, as long as
\* the samples that may come before its next one, for requests and recreated services
\* included, fit into an interval.
NeverStaleWhileQuiet ==
    \A k \in known : calm[k] /\ (N + 2 + load[k]) * MaxSample < Interval =>
                         now - attempt[k] < 2 * Interval
==============================================================================
