--------------------------- MODULE CollectorProofs ---------------------------
(***************************************************************************)
(* What holds of Collector, proved for every number of services, peers,    *)
(* handlers, containers, requests and faults: its types and tickets, its   *)
(* queue and pending flags, its exclusion list, its epochs, and that it    *)
(* keeps CacheContract.                                                    *)
(***************************************************************************)
EXTENDS CollectorRefines, TLAPS

\* A handler that serves a request has one, and the collector runs a sample
\* exactly between picking a key and landing its result.
Threads ==
    /\ \A h \in Handlers : hpc[h] # "idle" => req[h].key \in Keys
    /\ cpc \in {"sample", "land"} <=> running.key # NoKey

Core == TypeOK /\ Threads /\ WaiterHasOneTicket

\* A new Collector satisfies the invariant.
LEMMA InitCore == Init => Core
  <1> SUFFICES ASSUME Init PROVE Core
    OBVIOUS
  <1>1. TypeOK
    BY BoundsAssumption DEF Init, TypeOK, NewEntry, Idle, NoPlan, NoRequest, NoData,
       EntryType, DataType, RunType, PlanType, RequestType, Containers, None
  <1>2. Threads /\ WaiterHasOneTicket
    BY DEF Init, Threads, WaiterHasOneTicket, Idle
  <1> QED
    BY <1>1, <1>2 DEF Core

\* Marking an entry recreated leaves an entry.
LEMMA RecreatedEntry ==
  ASSUME NEW e \in EntryType, NEW c \in Containers \cup {None}
  PROVE  Recreated(e, c) \in EntryType
  <1> DEFINE f == [e EXCEPT !.container_id = c, !.pending = TRUE]
  <1>1. f \in EntryType
    BY DEF EntryType
  <1>2. [f EXCEPT !.epoch = @ + 1] \in EntryType
    <2> HIDE DEF f
    <2> QED
      BY <1>1 DEF EntryType
  <1> QED
    BY <1>2 DEF Recreated

\* The types of what Apply assigns.
LEMMA ApplyType ==
  ASSUME Core, NEW plan \in PlanType, Apply(plan)
  PROVE  /\ entries' \in [Keys -> EntryType]
         /\ known' \in SUBSET Keys /\ due' \in SUBSET Keys /\ forced' \in SUBSET Keys
         /\ ahead' \in SUBSET (Keys \X Keys)
         /\ waiters' \in [Keys -> SUBSET Handlers]
         /\ running' \in RunType
         /\ excluded' \in SUBSET (Containers \cup {None})
         /\ req' \in [Handlers -> RequestType]
  <1> DEFINE fresh     == Peers \cup {s \in Services : plan.nodes[s] # None}
             id(k)     == IF k \in Services THEN plan.nodes[k] ELSE None
             gone      == known \ fresh
             added     == fresh \ known
             recreated == {k \in known \cap fresh : entries[k].container_id # id(k)}
  <1>1. \A k : id(k) \in Containers \cup {None}
    BY DEF PlanType
  <1>2. entries' \in [Keys -> EntryType]
    <2> HIDE DEF id
    <2>0. \A k \in Keys : entries[k] \in EntryType
      BY DEF Core, TypeOK
    <2>1. \A k \in Keys : /\ NewEntry(None) \in EntryType
                          /\ NewEntry(id(k)) \in EntryType
      BY <1>1 DEF NewEntry, EntryType, DataType, NoData, None
    <2>2. \A k \in Keys : Recreated(entries[k], id(k)) \in EntryType
      BY <1>1, <2>0, RecreatedEntry
    <2>4. entries' = [k \in Keys |->
                         IF k \in gone THEN NewEntry(None)
                         ELSE IF k \in added THEN NewEntry(id(k))
                         ELSE IF k \in recreated THEN Recreated(entries[k], id(k))
                         ELSE entries[k]]
      BY DEF Apply, id
    <2> QED
      BY <2>0, <2>1, <2>2, <2>4
  <1>3. running' \in RunType
    BY <1>1 DEF Apply, Core, TypeOK, RunType
  <1>4. req' \in [Handlers -> RequestType]
    BY DEF Apply, Released, NoRequest, Core, TypeOK, RequestType, None
  <1>5. /\ known' \in SUBSET Keys /\ due' \in SUBSET Keys /\ forced' \in SUBSET Keys
        /\ ahead' \in SUBSET (Keys \X Keys)
        /\ waiters' \in [Keys -> SUBSET Handlers]
        /\ excluded' \in SUBSET (Containers \cup {None})
    BY DEF Apply, Without, Keys, Core, TypeOK
  <1> QED
    BY <1>2, <1>3, <1>4, <1>5

\* The fields that step(), request() and invalidate() assign keep an entry an entry.
LEMMA EntryUpdates ==
  ASSUME NEW e \in EntryType, NEW n \in Nat
  PROVE  /\ [e EXCEPT !.pending = TRUE] \in EntryType
         /\ [e EXCEPT !.epoch = n] \in EntryType
         /\ [e EXCEPT !.epoch = n, !.pending = TRUE] \in EntryType
  BY DEF EntryType

\* The same, for one entry of the dict.
LEMMA EntriesUpdates ==
  ASSUME entries \in [Keys -> EntryType], NEW k \in Keys, NEW n \in Nat
  PROVE  /\ [entries EXCEPT ![k].pending = TRUE] \in [Keys -> EntryType]
         /\ [entries EXCEPT ![k].epoch = n] \in [Keys -> EntryType]
         /\ [entries EXCEPT ![k].epoch = n, ![k].pending = TRUE] \in [Keys -> EntryType]
         /\ entries[k].epoch + 1 \in Nat
         /\ [entries EXCEPT ![k].epoch = @ + 1] \in [Keys -> EntryType]
  <1>1. /\ [entries[k] EXCEPT !.pending = TRUE] \in EntryType
        /\ [entries[k] EXCEPT !.epoch = n] \in EntryType
        /\ [entries[k] EXCEPT !.epoch = n, !.pending = TRUE] \in EntryType
        /\ [entries[k] EXCEPT !.epoch = entries[k].epoch + 1] \in EntryType
        /\ entries[k].epoch + 1 \in Nat
    <2>1. entries[k] \in EntryType
      OBVIOUS
    <2>2. entries[k].epoch + 1 \in Nat
      BY <2>1 DEF EntryType
    <2> QED
      BY <2>1, <2>2, EntryUpdates
  <1> QED
    BY <1>1

\* A result, good or failed, lands as an entry.
LEMMA LandedEntry ==
  ASSUME NEW e \in EntryType, NEW r \in RunType
  PROVE  Landed(e, r) \in EntryType
  <1> DEFINE f == [e EXCEPT !.pending = StillQueued(r.key), !.attempted = TRUE]
             o == e.ok \/ r.ok
             d == IF r.ok THEN [container_id |-> r.container_id, seen |-> r.seen] ELSE e.data
  <1>1. f \in EntryType
    <2>1. StillQueued(r.key) \in BOOLEAN
      BY DEF StillQueued
    <2> QED
      BY <2>1 DEF EntryType
  <1>2. o \in BOOLEAN /\ (~ r.ok) \in BOOLEAN
    <2>1. r.ok \in BOOLEAN
      BY DEF RunType
    <2>2. e.ok \in BOOLEAN
      BY DEF EntryType
    <2> QED
      BY <2>1, <2>2
  <1>3. d \in DataType
    BY DEF EntryType, RunType, DataType
  <1>4. [[f EXCEPT !.ok = o, !.error = ~ r.ok] EXCEPT !.data = d] \in EntryType
    <2> HIDE DEF f, o, d
    <2>1. [f EXCEPT !.ok = o, !.error = ~ r.ok] \in EntryType
      BY <1>1, <1>2 DEF EntryType
    <2> QED
      BY <2>1, <1>3 DEF EntryType
  <1> QED
    BY <1>4 DEF Landed

\* Releasing handlers, and every "nothing" value, keep the types.
LEMMA ReleasedType ==
  ASSUME Core, NEW hs
  PROVE  /\ Resolved(hs) \in [Handlers -> {"idle", "invalidate", "act", "check", "plan",
                                           "apply", "ask", "wait"}]
         /\ Released(hs) \in [Handlers -> RequestType]
         /\ NoRequest \in RequestType /\ NoPlan \in PlanType /\ Idle \in RunType
  BY DEF Core, TypeOK, Resolved, Released, NoRequest, NoPlan, Idle, RequestType,
     PlanType, RunType, None

\* A listing is a plan.
LEMMA SnapshotType ==
  ASSUME Core PROVE Snapshot \in PlanType /\ Found \in SUBSET (Containers \cup {None})
  BY DEF Core, TypeOK, Snapshot, Found, PlanType

\* Who a plan releases: exactly the waiters of the tickets it drops.
LEMMA ApplyDrops ==
  ASSUME Core, NEW plan, Apply(plan),
         NEW hs, hs = UNION {waiters[k] : k \in known \ known'}
  PROVE  /\ req' = Released(hs)
         /\ \A h \in hs : h \in Handlers /\ hpc[h] = "wait" /\ h \notin running.waiters
         /\ running'.waiters = running.waiters /\ running'.key = running.key
         /\ \A k \in Keys : waiters'[k] = waiters[k] \ hs
         /\ \A k \in Keys : waiters'[k] # {} => k \in forced'
  <1> DEFINE gone == known \ (Peers \cup {s \in Services : plan.nodes[s] # None})
  <1>1. gone = known \ known' /\ gone \subseteq Keys
    BY DEF Apply, Core, TypeOK
  <1>2. hs = UNION {waiters[k] : k \in gone}
    BY <1>1
  <1>3. req' = Released(hs)
    BY <1>2 DEF Apply
  <1>4. \A h \in hs : h \in Handlers /\ hpc[h] = "wait" /\ h \notin running.waiters
    BY <1>1, <1>2 DEF Core, TypeOK, WaiterHasOneTicket
  <1>5. running'.waiters = running.waiters /\ running'.key = running.key
    BY DEF Apply, Core, TypeOK, RunType
  <1>6. waiters' = [k \in Keys |-> IF k \in gone THEN {} ELSE waiters[k]]
    BY DEF Apply
  <1>7. \A k \in Keys : waiters'[k] = waiters[k] \ hs
    <2> SUFFICES ASSUME NEW k \in Keys PROVE waiters'[k] = waiters[k] \ hs
      OBVIOUS
    <2>1. CASE k \in gone
      BY <2>1, <1>2, <1>6
    <2>2. CASE k \notin gone
      <3>1. ASSUME NEW h \in waiters[k], h \in hs PROVE FALSE
        <4>1. PICK g \in gone : h \in waiters[g]
          BY <3>1, <1>2
        <4>2. req[h].key = g /\ req[h].key = k
          BY <4>1, <1>1 DEF Core, WaiterHasOneTicket
        <4> QED
          BY <4>2, <2>2
      <3> QED
        BY <2>2, <3>1, <1>6
    <2> QED
      BY <2>1, <2>2
  <1>8. \A k \in Keys : waiters'[k] # {} => k \in forced'
    BY <1>6 DEF Apply, Core, WaiterHasOneTicket
  <1> QED
    BY <1>3, <1>4, <1>5, <1>7, <1>8

\* While no sample runs, nobody waits for one.
LEMMA IdleWaiters == Core /\ running.key = NoKey => running.waiters = {}
  BY KeysAssumption DEF Core, TypeOK, RunType, Threads, WaiterHasOneTicket

\* plan() by the collector thread keeps the invariant.
LEMMA PlanApplyCore == Core /\ PlanApply => Core'
  <1> SUFFICES ASSUME Core, PlanApply PROVE Core'
    OBVIOUS
  <1> DEFINE hs == UNION {waiters[k] : k \in known \ known'}
  <1>1. cplan \in PlanType /\ Apply(cplan)
    BY DEF Core, TypeOK, PlanApply
  <1>2. TypeOK'
    BY <1>1, ApplyType, ReleasedType DEF Core, TypeOK, PlanApply, docker
  <1>3. /\ req' = Released(hs) /\ hpc' = Resolved(hs) /\ cpc' = "pick"
        /\ \A h \in hs : h \in Handlers /\ hpc[h] = "wait" /\ h \notin running.waiters
        /\ running'.waiters = running.waiters /\ running'.key = running.key
        /\ \A k \in Keys : waiters'[k] = waiters[k] \ hs
        /\ \A k \in Keys : waiters'[k] # {} => k \in forced'
    BY <1>1, ApplyDrops DEF PlanApply
  <1> HIDE DEF hs
  <1>4. Threads'
    BY <1>3 DEF Core, TypeOK, Threads, PlanApply, Resolved, Released, NoRequest
  <1>5. WaiterHasOneTicket'
    BY <1>3 DEF Core, TypeOK, RunType, WaiterHasOneTicket, Resolved, Released, NoRequest
  <1> QED
    BY <1>2, <1>4, <1>5 DEF Core

\* plan() by a handler thread keeps the invariant: the handler itself holds no ticket yet.
LEMMA HandlerPlanApplyCore ==
  ASSUME Core, NEW h \in Handlers, HandlerPlanApply(h)
  PROVE  Core'
  <1> DEFINE hs == UNION {waiters[k] : k \in known \ known'}
  <1>1. hplan[h] \in PlanType /\ Apply(hplan[h])
    BY DEF Core, TypeOK, HandlerPlanApply
  <1>2. TypeOK'
    BY <1>1, ApplyType, ReleasedType DEF Core, TypeOK, HandlerPlanApply, docker
  <1>3. /\ req' = Released(hs) /\ hpc' = [Resolved(hs) EXCEPT ![h] = "ask"] /\ cpc' = cpc
        /\ \A g \in hs : g \in Handlers /\ hpc[g] = "wait" /\ g \notin running.waiters
        /\ running'.waiters = running.waiters /\ running'.key = running.key
        /\ \A k \in Keys : waiters'[k] = waiters[k] \ hs
        /\ \A k \in Keys : waiters'[k] # {} => k \in forced'
    BY <1>1, ApplyDrops DEF HandlerPlanApply
  <1>4. hpc[h] = "apply" /\ h \notin hs
    BY <1>3 DEF HandlerPlanApply
  <1> HIDE DEF hs
  <1>5. Threads'
    BY <1>3, <1>4 DEF Core, TypeOK, Threads, Resolved, Released, NoRequest
  <1>6. WaiterHasOneTicket'
    BY <1>3, <1>4 DEF Core, TypeOK, RunType, WaiterHasOneTicket, Resolved, Released, NoRequest
  <1> QED
    BY <1>2, <1>5, <1>6 DEF Core

\* So does every step: one case per action, and under it one per conjunct it disturbs.
LEMMA NextCore == Core /\ [Next]_vars => Core'
  <1> SUFFICES ASSUME Core, [Next]_vars PROVE Core'
    OBVIOUS
  <1>1. ASSUME NEW s \in Services, CreateContainer(s) PROVE Core'
    <2>1. TypeOK'
      BY <1>1, BoundsAssumption, ReleasedType DEF Core, TypeOK, docker, cache, thread,
         http, Threads, CreateContainer, Containers
    <2>2. Threads'
      BY <1>1, BoundsAssumption, KeysAssumption DEF Core, TypeOK, RunType, Threads,
         WaiterHasOneTicket, docker, cache, thread, http, CreateContainer, Containers
    <2>3. WaiterHasOneTicket'
      BY <1>1, BoundsAssumption, KeysAssumption DEF Core, TypeOK, RunType, Threads,
         WaiterHasOneTicket, docker, cache, thread, http, CreateContainer, Containers
    <2> QED
      BY <2>1, <2>2, <2>3 DEF Core
  <1>2. ASSUME NEW s \in Services, RemoveService(s) PROVE Core'
    BY <1>2 DEF Core, TypeOK, RunType, Threads, WaiterHasOneTicket, docker, cache,
       thread, http, RemoveService
  <1>3. ASSUME PlanList PROVE Core'
    BY <1>3 DEF Core, TypeOK, RunType, Threads, WaiterHasOneTicket, docker, cache,
       thread, http, PlanList, Snapshot, Found, PlanType
  <1>4. ASSUME PlanFail PROVE Core'
    BY <1>4 DEF Core, TypeOK, RunType, Threads, WaiterHasOneTicket, docker, cache,
       thread, http, PlanFail, NoPlan, PlanType, None
  <1>5. ASSUME PlanApply PROVE Core'
    BY <1>5, PlanApplyCore
  <1>6. ASSUME NothingDue PROVE Core'
    BY <1>6 DEF Core, TypeOK, RunType, Threads, WaiterHasOneTicket, docker, cache,
       thread, http, NothingDue
  <1>7. ASSUME Wake PROVE Core'
    BY <1>7 DEF Core, TypeOK, RunType, Threads, WaiterHasOneTicket, docker, cache,
       thread, http, Wake
  <1>8. ASSUME NEW k \in Keys, PickForced(k) PROVE Core'
    <2>1. running.waiters = {}
      BY <1>8, IdleWaiters DEF PickForced, Core, Threads
    <2>2. running' \in RunType
      BY <1>8 DEF Core, TypeOK, PickForced, Begin, RunType, EntryType
    <2>3. entries' \in [Keys -> EntryType]
      BY <1>8, EntriesUpdates DEF Core, TypeOK, PickForced, Begin
    <2>4. TypeOK'
      BY <1>8, <2>1, <2>2, <2>3, ReleasedType DEF Core, TypeOK, docker, cache, thread,
         http, Threads, PickForced, Begin, Without
    <2>5. Threads'
      BY <1>8, <2>1, <2>2, <2>3, KeysAssumption DEF Core, TypeOK, RunType, Threads,
         WaiterHasOneTicket, docker, cache, thread, http, PickForced, Begin, Without
    <2>6. WaiterHasOneTicket'
      BY <1>8, <2>1, <2>2, <2>3, KeysAssumption DEF Core, TypeOK, RunType, Threads,
         WaiterHasOneTicket, docker, cache, thread, http, PickForced, Begin, Without
    <2> QED
      BY <2>4, <2>5, <2>6 DEF Core
  <1>9. ASSUME NEW k \in Keys, PickDue(k) PROVE Core'
    <2>1. running.waiters = {}
      BY <1>9, IdleWaiters DEF PickDue, Core, Threads
    <2>2. running' \in RunType
      BY <1>9 DEF Core, TypeOK, PickDue, Begin, RunType, EntryType
    <2>3. entries' \in [Keys -> EntryType]
      BY <1>9, EntriesUpdates DEF Core, TypeOK, PickDue, Begin
    <2>4. TypeOK'
      BY <1>9, <2>1, <2>2, <2>3, ReleasedType DEF Core, TypeOK, docker, cache, thread,
         http, Threads, PickDue, Begin, Without
    <2>5. Threads'
      BY <1>9, <2>1, <2>2, <2>3, KeysAssumption DEF Core, TypeOK, RunType, Threads,
         WaiterHasOneTicket, docker, cache, thread, http, PickDue, Begin, Without
    <2>6. WaiterHasOneTicket'
      BY <1>9, <2>1, <2>2, <2>3, KeysAssumption DEF Core, TypeOK, RunType, Threads,
         WaiterHasOneTicket, docker, cache, thread, http, PickDue, Begin, Without
    <2> QED
      BY <2>4, <2>5, <2>6 DEF Core
  <1>10. ASSUME NEW b \in BOOLEAN, Observe(b) PROVE Core'
    BY <1>10 DEF Core, TypeOK, RunType, Threads, WaiterHasOneTicket, docker, cache,
       thread, http, Observe
  <1>11. ASSUME LandOutdated PROVE Core'
    BY <1>11 DEF Core, TypeOK, RunType, Threads, WaiterHasOneTicket, docker, cache,
       thread, http, LandOutdated, Queue, Joined, Idle, None
  <1>12. ASSUME LandCurrent PROVE Core'
    <2>1. /\ running \in RunType /\ running.key \in Keys
          /\ entries \in [Keys -> EntryType]
      BY <1>12 DEF Core, TypeOK, LandCurrent
    <2>2. entries[running.key] \in EntryType
      BY <2>1
    <2>3. Landed(entries[running.key], running) \in EntryType
      BY <2>1, <2>2, LandedEntry
    <2>4. entries' = [entries EXCEPT ![running.key] = Landed(entries[running.key], running)]
      BY <1>12 DEF LandCurrent
    <2>5. entries' \in [Keys -> EntryType]
      BY <2>1, <2>3, <2>4
    <2>6. TypeOK'
      BY <1>12, <2>5, ReleasedType DEF Core, TypeOK, docker, cache, thread, http,
         Threads, LandCurrent
    <2>7. Threads'
      BY <1>12, <2>5, KeysAssumption DEF Core, TypeOK, RunType, Threads,
         WaiterHasOneTicket, docker, cache, thread, http, LandCurrent, Resolved,
         Released, NoRequest, Idle
    <2>8. WaiterHasOneTicket'
      BY <1>12, <2>5, KeysAssumption DEF Core, TypeOK, RunType, Threads,
         WaiterHasOneTicket, docker, cache, thread, http, LandCurrent, Resolved,
         Released, NoRequest, Idle
    <2> QED
      BY <2>6, <2>7, <2>8 DEF Core
  <1>13. ASSUME LandForgotten PROVE Core'
    BY <1>13 DEF Core, TypeOK, RunType, Threads, WaiterHasOneTicket, docker, cache,
       thread, http, LandForgotten, Resolved, Released, NoRequest, Idle, RequestType, None
  <1>14. ASSUME Abandon PROVE Core'
    <2>1. entries' \in [Keys -> EntryType]
      BY <1>14, EntriesUpdates DEF Core, TypeOK, Abandon
    <2>2. TypeOK'
      BY <1>14, <2>1, ReleasedType DEF Core, TypeOK, docker, cache, thread, http,
         Threads, Abandon
    <2>3. Threads'
      BY <1>14, <2>1, KeysAssumption DEF Core, TypeOK, RunType, Threads,
         WaiterHasOneTicket, docker, cache, thread, http, Abandon, Resolved, Released,
         NoRequest, Idle
    <2>4. WaiterHasOneTicket'
      BY <1>14, <2>1, KeysAssumption DEF Core, TypeOK, RunType, Threads,
         WaiterHasOneTicket, docker, cache, thread, http, Abandon, Resolved, Released,
         NoRequest, Idle
    <2> QED
      BY <2>2, <2>3, <2>4 DEF Core
  <1>15. ASSUME NEW h \in Handlers, NEW k \in Keys, Refresh(h, k) PROVE Core'
    <2>1. req' \in [Handlers -> RequestType]
      BY <1>15 DEF Core, TypeOK, Refresh, Accept, NoRequest, RequestType, Keys, None
    <2>2. TypeOK'
      BY <1>15, <2>1, ReleasedType DEF Core, TypeOK, docker, cache, thread, http,
         Threads, Refresh, Accept, NoRequest, Keys
    <2>3. Threads'
      BY <1>15, <2>1, KeysAssumption DEF Core, TypeOK, RunType, Threads,
         WaiterHasOneTicket, docker, cache, thread, http, Refresh, Accept, NoRequest, Keys
    <2>4. WaiterHasOneTicket'
      BY <1>15, <2>1, KeysAssumption DEF Core, TypeOK, RunType, Threads,
         WaiterHasOneTicket, docker, cache, thread, http, Refresh, Accept, NoRequest, Keys
    <2> QED
      BY <2>2, <2>3, <2>4 DEF Core
  <1>16. ASSUME NEW h \in Handlers, NEW s \in Services, Locate(h, s) PROVE Core'
    <2>1. req' \in [Handlers -> RequestType]
      BY <1>16 DEF Core, TypeOK, Locate, Accept, NoRequest, RequestType, Keys, None
    <2>2. TypeOK'
      BY <1>16, <2>1, ReleasedType DEF Core, TypeOK, docker, cache, thread, http,
         Threads, Locate, Accept, NoRequest, Keys
    <2>3. Threads'
      BY <1>16, <2>1, KeysAssumption DEF Core, TypeOK, RunType, Threads,
         WaiterHasOneTicket, docker, cache, thread, http, Locate, Accept, NoRequest, Keys
    <2>4. WaiterHasOneTicket'
      BY <1>16, <2>1, KeysAssumption DEF Core, TypeOK, RunType, Threads,
         WaiterHasOneTicket, docker, cache, thread, http, Locate, Accept, NoRequest, Keys
    <2> QED
      BY <2>2, <2>3, <2>4 DEF Core
  <1>17. ASSUME NEW h \in Handlers, NEW p \in Peers, Relay(h, p) PROVE Core'
    <2>1. p \in Keys /\ changes[p] + 1 \in Nat
      BY DEF Core, TypeOK, Keys
    <2>2. [NoRequest EXCEPT !.key = p, !.invalidate = TRUE, !.goal = changes[p] + 1]
             \in RequestType
      BY <2>1 DEF NoRequest, RequestType, None
    <2>3. req' \in [Handlers -> RequestType]
      BY <1>17, <2>2 DEF Core, TypeOK, Relay, Accept
    <2>4. TypeOK'
      BY <1>17, <2>1, <2>3, ReleasedType DEF Core, TypeOK, docker, cache, thread, http,
         Threads, Relay, Accept, NoRequest, Keys
    <2>5. Threads'
      BY <1>17, <2>1, <2>3, KeysAssumption DEF Core, TypeOK, RunType, Threads,
         WaiterHasOneTicket, docker, cache, thread, http, Relay, Accept, NoRequest, Keys
    <2>6. WaiterHasOneTicket'
      BY <1>17, <2>1, <2>3, KeysAssumption DEF Core, TypeOK, RunType, Threads,
         WaiterHasOneTicket, docker, cache, thread, http, Relay, Accept, NoRequest, Keys
    <2> QED
      BY <2>4, <2>5, <2>6 DEF Core
  <1>18. ASSUME NEW h \in Handlers, Invalidate(h) PROVE Core'
    <2>1. entries' \in [Keys -> EntryType]
      BY <1>18, EntriesUpdates DEF Core, TypeOK, Invalidate
    <2>2. TypeOK'
      BY <1>18, <2>1, ReleasedType DEF Core, TypeOK, docker, cache, thread, http,
         Threads, Invalidate, Moves
    <2>3. Threads'
      BY <1>18, <2>1, KeysAssumption DEF Core, TypeOK, RunType, Threads,
         WaiterHasOneTicket, docker, cache, thread, http, Invalidate, Moves
    <2>4. WaiterHasOneTicket'
      BY <1>18, <2>1, KeysAssumption DEF Core, TypeOK, RunType, Threads,
         WaiterHasOneTicket, docker, cache, thread, http, Invalidate, Moves
    <2> QED
      BY <2>2, <2>3, <2>4 DEF Core
  <1>19. ASSUME NEW h \in Handlers, Act(h) PROVE Core'
    <2>1. req[h].key \in Keys /\ changes[req[h].key] + 1 \in Nat
      BY <1>19 DEF Core, TypeOK, Threads, Act, Moves
    <2>2. req' \in [Handlers -> RequestType]
      BY <1>19, <2>1 DEF Core, TypeOK, Act, RequestType
    <2>3. TypeOK'
      BY <1>19, <2>1, <2>2, ReleasedType DEF Core, TypeOK, docker, cache, thread, http,
         Threads, Act, Moves
    <2>4. Threads'
      BY <1>19, <2>1, <2>2, KeysAssumption DEF Core, TypeOK, RunType, Threads,
         WaiterHasOneTicket, docker, cache, thread, http, Act, Moves
    <2>5. WaiterHasOneTicket'
      BY <1>19, <2>1, <2>2, KeysAssumption DEF Core, TypeOK, RunType, Threads,
         WaiterHasOneTicket, docker, cache, thread, http, Act, Moves
    <2> QED
      BY <2>3, <2>4, <2>5 DEF Core
  <1>20. ASSUME NEW h \in Handlers, ActFails(h) PROVE Core'
    <2>1. req[h].key \in Keys
      BY <1>20 DEF Core, Threads, ActFails
    <2>2. changes[req[h].key] + 1 \in Nat
      BY <2>1 DEF Core, TypeOK
    <2>3. changes' \in [Keys -> Nat]
      BY <1>20, <2>1, <2>2 DEF Core, TypeOK, ActFails
    <2>4. TypeOK'
      BY <1>20, <2>3, ReleasedType DEF Core, TypeOK, docker, cache, thread, http,
         Threads, ActFails, Fails
    <2>5. Threads'
      BY <1>20, <2>3, KeysAssumption DEF Core, TypeOK, RunType, Threads,
         WaiterHasOneTicket, docker, cache, thread, http, ActFails, Fails, NoRequest
    <2>6. WaiterHasOneTicket'
      BY <1>20, <2>3, KeysAssumption DEF Core, TypeOK, RunType, Threads,
         WaiterHasOneTicket, docker, cache, thread, http, ActFails, Fails, NoRequest
    <2> QED
      BY <2>4, <2>5, <2>6 DEF Core
  <1>21. ASSUME NEW h \in Handlers, Check(h) PROVE Core'
    <2>1. TypeOK'
      BY <1>21, ReleasedType DEF Core, TypeOK, docker, cache, thread, http, Threads,
         Check, Moves
    <2>2. Threads'
      BY <1>21, KeysAssumption DEF Core, TypeOK, RunType, Threads, WaiterHasOneTicket,
         docker, cache, thread, http, Check, Moves
    <2>3. WaiterHasOneTicket'
      BY <1>21, KeysAssumption DEF Core, TypeOK, RunType, Threads, WaiterHasOneTicket,
         docker, cache, thread, http, Check, Moves
    <2> QED
      BY <2>1, <2>2, <2>3 DEF Core
  <1>22. ASSUME NEW h \in Handlers, HandlerPlanList(h) PROVE Core'
    <2>1. Snapshot \in PlanType /\ Found \in SUBSET (Containers \cup {None})
      BY SnapshotType
    <2>2. TypeOK'
      BY <1>22, <2>1, ReleasedType DEF Core, TypeOK, docker, cache, thread, http,
         Threads, HandlerPlanList, Moves
    <2>3. Threads'
      BY <1>22, <2>1, KeysAssumption DEF Core, TypeOK, RunType, Threads,
         WaiterHasOneTicket, docker, cache, thread, http, HandlerPlanList, Moves
    <2>4. WaiterHasOneTicket'
      BY <1>22, <2>1, KeysAssumption DEF Core, TypeOK, RunType, Threads,
         WaiterHasOneTicket, docker, cache, thread, http, HandlerPlanList, Moves
    <2> QED
      BY <2>2, <2>3, <2>4 DEF Core
  <1>23. ASSUME NEW h \in Handlers, HandlerPlanFail(h) PROVE Core'
    <2>1. TypeOK'
      BY <1>23, ReleasedType DEF Core, TypeOK, docker, cache, thread, http, Threads,
         HandlerPlanFail, Fails
    <2>2. Threads'
      BY <1>23, KeysAssumption DEF Core, TypeOK, RunType, Threads, WaiterHasOneTicket,
         docker, cache, thread, http, HandlerPlanFail, Fails, NoRequest
    <2>3. WaiterHasOneTicket'
      BY <1>23, KeysAssumption DEF Core, TypeOK, RunType, Threads, WaiterHasOneTicket,
         docker, cache, thread, http, HandlerPlanFail, Fails, NoRequest
    <2> QED
      BY <2>1, <2>2, <2>3 DEF Core
  <1>24. ASSUME NEW h \in Handlers, HandlerPlanApply(h) PROVE Core'
    BY <1>24, HandlerPlanApplyCore
  <1>25. ASSUME NEW h \in Handlers, AskNotFound(h) PROVE Core'
    <2>1. TypeOK'
      BY <1>25, ReleasedType DEF Core, TypeOK, docker, cache, thread, http, Threads,
         AskNotFound, Fails
    <2>2. Threads'
      BY <1>25, KeysAssumption DEF Core, TypeOK, RunType, Threads, WaiterHasOneTicket,
         docker, cache, thread, http, AskNotFound, Fails, NoRequest
    <2>3. WaiterHasOneTicket'
      BY <1>25, KeysAssumption DEF Core, TypeOK, RunType, Threads, WaiterHasOneTicket,
         docker, cache, thread, http, AskNotFound, Fails, NoRequest
    <2> QED
      BY <2>1, <2>2, <2>3 DEF Core
  <1>26. ASSUME NEW h \in Handlers, AskTooSoon(h) PROVE Core'
    <2>1. TypeOK'
      BY <1>26, ReleasedType DEF Core, TypeOK, docker, cache, thread, http, Threads,
         AskTooSoon, Fails
    <2>2. Threads'
      BY <1>26, KeysAssumption DEF Core, TypeOK, RunType, Threads, WaiterHasOneTicket,
         docker, cache, thread, http, AskTooSoon, Fails, NoRequest
    <2>3. WaiterHasOneTicket'
      BY <1>26, KeysAssumption DEF Core, TypeOK, RunType, Threads, WaiterHasOneTicket,
         docker, cache, thread, http, AskTooSoon, Fails, NoRequest
    <2> QED
      BY <2>1, <2>2, <2>3 DEF Core
  <1>27. ASSUME NEW h \in Handlers, Ask(h) PROVE Core'
    <2>1. EpochAt(h) \in Nat
      BY <1>27 DEF Core, TypeOK, EpochAt, EntryType, Ask
    <2>2. entries' \in [Keys -> EntryType]
      BY <1>27, <2>1, EntriesUpdates DEF Core, TypeOK, Ask
    <2>3. running' \in RunType
      BY <1>27 DEF Core, TypeOK, RunType, Ask
    <2>4. TypeOK'
      BY <1>27, <2>2, <2>3, ReleasedType DEF Core, TypeOK, docker, cache, thread, http,
         Threads, Ask, Moves, Queue, Joined, CanJoinRunning
    <2>5. Threads'
      BY <1>27, <2>2, <2>3, KeysAssumption DEF Core, TypeOK, RunType, Threads,
         WaiterHasOneTicket, docker, cache, thread, http, Ask, Moves, Queue, Joined,
         CanJoinRunning
    <2>6. WaiterHasOneTicket'
      BY <1>27, <2>2, <2>3, KeysAssumption DEF Core, TypeOK, RunType, Threads,
         WaiterHasOneTicket, docker, cache, thread, http, Ask, Moves, Queue, Joined,
         CanJoinRunning
    <2> QED
      BY <2>4, <2>5, <2>6 DEF Core
  <1>28. ASSUME NEW h \in Handlers, Timeout(h) PROVE Core'
    <2>1. running' \in RunType
      BY <1>28 DEF Core, TypeOK, RunType, Timeout
    <2>2. TypeOK'
      BY <1>28, <2>1, ReleasedType DEF Core, TypeOK, docker, cache, thread, http,
         Threads, Timeout, Fails
    <2>3. Threads'
      BY <1>28, <2>1, KeysAssumption DEF Core, TypeOK, RunType, Threads,
         WaiterHasOneTicket, docker, cache, thread, http, Timeout, Fails, NoRequest
    <2>4. WaiterHasOneTicket'
      BY <1>28, <2>1, KeysAssumption DEF Core, TypeOK, RunType, Threads,
         WaiterHasOneTicket, docker, cache, thread, http, Timeout, Fails, NoRequest
    <2> QED
      BY <2>2, <2>3, <2>4 DEF Core
  <1>29. CASE UNCHANGED vars
    BY <1>29 DEF Core, TypeOK, RunType, Threads, WaiterHasOneTicket, docker, cache,
       thread, http, vars
  <1> QED
    BY <1>1, <1>2, <1>3, <1>4, <1>5, <1>6, <1>7, <1>8, <1>9, <1>10, <1>11, <1>12, <1>13,
       <1>14, <1>15, <1>16, <1>17, <1>18, <1>19, <1>20, <1>21, <1>22, <1>23, <1>24,
       <1>25, <1>26, <1>27, <1>28, <1>29 DEF Next, Docker, Step, Handle

\* The inductive invariant: types, what each thread's position says of its data, and tickets.
THEOREM CoreInvariant == Spec => []Core
  <1> QED
    BY InitCore, NextCore, PTL DEF Spec

\* Every variable keeps its type, the entry of every key included.
THEOREM TypeTheorem == Spec => []TypeOK
  <1>1. Core => TypeOK
    BY DEF Core
  <1> QED
    BY <1>1, CoreInvariant, PTL

\* Every waiter holds exactly one live ticket, of the key it asked for
\* (manager.py:365-378, 489-518, 529-583): no path through plan, step, request or
\* abandon strands one.
THEOREM TicketTheorem == Spec => []WaiterHasOneTicket
  <1>1. Core => WaiterHasOneTicket
    BY DEF Core
  <1> QED
    BY <1>1, CoreInvariant, PTL

------------------------------------------------------------------------------
(* The queue, the pending flags, the exclusion list and the epochs. *)

\* No plan that is still to be applied holds a manager.
PlansHoldNoManager ==
    /\ \A s \in Services : cplan.nodes[s] \notin ManagerIds
    /\ \A h \in Handlers, s \in Services : hplan[h].nodes[s] \notin ManagerIds

Managers == ManagersNeverSampled /\ PlansHoldNoManager

\* While the sampled Entry object is the one in entries, an epoch that has not
\* moved means that the container has not changed.
EpochGuardsContainer ==
    running.live =>
        /\ running.key \in known
        /\ running.epoch <= entries[running.key].epoch
        /\ cpc = "sample" \/ running.epoch = entries[running.key].epoch =>
              running.container_id = entries[running.key].container_id

\* What a request asks to see has happened, and a sample that may answer an
\* invalidating request has seen it.
GoalsReached ==
    /\ \A h \in Handlers : hpc[h] # "idle" => req[h].goal <= changes[req[h].key]
    /\ running.live /\ cpc = "land" =>
          \A h \in running.waiters : req[h].invalidate => running.seen >= req[h].goal

Fresh == EpochGuardsContainer /\ GoalsReached

\* A plan's effect, key by key: a key is new, or recreated, or left alone, or gone.
PlannedId(plan, k) == IF k \in Services THEN plan.nodes[k] ELSE None

\* What applying a listing keeps of the queue and of the entries.
LEMMA ApplyFacts ==
  ASSUME Core, NEW plan \in PlanType, Apply(plan)
  PROVE  /\ known' \subseteq Keys
         /\ \A k \in known' \ known : entries'[k] = NewEntry(PlannedId(plan, k)) /\ k \in due'
         /\ \A k \in known' \cap known :
               \/ entries'[k] = entries[k] /\ (k \in due => k \in due')
                  /\ entries[k].container_id = PlannedId(plan, k)
               \/ entries'[k] = Recreated(entries[k], PlannedId(plan, k)) /\ k \in due'
                  /\ entries[k].container_id # PlannedId(plan, k)
         /\ forced' = forced \ (known \ known')
         /\ ahead' = Without(known \ known')
         /\ due' \subseteq (due \ (known \ known')) \cup known'
         /\ excluded' \subseteq excluded
         /\ \A k \in known' \cap Services : plan.nodes[k] # None
         /\ PlannedId(plan, running.key) \in Containers \cup {None}
  <1> DEFINE fresh == Peers \cup {s \in Services : plan.nodes[s] # None}
             gone  == known \ fresh
             recreated == {k \in known \cap fresh : entries[k].container_id # PlannedId(plan, k)}
  <1>1. known' = fresh /\ fresh \subseteq Keys
    BY DEF Apply, Keys
  <1>2. entries' = [k \in Keys |->
                      IF k \in gone THEN NewEntry(None)
                      ELSE IF k \in fresh \ known THEN NewEntry(PlannedId(plan, k))
                      ELSE IF k \in recreated THEN Recreated(entries[k], PlannedId(plan, k))
                      ELSE entries[k]]
    BY DEF Apply, PlannedId
  <1>3. due' = (due \ gone) \cup (fresh \ known) \cup recreated
    BY DEF Apply, PlannedId
  <1>4. \A k \in known' \ known : entries'[k] = NewEntry(PlannedId(plan, k)) /\ k \in due'
    <2> HIDE DEF recreated
    <2> QED
      BY <1>1, <1>2, <1>3
  <1>5. ASSUME NEW k \in known' \cap known
        PROVE  \/ entries'[k] = entries[k] /\ (k \in due => k \in due')
                  /\ entries[k].container_id = PlannedId(plan, k)
               \/ entries'[k] = Recreated(entries[k], PlannedId(plan, k)) /\ k \in due'
                  /\ entries[k].container_id # PlannedId(plan, k)
    <2>1. CASE k \in recreated
      BY <2>1, <1>1, <1>2, <1>3
    <2>2. CASE k \notin recreated
      BY <2>2, <1>1, <1>2, <1>3
    <2> QED
      BY <2>1, <2>2
  <1>6. /\ forced' = forced \ (known \ known') /\ ahead' = Without(known \ known')
        /\ excluded' \subseteq excluded
    BY <1>1 DEF Apply
  <1>7. due' \subseteq (due \ (known \ known')) \cup known'
    BY <1>1, <1>3
  <1>8. \A k \in known' \cap Services : plan.nodes[k] # None
    BY <1>1, KeysAssumption
  <1>9. PlannedId(plan, running.key) \in Containers \cup {None}
    BY DEF PlannedId, PlanType
  <1> QED
    BY <1>1, <1>4, <1>5, <1>6, <1>7, <1>8, <1>9

\* What a plan leaves of the sample that is running.
LEMMA ApplyRunning ==
  ASSUME Core, NEW plan \in PlanType, Apply(plan)
  PROVE  /\ running'.key = running.key /\ running'.epoch = running.epoch
         /\ running'.waiters = running.waiters /\ running'.seen = running.seen
         /\ running'.live <=> running.live /\ running.key \notin known \ known'
         /\ running'.container_id =
              IF /\ running.live /\ cpc = "sample" /\ running.key \in known \cap known'
                 /\ entries[running.key].container_id # PlannedId(plan, running.key)
              THEN PlannedId(plan, running.key) ELSE running.container_id
  BY DEF Apply, PlannedId, Core, TypeOK, RunType

\* The fields the invariants below read of a new and of a recreated entry.
LEMMA EntryFields ==
  ASSUME NEW e \in EntryType, NEW c
  PROVE  /\ NewEntry(c).pending /\ NewEntry(c).container_id = c
         /\ Recreated(e, c).pending /\ Recreated(e, c).container_id = c
         /\ Recreated(e, c).epoch = e.epoch + 1
  BY DEF NewEntry, Recreated, EntryType

------------------------------------------------------------------------------
(* Most steps leave the cache and the sample alone; the others are a few. *)

\* A step that the four invariants below do not notice.
Quiet ==
    /\ UNCHANGED <<entries, known, due, forced, ahead, excluded, faults>>
    /\ running'.key = running.key /\ running'.epoch = running.epoch
    /\ running'.container_id = running.container_id /\ (running'.live <=> running.live)
    /\ cpc' = "sample" <=> cpc = "sample"
    /\ cplan' \in {cplan, NoPlan}
    /\ \A h \in Handlers : hplan'[h] \in {hplan[h], NoPlan}

\* A thread has listed the containers, or has applied a listing it took before.
Listed ==
    /\ UNCHANGED <<entries, known, due, forced, ahead, running, faults>>
    /\ excluded' = excluded \cup Found
    /\ cpc' = "sample" <=> cpc = "sample"
    /\ cplan' \in {cplan, Snapshot}
    /\ \A h \in Handlers : hplan'[h] \in {hplan[h], Snapshot}

Applied(plan) ==
    /\ Apply(plan)
    /\ faults' = faults
    /\ cpc' = "sample" => cpc = "sample"
    /\ cplan' \in {cplan, NoPlan}
    /\ \A h \in Handlers : hplan'[h] \in {hplan[h], NoPlan}

\* The listings that may be applied in this state.
Plans == {cplan} \cup {hplan[h] : h \in Handlers}

Picked(k) == cpc = "pick" /\ k \in known /\ (k \in forced \/ forced = {}) /\ Begin(k)

\* What a step can be, as far as the cache is concerned.
Kinds ==
    \/ Quiet \/ Listed
    \/ \E plan \in Plans : Applied(plan)
    \/ \E k \in Keys : Picked(k)
    \/ \E b \in BOOLEAN : Observe(b)
    \/ LandOutdated \/ LandCurrent \/ LandForgotten \/ Abandon
    \/ \E h \in Handlers : Invalidate(h) \/ Ask(h)

\* Every step of the specification is of one of these kinds.
LEMMA StepKinds == Core /\ QueueConsistent /\ [Next]_vars => Kinds
  <1> SUFFICES ASSUME Core, QueueConsistent, [Next]_vars PROVE Kinds
    OBVIOUS
  <1> USE DEF Kinds
  <1>0. CASE \/ UNCHANGED vars \/ PlanFail \/ NothingDue \/ Wake
             \/ \E s \in Services : CreateContainer(s) \/ RemoveService(s)
    BY <1>0 DEF Quiet, vars, docker, cache, thread, http, PlanFail, NothingDue, Wake,
       CreateContainer, RemoveService
  <1>1. ASSUME NEW h \in Handlers,
               \/ \E k \in Keys : Refresh(h, k)
               \/ \E s \in Services : Locate(h, s)
               \/ \E p \in Peers : Relay(h, p)
               \/ Act(h) \/ Check(h)
        PROVE  Quiet
    BY <1>1 DEF Quiet, cache, thread, Refresh, Locate, Relay, Act, Check, Moves, Accept
  <1>2. ASSUME NEW h \in Handlers,
               ActFails(h) \/ HandlerPlanFail(h) \/ AskNotFound(h) \/ AskTooSoon(h)
        PROVE  Quiet
    BY <1>2 DEF Quiet, cache, thread, ActFails, HandlerPlanFail, AskNotFound, AskTooSoon,
       Fails, Core, TypeOK
  <1>3. ASSUME NEW h \in Handlers, Timeout(h) PROVE Quiet
    BY <1>3 DEF Quiet, Timeout, Fails, Core, TypeOK, RunType
  <1>4. CASE PlanList \/ \E h \in Handlers : HandlerPlanList(h)
    BY <1>4 DEF Listed, PlanList, HandlerPlanList, Moves, http, thread, Core, TypeOK
  <1>5. CASE PlanApply
    BY <1>5 DEF PlanApply, Applied, Plans
  <1>6. ASSUME NEW h \in Handlers, HandlerPlanApply(h) PROVE Kinds
    BY <1>6 DEF HandlerPlanApply, Applied, Plans, Core, TypeOK
  <1>7. ASSUME NEW k \in Keys, PickForced(k) \/ PickDue(k) PROVE Picked(k)
    BY <1>7 DEF PickForced, PickDue, Picked, IsFirst, QueueConsistent
  <1> QED
    BY <1>0, <1>1, <1>2, <1>3, <1>4, <1>5, <1>6, <1>7 DEF Next, Docker, Step, Handle

\* Whatever listing a thread may still apply is one.
LEMMA PlansTyped == Core => \A plan \in Plans : plan \in PlanType
  BY DEF Core, TypeOK, Plans

------------------------------------------------------------------------------
\* Every kind of step keeps the queue consistent.
LEMMA NextQueue == Core /\ QueueConsistent /\ [Next]_vars => QueueConsistent'
  <1> SUFFICES ASSUME Core, QueueConsistent, Kinds PROVE QueueConsistent'
    BY StepKinds
  <1>1. CASE Quiet \/ Listed \/ LandForgotten \/ \E b \in BOOLEAN : Observe(b)
    BY <1>1 DEF QueueConsistent, Quiet, Listed, LandForgotten, Observe, cache
  <1>2. ASSUME NEW plan \in Plans, Applied(plan) PROVE QueueConsistent'
    <2>1. plan \in PlanType /\ Apply(plan)
      BY <1>2, PlansTyped DEF Applied
    <2>2. forced' \subseteq known' /\ due' \subseteq known'
      BY <2>1, ApplyFacts DEF QueueConsistent
    <2>3. \A k \in known' : ~ entries'[k].attempted => k \in due'
      BY <2>1, ApplyFacts DEF QueueConsistent, Recreated, EntryType, Core, TypeOK
    <2>4. ahead' = Without(known \ known') /\ forced' = forced \ (known \ known')
      BY <2>1, ApplyFacts
    <2> QED
      BY <2>2, <2>3, <2>4 DEF QueueConsistent, Without
  <1>3. ASSUME NEW k \in Keys, Picked(k) PROVE QueueConsistent'
    BY <1>3 DEF QueueConsistent, Picked, Begin, Without, Core, TypeOK, EntryType
  <1>4. CASE LandOutdated
    BY <1>4 DEF QueueConsistent, LandOutdated, Queue
  <1>5. CASE LandCurrent
    BY <1>5 DEF QueueConsistent, LandCurrent, Landed, Core, TypeOK, EntryType
  <1>6. CASE Abandon
    BY <1>6 DEF QueueConsistent, Abandon, Core, TypeOK, EntryType
  <1>7. ASSUME NEW h \in Handlers, Invalidate(h) PROVE QueueConsistent'
    BY <1>7 DEF QueueConsistent, Invalidate, Core, TypeOK, EntryType
  <1>8. ASSUME NEW h \in Handlers, Ask(h) PROVE QueueConsistent'
    <2>1. req[h].key \in known /\ known' = known /\ due' = due /\ known \subseteq Keys
      BY <1>8 DEF Ask, Core, TypeOK
    <2>2. \A k \in known : entries'[k].attempted = entries[k].attempted
      BY <1>8, <2>1 DEF Ask, Core, TypeOK, EntryType
    <2>3. CASE UNCHANGED <<forced, ahead>>
      BY <2>1, <2>2, <2>3 DEF QueueConsistent
    <2>4. CASE Queue(req[h].key)
      BY <2>1, <2>2, <2>4 DEF QueueConsistent, Queue
    <2> QED
      BY <1>8, <2>3, <2>4 DEF Ask
  <1> QED
    BY <1>1, <1>2, <1>3, <1>4, <1>5, <1>6, <1>7, <1>8 DEF Kinds

\* Every kind of step keeps Entry.pending true to its comment.
LEMMA NextPending ==
  Core /\ QueueConsistent /\ PendingMeansWork /\ [Next]_vars => PendingMeansWork'
  <1> SUFFICES ASSUME Core, QueueConsistent, PendingMeansWork, Kinds PROVE PendingMeansWork'
    BY StepKinds
  <1>0. running \in RunType /\ entries \in [Keys -> EntryType] /\ known \subseteq Keys
        /\ faults \in Nat
    BY DEF Core, TypeOK
  <1>1. CASE Quiet \/ Listed
    BY <1>1 DEF PendingMeansWork, Quiet, Listed
  <1>2. ASSUME NEW b \in BOOLEAN, Observe(b) PROVE PendingMeansWork'
    BY <1>0, <1>2 DEF PendingMeansWork, Observe, cache, RunType
  <1>3. ASSUME NEW plan \in Plans, Applied(plan) PROVE PendingMeansWork'
    <2>1. plan \in PlanType /\ Apply(plan)
      BY <1>3, PlansTyped DEF Applied
    <2>2. \A k \in known' \ known : entries'[k].pending /\ k \in due'
      <3>1. \A c : NewEntry(c).pending
        BY DEF NewEntry
      <3> QED
        BY <2>1, <3>1, ApplyFacts
    <2>3. ASSUME NEW k \in known' \cap known
          PROVE  \/ entries'[k].pending = entries[k].pending /\ (k \in due => k \in due')
                 \/ entries'[k].pending /\ k \in due'
      <3>1. entries[k] \in EntryType
        BY <1>0
      <3> QED
        BY <2>1, <3>1, ApplyFacts DEF Recreated, EntryType
    <2>4. forced' = forced \ (known \ known') /\ running'.key = running.key
      BY <2>1, ApplyFacts, ApplyRunning
    <2> QED
      BY <1>3, <2>2, <2>3, <2>4 DEF Applied, PendingMeansWork, QueueConsistent
  <1>4. ASSUME NEW k \in Keys, Picked(k) PROVE PendingMeansWork'
    BY <1>0, <1>4, KeysAssumption DEF PendingMeansWork, Picked, Begin, EntryType, Core,
       Threads, Keys
  <1>5. CASE LandOutdated
    BY <1>0, <1>5, KeysAssumption DEF PendingMeansWork, LandOutdated, Queue, Idle
  <1>6. CASE LandCurrent
    <2>1. /\ entries' = [entries EXCEPT ![running.key] = Landed(entries[running.key], running)]
          /\ entries[running.key] \in EntryType
      BY <1>0, <1>6 DEF LandCurrent
    <2>2. Landed(entries[running.key], running).pending = (running.key \in forced)
      BY <2>1 DEF Landed, StillQueued, EntryType
    <2>3. ASSUME NEW k \in known
          PROVE  entries'[k].pending = IF k = running.key THEN k \in forced
                                       ELSE entries[k].pending
      BY <1>0, <2>1, <2>2
    <2>4. /\ known' = known /\ forced' = forced /\ due' = due \ {running.key}
          /\ running'.key = NoKey /\ faults' = faults
      BY <1>6 DEF LandCurrent, Idle
    <2> QED
      BY <1>0, <2>3, <2>4, KeysAssumption DEF PendingMeansWork
  <1>7. CASE LandForgotten
    BY <1>0, <1>7, KeysAssumption DEF PendingMeansWork, LandForgotten, Idle, cache
  <1>8. CASE Abandon
    BY <1>0, <1>8, KeysAssumption DEF PendingMeansWork, Abandon, Idle, EntryType
  <1>9. ASSUME NEW h \in Handlers, Invalidate(h) PROVE PendingMeansWork'
    BY <1>0, <1>9 DEF PendingMeansWork, Invalidate, EntryType, thread
  <1>10. ASSUME NEW h \in Handlers, Ask(h) PROVE PendingMeansWork'
    BY <1>0, <1>10 DEF PendingMeansWork, Ask, Queue, CanJoinRunning, EntryType, RunType
  <1> QED
    BY <1>1, <1>2, <1>3, <1>4, <1>5, <1>6, <1>7, <1>8, <1>9, <1>10 DEF Kinds

\* The inspection keeps managers out of the listing, and finds nothing else.
LEMMA SnapshotManagers ==
  Core /\ Managers => /\ \A s \in Services : Snapshot.nodes[s] \notin ManagerIds
                      /\ Found \subseteq ManagerIds
  <1> SUFFICES ASSUME Core, Managers, NEW s \in Services
               PROVE  Snapshot.nodes[s] \notin ManagerIds /\ Found \subseteq ManagerIds
    BY DEF Found, Refuses
  <1>1. Found \subseteq ManagerIds
    BY DEF Found, Refuses
  <1>2. CASE Skips(s) \/ Refuses(s)
    BY <1>1, <1>2, BoundsAssumption DEF Snapshot, None, Containers
  <1>3. CASE ~ Skips(s) /\ Inspects(s) /\ listing[s] \notin ManagerIds
    BY <1>1, <1>3 DEF Snapshot, Refuses
  <1>4. CASE ~ Skips(s) /\ ~ Inspects(s)
    BY <1>1, <1>4 DEF Snapshot, Refuses, Inspects, Managers, ManagersNeverSampled
  <1> QED
    BY <1>2, <1>3, <1>4 DEF Refuses

\* Every kind of step keeps managers out of the entries and out of the plans.
LEMMA NextManagers == Core /\ QueueConsistent /\ Managers /\ [Next]_vars => Managers'
  <1> SUFFICES ASSUME Core, QueueConsistent, Managers, Kinds PROVE Managers'
    BY StepKinds
  <1> USE DEF Managers
  <1>0. running \in RunType /\ entries \in [Keys -> EntryType] /\ known \subseteq Keys
        /\ None \notin ManagerIds
    BY BoundsAssumption DEF Core, TypeOK, None, Containers
  <1>1. CASE Quiet
    BY <1>0, <1>1 DEF ManagersNeverSampled, PlansHoldNoManager, Quiet, NoPlan
  <1>2. CASE Listed
    BY <1>2, SnapshotManagers DEF ManagersNeverSampled, PlansHoldNoManager, Listed
  <1>3. ASSUME NEW plan \in Plans, Applied(plan) PROVE Managers'
    <2>1. plan \in PlanType /\ Apply(plan)
      BY <1>3, PlansTyped DEF Applied
    <2>2. \A k : PlannedId(plan, k) \notin ManagerIds
      BY <1>0 DEF PlannedId, Plans, PlansHoldNoManager
    <2>3. \A k \in known' \ known : entries'[k].container_id \notin ManagerIds
      <3>1. \A c : NewEntry(c).container_id = c
        BY DEF NewEntry
      <3> QED
        BY <2>1, <2>2, <3>1, ApplyFacts
    <2>4. ASSUME NEW k \in known' \cap known PROVE entries'[k].container_id \notin ManagerIds
      <3>1. entries[k] \in EntryType /\ entries[k].container_id \notin ManagerIds
        BY <1>0 DEF ManagersNeverSampled
      <3>2. Recreated(entries[k], PlannedId(plan, k)).container_id = PlannedId(plan, k)
        BY <3>1, EntryFields
      <3> QED
        BY <2>1, <2>2, <3>1, <3>2, ApplyFacts
    <2>5. running'.container_id \notin ManagerIds /\ excluded' \subseteq ManagerIds
      BY <2>1, <2>2, ApplyFacts, ApplyRunning DEF ManagersNeverSampled
    <2>6. PlansHoldNoManager'
      BY <1>0, <1>3 DEF Applied, PlansHoldNoManager, NoPlan
    <2> QED
      BY <2>3, <2>4, <2>5, <2>6 DEF ManagersNeverSampled
  <1>4. PlansHoldNoManager' \/ Quiet \/ Listed \/ \E plan \in Plans : Applied(plan)
    BY DEF Kinds, Picked, Begin, Observe, LandOutdated, LandCurrent, LandForgotten, Abandon,
       Invalidate, Ask, PlansHoldNoManager, http, thread
  <1>5. ASSUME NEW k \in Keys, Picked(k) PROVE ManagersNeverSampled'
    BY <1>0, <1>5 DEF ManagersNeverSampled, Picked, Begin, EntryType
  <1>6. ASSUME NEW b \in BOOLEAN, Observe(b) PROVE ManagersNeverSampled'
    BY <1>0, <1>6 DEF ManagersNeverSampled, Observe, cache, RunType
  <1>7. ASSUME LandOutdated \/ LandForgotten PROVE ManagersNeverSampled'
    BY <1>0, <1>7 DEF ManagersNeverSampled, LandOutdated, LandForgotten, Idle, cache
  <1>8. ASSUME LandCurrent PROVE ManagersNeverSampled'
    BY <1>0, <1>8 DEF ManagersNeverSampled, LandCurrent, Landed, EntryType, Idle
  <1>9. ASSUME Abandon PROVE ManagersNeverSampled'
    BY <1>0, <1>9 DEF ManagersNeverSampled, Abandon, EntryType, Idle
  <1>10. ASSUME NEW h \in Handlers, Invalidate(h) PROVE ManagersNeverSampled'
    BY <1>0, <1>10 DEF ManagersNeverSampled, Invalidate, EntryType, thread
  <1>11. ASSUME NEW h \in Handlers, Ask(h) PROVE ManagersNeverSampled'
    BY <1>0, <1>11 DEF ManagersNeverSampled, Ask, EntryType, RunType
  <1> QED
    BY <1>1, <1>2, <1>3, <1>4, <1>5, <1>6, <1>7, <1>8, <1>9, <1>10, <1>11 DEF Kinds

\* Every kind of step keeps the epoch a witness of the container: plan() advances it
\* together with the id (manager.py:460-466), and the sampler reads it before the id.
LEMMA NextEpoch ==
  Core /\ QueueConsistent /\ EpochGuardsContainer /\ [Next]_vars => EpochGuardsContainer'
  <1> SUFFICES ASSUME Core, QueueConsistent, EpochGuardsContainer, Kinds
               PROVE  EpochGuardsContainer'
    BY StepKinds
  <1>0. /\ running \in RunType /\ entries \in [Keys -> EntryType] /\ known \subseteq Keys
        /\ cpc = "sample" \/ cpc = "land" <=> running.key # NoKey
    BY DEF Core, TypeOK, Threads
  <1>1. CASE Quiet \/ Listed
    <2>1. /\ running'.key = running.key /\ running'.epoch = running.epoch
          /\ running'.container_id = running.container_id /\ (running'.live <=> running.live)
          /\ entries' = entries /\ known' = known /\ (cpc' = "sample" <=> cpc = "sample")
      BY <1>1 DEF Quiet, Listed
    <2> QED
      BY <2>1 DEF EpochGuardsContainer
  <1>2. ASSUME NEW b \in BOOLEAN, Observe(b) PROVE EpochGuardsContainer'
    BY <1>0, <1>2 DEF EpochGuardsContainer, Observe, cache, RunType
  <1>3. ASSUME NEW plan \in Plans, Applied(plan) PROVE EpochGuardsContainer'
    <2>1. plan \in PlanType /\ Apply(plan)
      BY <1>3, PlansTyped DEF Applied
    <2> SUFFICES ASSUME running'.live PROVE EpochGuardsContainer'
      BY DEF EpochGuardsContainer
    <2>2. /\ running.live /\ running.key \in known \cap known' /\ running.key \in Keys
          /\ running'.key = running.key /\ running'.epoch = running.epoch
          /\ running'.container_id =
               IF /\ running.live /\ cpc = "sample" /\ running.key \in known \cap known'
                  /\ entries[running.key].container_id # PlannedId(plan, running.key)
               THEN PlannedId(plan, running.key) ELSE running.container_id
      BY <1>0, <2>1, ApplyRunning DEF EpochGuardsContainer
    <2>3. entries[running.key] \in EntryType /\ entries[running.key].epoch \in Nat
          /\ running.epoch \in Nat
      BY <1>0, <2>2 DEF EntryType, RunType
    <2>4. cpc' = "sample" => cpc = "sample"
      BY <1>3 DEF Applied
    <2>5. CASE /\ entries'[running.key] = entries[running.key]
               /\ entries[running.key].container_id = PlannedId(plan, running.key)
      BY <2>2, <2>3, <2>4, <2>5 DEF EpochGuardsContainer
    <2>6. CASE /\ entries'[running.key] = Recreated(entries[running.key],
                                                    PlannedId(plan, running.key))
               /\ entries[running.key].container_id # PlannedId(plan, running.key)
      <3>1. /\ entries'[running.key].epoch = entries[running.key].epoch + 1
            /\ entries'[running.key].container_id = PlannedId(plan, running.key)
        BY <2>3, <2>6 DEF Recreated, EntryType
      <3> QED
        BY <2>2, <2>3, <2>4, <2>6, <3>1 DEF EpochGuardsContainer
    <2> QED
      BY <2>1, <2>2, <2>5, <2>6, ApplyFacts
  <1>4. ASSUME NEW k \in Keys, Picked(k) PROVE EpochGuardsContainer'
    BY <1>0, <1>4 DEF EpochGuardsContainer, Picked, Begin, EntryType
  <1>5. CASE LandOutdated \/ LandCurrent \/ LandForgotten \/ Abandon
    BY <1>5 DEF EpochGuardsContainer, LandOutdated, LandCurrent, LandForgotten, Abandon, Idle
  <1>6. ASSUME NEW h \in Handlers, Invalidate(h) PROVE EpochGuardsContainer'
    BY <1>0, <1>6 DEF EpochGuardsContainer, Invalidate, EntryType, RunType, thread
  <1>7. ASSUME NEW h \in Handlers, Ask(h) PROVE EpochGuardsContainer'
    BY <1>0, <1>7 DEF EpochGuardsContainer, Ask, EpochAt, EntryType, RunType
  <1> QED
    BY <1>1, <1>2, <1>3, <1>4, <1>5, <1>6, <1>7 DEF Kinds

\* What an API request waits for has already happened when it asks (power() acts before
\* request() queues), so that an observation made for it can only be newer.
LEMMA NextGoals == Core /\ EpochGuardsContainer /\ GoalsReached /\ [Next]_vars => GoalsReached'
  <1> SUFFICES ASSUME Core, EpochGuardsContainer, GoalsReached, [Next]_vars PROVE GoalsReached'
    OBVIOUS
  <1>0. /\ running \in RunType /\ changes \in [Keys -> Nat] /\ req \in [Handlers -> RequestType]
        /\ hpc \in [Handlers -> {"idle", "invalidate", "act", "check", "plan", "apply",
                                 "ask", "wait"}]
        /\ \A h \in running.waiters : h \in Handlers /\ hpc[h] = "wait" /\ req[h].key = running.key
        /\ \A h \in Handlers : hpc[h] # "idle" => req[h].key \in Keys
    BY DEF Core, TypeOK, RunType, WaiterHasOneTicket, Threads
  <1>1. CASE \/ UNCHANGED vars \/ PlanList \/ PlanFail \/ NothingDue \/ Wake
             \/ \E s \in Services : CreateContainer(s) \/ RemoveService(s)
    BY <1>1 DEF GoalsReached, vars, docker, thread, http, PlanList, PlanFail, NothingDue, Wake,
       CreateContainer, RemoveService
  <1>2. ASSUME NEW k \in Keys, PickForced(k) \/ PickDue(k) PROVE GoalsReached'
    BY <1>2 DEF GoalsReached, PickForced, PickDue, Begin, docker, http
  <1>3. ASSUME NEW b \in BOOLEAN, Observe(b) PROVE GoalsReached'
    BY <1>0, <1>3 DEF GoalsReached, Observe, docker, http, RunType
  <1>4. CASE LandOutdated
    BY <1>4 DEF GoalsReached, LandOutdated, docker, http
  <1>5. CASE LandCurrent \/ LandForgotten \/ Abandon
    BY <1>0, <1>5 DEF GoalsReached, LandCurrent, LandForgotten, Abandon, Resolved, Released, docker
  <1>6. ASSUME NEW plan \in Plans, Apply(plan), UNCHANGED changes, cpc' = "land" => cpc = "land",
               \A g \in Handlers :
                 hpc'[g] # "idle" =>
                   hpc[g] # "idle" /\ g \notin UNION {waiters[k] : k \in known \ known'}
        PROVE  GoalsReached'
    <2> DEFINE hs == UNION {waiters[k] : k \in known \ known'}
    <2>1. /\ req' = Released(hs) /\ \A g \in hs : hpc[g] = "wait" /\ g \notin running.waiters
          /\ running'.waiters = running.waiters /\ running'.seen = running.seen
          /\ running'.live => running.live
      BY <1>6, PlansTyped, ApplyDrops, ApplyRunning
    <2>2. \A g \in Handlers : g \notin hs => req'[g] = req[g]
      BY <2>1 DEF Released
    <2> HIDE DEF hs
    <2> QED
      BY <1>0, <1>6, <2>1, <2>2 DEF GoalsReached, hs
  <1>7. CASE PlanApply
    BY <1>0, <1>6, <1>7 DEF PlanApply, Plans, Resolved, docker
  <1>8. ASSUME NEW h \in Handlers, HandlerPlanApply(h) PROVE GoalsReached'
    <2>1. hplan[h] \in PlanType /\ Apply(hplan[h]) /\ hpc[h] = "apply"
      BY <1>8 DEF Core, TypeOK, HandlerPlanApply
    <2>2. h \notin UNION {waiters[k] : k \in known \ known'}
      BY <2>1, ApplyDrops
    <2> QED
      BY <1>0, <1>6, <1>8, <2>1, <2>2 DEF HandlerPlanApply, Plans, Resolved, docker
  <1>9. ASSUME NEW h \in Handlers, NEW pc, NEW r, Accept(h, pc, r), UNCHANGED thread,
               r.goal <= changes'[r.key],
               \A k \in Keys : changes'[k] \in Nat /\ changes[k] <= changes'[k]
        PROVE  GoalsReached'
    BY <1>0, <1>9 DEF GoalsReached, Accept, RequestType, thread
  <1>10. ASSUME NEW h \in Handlers, NEW k \in Keys, Refresh(h, k) PROVE GoalsReached'
    BY <1>0, <1>9, <1>10 DEF Refresh, NoRequest, docker
  <1>11. ASSUME NEW h \in Handlers, NEW s \in Services, Locate(h, s) PROVE GoalsReached'
    <2> DEFINE r == [NoRequest EXCEPT !.key = s, !.invalidate = TRUE, !.container_id = listing[s]]
    <2>1. r.key = s /\ r.goal = 0 /\ s \in Keys
      BY DEF NoRequest, Keys
    <2>2. changes' = changes /\ Accept(h, "invalidate", r) /\ UNCHANGED thread
      BY <1>11 DEF Locate, docker
    <2> HIDE DEF r
    <2> QED
      BY <1>0, <1>9, <2>1, <2>2
  <1>12. ASSUME NEW h \in Handlers, NEW p \in Peers, Relay(h, p) PROVE GoalsReached'
    <2> DEFINE r == [NoRequest EXCEPT !.key = p, !.invalidate = TRUE, !.goal = changes[p] + 1]
    <2>1. r.key = p /\ r.goal = changes[p] + 1 /\ p \in Keys
      BY DEF NoRequest, Keys
    <2>2. changes' = [changes EXCEPT ![p] = @ + 1] /\ Accept(h, "check", r)
          /\ UNCHANGED thread
      BY <1>12 DEF Relay
    <2> HIDE DEF r
    <2> QED
      BY <1>0, <1>9, <2>1, <2>2
  <1>13. ASSUME NEW h \in Handlers, Act(h) PROVE GoalsReached'
    BY <1>0, <1>13 DEF GoalsReached, Act, Moves, RequestType, thread
  <1>14. ASSUME NEW h \in Handlers, ActFails(h) PROVE GoalsReached'
    BY <1>0, <1>14 DEF GoalsReached, ActFails, Fails, RequestType, thread
  <1>15. ASSUME NEW h \in Handlers, Invalidate(h) \/ Check(h) \/ HandlerPlanList(h)
         PROVE  GoalsReached'
    BY <1>0, <1>15 DEF GoalsReached, Invalidate, Check, HandlerPlanList, Moves, docker, thread
  <1>16. ASSUME NEW h \in Handlers, HandlerPlanFail(h) \/ AskNotFound(h) \/ AskTooSoon(h)
         PROVE  GoalsReached'
    BY <1>0, <1>16 DEF GoalsReached, HandlerPlanFail, AskNotFound, AskTooSoon, Fails, docker, thread
  <1>17. ASSUME NEW h \in Handlers, Ask(h) PROVE GoalsReached'
    <2>1. CASE running' = running
      BY <1>0, <1>17, <2>1 DEF GoalsReached, Ask, Moves, docker
    <2>2. CASE CanJoinRunning(h) /\ running' = [running EXCEPT !.waiters = @ \cup {h}]
      BY <1>0, <1>17, <2>2 DEF GoalsReached, EpochGuardsContainer, Ask, Moves, CanJoinRunning,
         EpochAt, RunType, RequestType, docker, Core, TypeOK, EntryType
    <2> QED
      BY <1>17, <2>1, <2>2 DEF Ask
  <1>18. ASSUME NEW h \in Handlers, Timeout(h) PROVE GoalsReached'
    BY <1>0, <1>18 DEF GoalsReached, Timeout, Fails, docker, RunType
  <1> QED
    BY <1>1, <1>2, <1>3, <1>4, <1>5, <1>7, <1>8, <1>10, <1>11, <1>12, <1>13, <1>14, <1>15, <1>16,
       <1>17, <1>18 DEF Next, Docker, Step, Handle

\* The invariants hold of a collector that has just been created.
LEMMA InitFresh == Init => QueueConsistent /\ PendingMeansWork /\ Managers /\ Fresh
  <1> SUFFICES ASSUME Init PROVE QueueConsistent /\ PendingMeansWork /\ Managers /\ Fresh
    OBVIOUS
  <1>1. QueueConsistent /\ PendingMeansWork
    BY DEF Init, QueueConsistent, PendingMeansWork
  <1>2. Managers
    BY BoundsAssumption DEF Init, Managers, ManagersNeverSampled, PlansHoldNoManager,
       Idle, NoPlan, None, Containers
  <1>3. Fresh
    BY DEF Init, Fresh, EpochGuardsContainer, GoalsReached, Idle
  <1> QED
    BY <1>1, <1>2, <1>3

\* step() never indexes entries with a key that plan() dropped, and the forced dict
\* stays one queue in request order (manager.py:541-548, 448-453).
THEOREM QueueTheorem == Spec => []QueueConsistent
  <1> QED
    BY InitFresh, NextQueue, CoreInvariant, PTL DEF Spec

\* Entry.pending is true to its comment (manager.py:388) in every interleaving.
THEOREM PendingTheorem == Spec => []PendingMeansWork
  <1> QED
    BY InitFresh, NextPending, QueueTheorem, CoreInvariant, PTL DEF Spec

\* A manager's container is never put in an entry and never sampled (manager.py:439),
\* so the NotFound branch of step() (manager.py:553-556) is never taken.
THEOREM ManagersTheorem == Spec => []ManagersNeverSampled
  <1>1. Managers => ManagersNeverSampled
    BY DEF Managers
  <1> QED
    BY <1>1, InitFresh, NextManagers, QueueTheorem, CoreInvariant, PTL DEF Spec

\* Epochs and goals, as an invariant of the specification.
LEMMA FreshInvariant == Spec => []Fresh
  <1>1. Core /\ QueueConsistent /\ Fresh /\ [Next]_vars => Fresh'
    BY NextEpoch, NextGoals DEF Fresh
  <1> QED
    BY <1>1, InitFresh, QueueTheorem, CoreInvariant, PTL DEF Spec

\* A result lands only in the entry of the container it was taken from
\* (manager.py:563-574), for as long as the service stays listed.
THEOREM LandedTheorem == Spec => LandedIsCurrent
  <1>1. Fresh /\ LandCurrent /\ running.live =>
          running.container_id = entries[running.key].container_id
    BY DEF Fresh, EpochGuardsContainer, LandCurrent, Outdated
  <1>2. Fresh => [LandCurrent /\ running.live =>
                    running.container_id = entries[running.key].container_id]_vars
    BY <1>1
  <1> QED
    BY <1>2, FreshInvariant, PTL DEF LandedIsCurrent

\* Whoever started, stopped or restarted a node is answered by a sample that looked
\* at it afterwards (manager.py:494, 922-929).
THEOREM AnsweredTheorem == Spec => AnsweredIsFresh
  <1>1. Fresh => [LandCurrent /\ running.live =>
                    \A h \in running.waiters :
                      req[h].invalidate => running.seen >= req[h].goal]_vars
    BY DEF Fresh, GoalsReached, LandCurrent
  <1> QED
    BY <1>1, FreshInvariant, PTL DEF AnsweredIsFresh

------------------------------------------------------------------------------
(* The contract of the cache. *)

\* A sample is of what has happened, is newer than the data it replaces, and a request
\* that follows no action asks for nothing in particular.
Observed ==
    /\ \A k \in Keys : entries[k].data.seen <= changes[k]
    /\ cpc = "land" => /\ entries[running.key].data.seen <= running.seen
                       /\ running.seen <= changes[running.key]
    /\ \A h \in Handlers : /\ hpc[h] \in {"invalidate", "act"} => req[h].invalidate
                           /\ ~ req[h].invalidate => req[h].goal = 0

LEMMA InitObserved == Init => Observed
  BY DEF Init, Observed, NewEntry, NoData, NoRequest

\* Only a sample that lands changes the data of an entry that stays.
LEMMA ApplyData ==
  ASSUME Core, NEW plan \in PlanType, Apply(plan)
  PROVE  \A k \in Keys : entries'[k].data = entries[k].data \/ entries'[k].data = NoData
  <1> DEFINE fresh     == Peers \cup {s \in Services : plan.nodes[s] # None}
             id(k)     == IF k \in Services THEN plan.nodes[k] ELSE None
             recreated == {k \in known \cap fresh : entries[k].container_id # id(k)}
  <1>1. \A k \in Keys : entries'[k] \in {NewEntry(None), NewEntry(id(k)), Recreated(entries[k], id(k)),
                                         entries[k]}
    <2> DEFINE e(k) == IF k \in known \ fresh THEN NewEntry(None)
                       ELSE IF k \in fresh \ known THEN NewEntry(id(k))
                       ELSE IF k \in recreated THEN Recreated(entries[k], id(k))
                       ELSE entries[k]
    <2>1. entries' = [k \in Keys |-> e(k)]
      BY DEF Apply
    <2>2. \A k \in Keys : entries'[k] = e(k)
      BY <2>1
    <2> QED
      BY <2>2
  <1>2. \A c : NewEntry(c).data = NoData
    BY DEF NewEntry
  <1>3. ASSUME NEW k \in Keys PROVE Recreated(entries[k], id(k)).data = entries[k].data
    BY DEF Recreated, Core, TypeOK, EntryType
  <1> QED
    BY <1>1, <1>2, <1>3

\* Every step keeps samples true, and plain requests plain.
LEMMA NextObserved == Core /\ Observed /\ [Next]_vars => Observed'
  <1> SUFFICES ASSUME Core, Observed, [Next]_vars PROVE Observed'
    OBVIOUS
  <1>0. /\ running \in RunType /\ changes \in [Keys -> Nat] /\ req \in [Handlers -> RequestType]
        /\ entries \in [Keys -> EntryType] /\ known \subseteq Keys
        /\ \A k \in Keys : entries[k].data.seen \in Nat
        /\ hpc \in [Handlers -> {"idle", "invalidate", "act", "check", "plan", "apply",
                                 "ask", "wait"}]
        /\ cpc = "land" => running.key \in Keys
        /\ \A h \in Handlers : hpc[h] # "idle" => req[h].key \in Keys
    BY DEF Core, TypeOK, RunType, EntryType, DataType, Threads
  <1>1. CASE \/ UNCHANGED vars \/ PlanList \/ PlanFail \/ NothingDue \/ Wake
             \/ \E s \in Services : CreateContainer(s) \/ RemoveService(s)
    BY <1>1 DEF Observed, vars, docker, cache, thread, http, PlanList, PlanFail, NothingDue, Wake,
       CreateContainer, RemoveService
  <1>2. ASSUME NEW k \in Keys, PickForced(k) \/ PickDue(k) PROVE Observed'
    BY <1>0, <1>2 DEF Observed, PickForced, PickDue, Begin, docker, http, EntryType
  <1>3. ASSUME NEW b \in BOOLEAN, Observe(b) PROVE Observed'
    <2>1. running.key \in Keys
      BY <1>3 DEF Core, Threads, TypeOK, RunType, Observe
    <2> QED
      BY <1>0, <1>3, <2>1 DEF Observed, Observe, docker, http, cache, RunType
  <1>4. CASE LandOutdated
    BY <1>4 DEF Observed, LandOutdated, docker, http
  <1>5. CASE LandForgotten
    BY <1>5 DEF Observed, LandForgotten, docker, cache, Resolved, Released, NoRequest
  <1>6. CASE LandCurrent
    <2>1. \A k \in Keys : entries'[k].data.seen <= changes[k]
      <3>1. entries[running.key] \in EntryType /\ running.key \in Keys
        BY <1>0, <1>6 DEF LandCurrent
      <3>2. Landed(entries[running.key], running).data.seen <= changes[running.key]
        BY <1>0, <1>6, <3>1 DEF Landed, LandCurrent, Observed, EntryType, RunType
      <3> QED
        BY <1>0, <1>6, <3>1, <3>2 DEF LandCurrent, Observed
    <2> QED
      BY <1>6, <2>1 DEF Observed, LandCurrent, docker, Resolved, Released, NoRequest
  <1>7. CASE Abandon
    BY <1>0, <1>7 DEF Observed, Abandon, docker, EntryType, Resolved, Released, NoRequest
  <1>8. ASSUME NEW plan \in PlanType, Apply(plan), UNCHANGED changes, cpc' # "land" \/ cpc' = cpc,
               \A g \in Handlers : hpc'[g] \in {"invalidate", "act"} => hpc[g] = hpc'[g]
        PROVE  Observed'
    <2>1. \A k \in Keys : entries'[k].data.seen <= entries[k].data.seen
      BY <1>0, <1>8, ApplyData DEF NoData
    <2>2. running'.seen = running.seen /\ running'.key = running.key
      BY <1>8, ApplyRunning
    <2>3. \A h \in Handlers : req'[h] = req[h] \/ req'[h] = NoRequest
      BY <1>8 DEF Apply, Released
    <2>4. \A h \in Handlers : hpc[h] \in {"invalidate", "act"} => req'[h] = req[h]
      BY <1>8, ApplyDrops DEF Released
    <2>5. \A k \in Keys : entries'[k].data.seen \in Nat
      BY <1>0, <1>8, ApplyData DEF NoData
    <2> QED
      BY <1>0, <1>8, <2>1, <2>2, <2>3, <2>4, <2>5 DEF Observed, NoRequest, RunType
  <1>9. CASE PlanApply
    BY <1>0, <1>8, <1>9 DEF PlanApply, Resolved, docker, Core, TypeOK
  <1>10. ASSUME NEW h \in Handlers, HandlerPlanApply(h) PROVE Observed'
    BY <1>0, <1>8, <1>10 DEF HandlerPlanApply, Resolved, docker, Core, TypeOK
  <1>11. ASSUME NEW h \in Handlers, NEW pc \in {"check", "invalidate"}, NEW r, Accept(h, pc, r),
                UNCHANGED <<entries, running, cpc>>,
                pc = "invalidate" => r.invalidate, ~ r.invalidate => r.goal = 0,
                \A k \in Keys : changes'[k] \in Nat /\ changes[k] <= changes'[k]
         PROVE  Observed'
    BY <1>0, <1>11 DEF Observed, Accept, RunType
  <1>12. ASSUME NEW h \in Handlers, NEW k \in Keys, Refresh(h, k) PROVE Observed'
    <2> DEFINE r == [NoRequest EXCEPT !.key = k]
    <2>1. r.invalidate = FALSE /\ r.goal = 0
      BY DEF NoRequest
    <2>2. changes' = changes /\ Accept(h, "check", r) /\ UNCHANGED <<entries, running, cpc>>
      BY <1>12 DEF Refresh, docker, cache, thread
    <2> HIDE DEF r
    <2> QED
      BY <1>0, <1>11, <2>1, <2>2
  <1>13. ASSUME NEW h \in Handlers, NEW s \in Services, Locate(h, s) PROVE Observed'
    <2> DEFINE r == [NoRequest EXCEPT !.key = s, !.invalidate = TRUE, !.container_id = listing[s]]
    <2>1. r.invalidate
      BY DEF NoRequest
    <2>2. changes' = changes /\ Accept(h, "invalidate", r) /\ UNCHANGED <<entries, running, cpc>>
      BY <1>13 DEF Locate, docker, cache, thread
    <2> HIDE DEF r
    <2> QED
      BY <1>0, <1>11, <2>1, <2>2
  <1>14. ASSUME NEW h \in Handlers, NEW p \in Peers, Relay(h, p) PROVE Observed'
    <2> DEFINE r == [NoRequest EXCEPT !.key = p, !.invalidate = TRUE, !.goal = changes[p] + 1]
    <2>1. r.invalidate /\ p \in Keys
      BY DEF NoRequest, Keys
    <2>2. /\ changes' = [changes EXCEPT ![p] = @ + 1] /\ Accept(h, "check", r)
          /\ UNCHANGED <<entries, running, cpc>>
      BY <1>14 DEF Relay, cache, thread
    <2> HIDE DEF r
    <2> QED
      BY <1>0, <1>11, <2>1, <2>2
  <1>15. ASSUME NEW h \in Handlers, Act(h) PROVE Observed'
    BY <1>0, <1>15 DEF Observed, Act, Moves, cache, thread, RunType, RequestType
  <1>16. ASSUME NEW h \in Handlers, ActFails(h) PROVE Observed'
    BY <1>0, <1>16 DEF Observed, ActFails, Fails, NoRequest, cache, thread, RunType
  <1>17. ASSUME NEW h \in Handlers, Invalidate(h) PROVE Observed'
    BY <1>0, <1>17 DEF Observed, Invalidate, Moves, docker, thread, EntryType
  <1>18. ASSUME NEW h \in Handlers, Check(h) \/ HandlerPlanList(h) PROVE Observed'
    BY <1>0, <1>18 DEF Observed, Check, HandlerPlanList, Moves, docker, cache, thread
  <1>19. ASSUME NEW h \in Handlers, HandlerPlanFail(h) \/ AskNotFound(h) \/ AskTooSoon(h)
         PROVE  Observed'
    BY <1>0, <1>19 DEF Observed, HandlerPlanFail, AskNotFound, AskTooSoon, Fails, NoRequest,
       docker, cache, thread
  <1>20. ASSUME NEW h \in Handlers, Ask(h) PROVE Observed'
    <2>1. \A k \in Keys : entries'[k].data = entries[k].data
      BY <1>0, <1>20 DEF Ask, EntryType
    <2>2. running'.seen = running.seen /\ running'.key = running.key
      BY <1>0, <1>20 DEF Ask, RunType
    <2> QED
      BY <1>0, <1>20, <2>1, <2>2 DEF Observed, Ask, Moves, docker
  <1>21. ASSUME NEW h \in Handlers, Timeout(h) PROVE Observed'
    BY <1>0, <1>21 DEF Observed, Timeout, Fails, NoRequest, docker, RunType
  <1> QED
    BY <1>1, <1>2, <1>3, <1>4, <1>5, <1>6, <1>7, <1>9, <1>10, <1>12, <1>13,
       <1>14, <1>15, <1>16, <1>17, <1>18, <1>19, <1>20, <1>21 DEF Next, Docker, Step, Handle

------------------------------------------------------------------------------
(* What a step does to the contract's variables. *)

\* A reader sees the known keys, and of their entries three fields.
LEMMA ViewSame ==
  ASSUME known' = known,
         \A k \in known : /\ entries'[k].pending = entries[k].pending
                          /\ entries'[k].error = entries[k].error
                          /\ entries'[k].data.seen = entries[k].data.seen
  PROVE  ShownView' = ShownView
  BY DEF ShownView

\* A step that changes one entry changes the view of its key.
LEMMA ViewLands ==
  ASSUME TypeOK, known' = known, NEW k \in known,
         \A j \in known \ {k} : entries'[j] = entries[j],
         NEW p \in BOOLEAN, entries'[k].pending <=> p,
         ~ entries'[k].error
  PROVE  ShownView' = [ShownView EXCEPT ![k].seen = entries'[k].data.seen, ![k].error = FALSE,
                                        ![k].pending = p]
  BY DEF ShownView, TypeOK

LEMMA ViewFails ==
  ASSUME TypeOK, known' = known, NEW k \in known,
         \A j \in known \ {k} : entries'[j] = entries[j],
         NEW p \in BOOLEAN, entries'[k].pending <=> p,
         entries'[k].error,
         entries'[k].data.seen = entries[k].data.seen
  PROVE  ShownView' = [ShownView EXCEPT ![k].error = TRUE, ![k].pending = p]
  BY DEF ShownView, TypeOK

LEMMA ViewPends ==
  ASSUME TypeOK, known' = known, NEW k \in known,
         \A j \in known \ {k} : entries'[j] = entries[j],
         entries'[k].pending,
         entries'[k].error <=> entries[k].error,
         entries'[k].data.seen = entries[k].data.seen
  PROVE  ShownView' = [ShownView EXCEPT ![k].pending = TRUE]
  BY DEF ShownView, TypeOK

\* Handlers that stop waiting, and no others, are answered.
LEMMA PromiseAnswered ==
  ASSUME NEW hs,
         \A h \in Handlers :
            /\ h \in hs => hpc'[h] # "wait"
            /\ h \notin hs => /\ hpc'[h] = "wait" <=> hpc[h] = "wait"
                              /\ hpc[h] = "wait" => req'[h] = req[h]
  PROVE  Promised' = Contract!Answered(hs)
  <1>1. ASSUME NEW h \in Handlers
        PROVE  Promised'[h] = IF h \in hs THEN Contract!Nobody ELSE Promised[h]
    BY DEF Promised, Contract!Nobody
  <1>2. Promised' = [h \in Handlers |-> Promised'[h]]
    BY DEF Promised
  <1> QED
    BY <1>1, <1>2 DEF Contract!Answered

LEMMA PromiseKept ==
  ASSUME \A h \in Handlers : /\ hpc'[h] = "wait" <=> hpc[h] = "wait"
                             /\ hpc[h] = "wait" => req'[h] = req[h]
  PROVE  Promised' = Promised
  BY DEF Promised

\* Resolving a ticket answers its waiters.
LEMMA ResolvedAnswered ==
  ASSUME NEW hs, hpc' = Resolved(hs), req' = Released(hs)
  PROVE  Promised' = Contract!Answered(hs)
  BY PromiseAnswered DEF Resolved, Released

\* Whoever waits for the running sample has been promised one of its key.
LEMMA RunningPromised ==
  Core => running.waiters \subseteq Contract!Waiting(running.key)
  BY DEF Core, TypeOK, RunType, WaiterHasOneTicket, Contract!Waiting, Promised

\* Releasing the waiters of the sample that ends, which may have been a stray.
LEMMA SampleEnds ==
  ASSUME Core, running.key \in Keys, running' = Idle,
         hpc' = Resolved(running.waiters), req' = Released(running.waiters)
  PROVE  /\ Promised' = Contract!Answered(running.waiters)
         /\ running.waiters \in SUBSET Contract!Waiting(running.key)
         /\ Strays' = Strays \ {running.key}
  BY ResolvedAnswered, RunningPromised DEF Strays, Idle

\* What the contract rests on: all that has been proved of the collector.
Sound == Core /\ QueueConsistent /\ PendingMeansWork /\ Fresh /\ Observed

\* The view of a key that is listed for the first time.
LEMMA ListedRecord ==
  Contract!Listed = [listed |-> TRUE, pending |-> TRUE, error |-> FALSE, seen |-> 0]
  <1>1. ASSUME NEW a \in [listed : BOOLEAN, pending : BOOLEAN, error : BOOLEAN, seen : Nat],
               a.error = FALSE, a.seen = 0
        PROVE  [a EXCEPT !.listed = TRUE, !.pending = TRUE]
                  = [listed |-> TRUE, pending |-> TRUE, error |-> FALSE, seen |-> 0]
    <2> DEFINE b == [a EXCEPT !.listed = TRUE, !.pending = TRUE]
    <2>1. b \in [listed : BOOLEAN, pending : BOOLEAN, error : BOOLEAN, seen : Nat]
      OBVIOUS
    <2>2. b.listed = TRUE /\ b.pending = TRUE /\ b.error = FALSE /\ b.seen = 0
      BY <1>1
    <2> HIDE DEF b
    <2>3. b = [listed |-> TRUE, pending |-> TRUE, error |-> FALSE, seen |-> 0]
      BY <2>1, <2>2
    <2> QED
      BY <2>3 DEF b
  <1>2. /\ Contract!Absent \in [listed : BOOLEAN, pending : BOOLEAN, error : BOOLEAN, seen : Nat]
        /\ Contract!Absent.error = FALSE /\ Contract!Absent.seen = 0
    BY DEF Contract!Absent
  <1> QED
    BY <1>1, <1>2 DEF Contract!Listed

\* A listing that is applied is a change of the listing, for readers as well.
LEMMA RelistStep ==
  ASSUME Sound, NEW plan \in PlanType, Apply(plan), UNCHANGED changes,
         NEW hs, hs = UNION {waiters[k] : k \in known \ known'},
         \A h \in Handlers :
            /\ h \in hs => hpc'[h] # "wait"
            /\ h \notin hs => (hpc'[h] = "wait" <=> hpc[h] = "wait")
  PROVE  \E gone, added, again \in SUBSET Keys : Contract!Relist(gone, added, again)
  <1> DEFINE gone  == known \ known'
             added == known' \ known
             again == {k \in known \cap known' : entries[k].container_id # PlannedId(plan, k)}
             seq   == {running.key} \cap gone
             ks    == IF running.live THEN seq ELSE {}
  <1>1. known \subseteq Keys /\ known' \subseteq Keys
    BY ApplyFacts DEF Sound, Core, TypeOK
  <1>2. /\ \A k \in gone \cup again : ShownView[k].listed
        /\ \A k \in added : ~ ShownView[k].listed
    BY <1>1 DEF ShownView
  <1>3. ShownView' = [k \in Keys |-> IF k \in gone THEN Contract!Absent
                                     ELSE IF k \in added THEN Contract!Listed
                                     ELSE IF k \in again THEN [ShownView[k] EXCEPT !.pending = TRUE]
                                     ELSE ShownView[k]]
    <2> SUFFICES ASSUME NEW k \in Keys
                 PROVE  ShownView'[k] = IF k \in gone THEN Contract!Absent
                                        ELSE IF k \in added THEN Contract!Listed
                                        ELSE IF k \in again THEN [ShownView[k] EXCEPT !.pending = TRUE]
                                        ELSE ShownView[k]
      BY DEF ShownView
    <2>1. CASE k \in gone
      <3>1. /\ (k \in known') = FALSE
            /\ (k \in known' /\ entries'[k].pending) = FALSE
            /\ (k \in known' /\ entries'[k].error) = FALSE
        BY <2>1
      <3>2. ShownView'[k] = Contract!Absent
        BY <1>1, <2>1, <3>1 DEF ShownView, Contract!Absent
      <3> QED
        BY <2>1, <3>2
    <2>2. CASE k \in added
      <3>1. entries'[k] = NewEntry(PlannedId(plan, k))
        BY <2>2, ApplyFacts DEF Sound
      <3>2. /\ (k \in known') = TRUE
            /\ (k \in known' /\ entries'[k].pending) = TRUE
            /\ (k \in known' /\ entries'[k].error) = FALSE
            /\ entries'[k].data.seen = 0
        BY <2>2, <3>1 DEF NewEntry, NoData
      <3>3. Contract!Listed = [listed |-> TRUE, pending |-> TRUE, error |-> FALSE, seen |-> 0]
        BY ListedRecord
      <3>4. ShownView'[k] = Contract!Listed
        BY <2>2, <3>2, <3>3 DEF ShownView
      <3> QED
        BY <2>2, <3>4
    <2>3. CASE k \in again
      <3>1. entries'[k] = Recreated(entries[k], PlannedId(plan, k)) /\ entries[k] \in EntryType
        BY <2>3, ApplyFacts DEF Sound, Core, TypeOK
      <3>2. /\ entries'[k].pending = TRUE /\ entries'[k].error = entries[k].error
            /\ entries'[k].data = entries[k].data
        BY <3>1 DEF Recreated, EntryType
      <3> QED
        BY <2>3, <3>2 DEF ShownView
    <2>4. CASE k \in (known \cap known') \ again
      <3>1. entries'[k] = entries[k]
        BY <2>4, ApplyFacts DEF Sound
      <3> QED
        BY <2>4, <3>1 DEF ShownView
    <2>5. CASE k \notin known \cup known'
      BY <2>5 DEF ShownView
    <2> QED
      BY <2>1, <2>2, <2>3, <2>4, <2>5
  <1>4. Promised' = Contract!Answered(hs)
    <2>1. req' = Released(hs)
      BY ApplyDrops DEF Sound
    <2> QED
      BY <2>1, PromiseAnswered DEF Released
  <1>5. hs \in SUBSET UNION {Contract!Waiting(k) : k \in gone}
    <2>1. \A k \in gone : waiters[k] \subseteq Contract!Waiting(k)
      BY <1>1 DEF Sound, Core, TypeOK, WaiterHasOneTicket, Contract!Waiting, Promised
    <2> QED
      BY <2>1
  <1>6. ks \in SUBSET gone /\ Strays' = Strays \cup ks
    <2>1. running'.key = running.key /\ (running'.live <=> running.live /\ running.key \notin gone)
      BY ApplyRunning DEF Sound
    <2> QED
      BY <1>1, <2>1, KeysAssumption DEF Strays
  <1>7. gone \in SUBSET Keys /\ added \in SUBSET Keys /\ again \in SUBSET Keys
    BY <1>1
  <1>8. Contract!Relist(gone, added, again)
    <2> HIDE DEF gone, added, again, ks
    <2> QED
      BY <1>2, <1>3, <1>4, <1>5, <1>6 DEF Contract!Relist
  <1> QED
    BY <1>7, <1>8

\* A step that no reader and no waiting handler can tell.
LEMMA Unnoticed ==
  ASSUME UNCHANGED <<changes, entries, known>>,
         running'.key = running.key, running'.live <=> running.live,
         \A h \in Handlers : /\ hpc'[h] = "wait" <=> hpc[h] = "wait"
                             /\ hpc[h] = "wait" => req'[h] = req[h]
  PROVE  UNCHANGED Contract!vars
  BY ViewSame, PromiseKept DEF Contract!vars, Strays

\* Ways in which a contract's step is one of its next steps.
LEMMA ContractNext ==
  ASSUME NEW k \in Keys, NEW hs \in SUBSET Contract!Waiting(k), NEW more \in BOOLEAN,
         NEW seen \in 0..changes[k],
         Contract!Deliver(k, seen, more, hs) \/ Contract!Fail(k, more, hs) \/ Contract!Drop(k, hs)
  PROVE  Contract!Next
  <1>1. CASE Contract!Deliver(k, seen, more, hs)
    BY <1>1 DEF Contract!Next
  <1>2. CASE Contract!Fail(k, more, hs)
    BY <1>2 DEF Contract!Next
  <1>3. CASE Contract!Drop(k, hs)
    BY <1>3 DEF Contract!Next
  <1> QED
    BY <1>1, <1>2, <1>3

\* What a reader sees of a result that has landed.
LEMMA LandedFields ==
  ASSUME NEW e \in EntryType, NEW r \in RunType
  PROVE  /\ Landed(e, r).pending <=> r.key \in forced
         /\ Landed(e, r).error <=> ~ r.ok
         /\ Landed(e, r).data.seen = IF r.ok THEN r.seen ELSE e.data.seen
  <1>1. Landed(e, r).pending <=> r.key \in forced
    BY DEF Landed, StillQueued, EntryType
  <1>2. Landed(e, r).error <=> ~ r.ok
    BY DEF Landed, EntryType
  <1>3. Landed(e, r).data = IF r.ok THEN [container_id |-> r.container_id, seen |-> r.seen]
                                    ELSE e.data
    BY DEF Landed, EntryType
  <1> QED
    BY <1>1, <1>2, <1>3

\* A sample that lands is one the contract allows: it looked after its node had been
\* changed for the last time on behalf of a handler it answers.
LEMMA LandStep ==
  ASSUME Sound, LandCurrent
  PROVE  Contract!Next
  <1> DEFINE k    == running.key
             more == k \in forced
  <1>1. /\ k \in known /\ known \subseteq Keys /\ k \in Keys /\ known' = known /\ running.ok \in BOOLEAN
        /\ entries' = [entries EXCEPT ![k] = Landed(entries[k], running)]
        /\ entries[k] \in EntryType /\ running.seen \in Nat /\ changes[k] \in Nat
    BY DEF Sound, Core, TypeOK, RunType, LandCurrent
  <1>2. /\ entries'[k].pending <=> more
        /\ entries'[k].error <=> ~ running.ok
        /\ entries'[k].data.seen = IF running.ok THEN running.seen ELSE entries[k].data.seen
    <2>1. entries'[k] = Landed(entries[k], running) /\ running \in RunType
      BY <1>1 DEF Sound, Core, TypeOK
    <2> QED
      BY <1>1, <2>1, LandedFields
  <1>3. \A j \in known \ {k} : entries'[j] = entries[j]
    BY <1>1 DEF Sound, Core, TypeOK
  <1>4. /\ Promised' = Contract!Answered(running.waiters)
        /\ running.waiters \in SUBSET Contract!Waiting(k)
        /\ Strays' = Strays \ {k}
    BY <1>1, SampleEnds DEF Sound, LandCurrent
  <1>5. UNCHANGED changes /\ ShownView[k].listed /\ ShownView[k].seen = entries[k].data.seen
    BY <1>1 DEF LandCurrent, docker, ShownView
  <1>8. more \in BOOLEAN /\ TypeOK
    BY DEF Sound, Core
  <1> HIDE DEF more
  <1>6. CASE running.ok
    <2>1. running.seen >= ShownView[k].seen /\ running.seen \in 0..changes[k]
      BY <1>1, <1>5 DEF Sound, Observed, LandCurrent, EntryType, DataType
    <2>2. k \notin Strays => \A h \in running.waiters : running.seen >= Promised[h].goal
      <3> SUFFICES ASSUME k \notin Strays, NEW h \in running.waiters
                   PROVE  running.seen >= Promised[h].goal
        OBVIOUS
      <3>1. running.live /\ h \in Handlers /\ cpc = "land"
        BY <1>1, KeysAssumption DEF Strays, LandCurrent, Sound, Core, TypeOK, RunType
      <3>2. Promised[h].goal = req[h].goal
        BY <3>1 DEF Promised, Sound, Core, WaiterHasOneTicket
      <3> QED
        BY <1>1, <3>1, <3>2 DEF Sound, Fresh, GoalsReached, Observed
    <2>3. ShownView' = [ShownView EXCEPT ![k].seen = running.seen, ![k].error = FALSE,
                                         ![k].pending = more]
      <3>1. /\ ~ entries'[k].error
            /\ entries'[k].data.seen = running.seen
        BY <1>2, <1>6
      <3> HIDE DEF k
      <3> QED
        BY <1>1, <1>2, <1>3, <1>8, <3>1, ViewLands
    <2>4. Contract!Deliver(k, running.seen, more, running.waiters)
      BY <1>4, <1>5, <2>1, <2>2, <2>3 DEF Contract!Deliver
    <2> QED
      BY <1>1, <1>4, <1>8, <2>1, <2>4, ContractNext
  <1>7. CASE ~ running.ok
    <2>1. ShownView' = [ShownView EXCEPT ![k].error = TRUE, ![k].pending = more]
      <3>1. /\ entries'[k].error
            /\ entries'[k].data.seen = entries[k].data.seen
        BY <1>2, <1>7
      <3> HIDE DEF k
      <3> QED
        BY <1>1, <1>2, <1>3, <1>8, <3>1, ViewFails
    <2>2. Contract!Fail(k, more, running.waiters)
      BY <1>4, <1>5, <2>1 DEF Contract!Fail
    <2> QED
      BY <1>1, <1>4, <1>8, <2>2, ContractNext
  <1> QED
    BY <1>1, <1>6, <1>7

\* A new collector is a new contract.
LEMMA InitContract == Init => Contract!Init
  <1> SUFFICES ASSUME Init PROVE Contract!Init
    OBVIOUS
  <1>1. \A k \in Keys : (k \in known) = FALSE
    BY DEF Init
  <1>2. ShownView = [k \in Keys |-> Contract!Absent]
    BY <1>1 DEF ShownView, Contract!Absent
  <1>3. Promised = [h \in Handlers |-> Contract!Nobody]
    BY DEF Init, Promised, Contract!Nobody
  <1> QED
    BY <1>2, <1>3 DEF Init, Idle, Strays, Contract!Init

\* Every step of the collector is a step of the contract, or one that nobody notices.
LEMMA NextContract == Sound /\ [Next]_vars => [Contract!Next]_(Contract!vars)
  <1> SUFFICES ASSUME Sound, [Next]_vars
               PROVE  Contract!Next \/ UNCHANGED Contract!vars
    OBVIOUS
  <1>0. /\ running \in RunType /\ changes \in [Keys -> Nat] /\ entries \in [Keys -> EntryType]
        /\ known \subseteq Keys /\ req \in [Handlers -> RequestType]
        /\ hpc \in [Handlers -> {"idle", "invalidate", "act", "check", "plan", "apply",
                                 "ask", "wait"}]
        /\ cpc \in {"sample", "land"} <=> running.key # NoKey
        /\ \A h \in Handlers : hpc[h] # "idle" => req[h].key \in Keys
    BY DEF Sound, Core, TypeOK, Threads
  <1>1. CASE UNCHANGED vars \/ PlanList \/ PlanFail \/ NothingDue \/ Wake
             \/ \E s \in Services : CreateContainer(s) \/ RemoveService(s)
    BY <1>1, Unnoticed DEF vars, docker, cache, thread, http, PlanList, PlanFail, NothingDue, Wake,
       CreateContainer, RemoveService
  <1>2. CASE PlanApply
    <2>1. cplan \in PlanType /\ Apply(cplan) /\ UNCHANGED changes
      BY <1>2 DEF Sound, Core, TypeOK, PlanApply, docker
    <2> QED
      BY <1>2, <2>1, RelistStep DEF PlanApply, Resolved, Contract!Next
  <1>3. ASSUME NEW h \in Handlers, HandlerPlanApply(h) PROVE Contract!Next
    <2>1. hplan[h] \in PlanType /\ Apply(hplan[h]) /\ UNCHANGED changes
      BY <1>3 DEF Sound, Core, TypeOK, HandlerPlanApply, docker
    <2>2. hpc[h] = "apply" /\ h \notin UNION {waiters[k] : k \in known \ known'}
      BY <1>3, <2>1, ApplyDrops DEF Sound, HandlerPlanApply
    <2> QED
      BY <1>0, <1>3, <2>1, <2>2, RelistStep DEF HandlerPlanApply, Resolved, Contract!Next
  <1>4. ASSUME NEW k \in Keys, PickForced(k) \/ PickDue(k) PROVE Contract!Next
    <2>1. /\ k \in known /\ known' = known /\ UNCHANGED changes
          /\ entries' = [entries EXCEPT ![k].pending = TRUE] /\ hpc' = hpc /\ req' = req
          /\ running.key = NoKey /\ running'.live
      BY <1>0, <1>4 DEF PickForced, PickDue, IsFirst, Begin, docker, http, Sound, QueueConsistent
    <2>2. ShownView' = [ShownView EXCEPT ![k].pending = TRUE] /\ ShownView[k].listed
      <3>1. /\ \A j \in known \ {k} : entries'[j] = entries[j]
            /\ entries'[k].pending /\ (entries'[k].error <=> entries[k].error)
            /\ entries'[k].data.seen = entries[k].data.seen
        BY <1>0, <2>1 DEF EntryType
      <3> QED
        BY <2>1, <3>1, ViewPends DEF Sound, Core, ShownView
    <2>3. Strays' = Strays
      BY <2>1 DEF Strays
    <2>4. Promised' = Promised
      BY <2>1, PromiseKept
    <2>5. Contract!Begin(k)
      BY <2>1, <2>2, <2>3, <2>4 DEF Contract!Begin
    <2> QED
      BY <2>5 DEF Contract!Next
  <1>5. ASSUME NEW b \in BOOLEAN, Observe(b) PROVE UNCHANGED Contract!vars
    BY <1>0, <1>5, Unnoticed DEF Observe, docker, cache, http, RunType
  <1>6. CASE LandOutdated
    <2> DEFINE k == running.key
    <2>1. /\ k \in known /\ k \in Keys /\ known' = known /\ UNCHANGED <<changes, entries, hpc, req>>
          /\ running' = Idle /\ entries[k].pending
      BY <1>0, <1>6 DEF LandOutdated, docker, http, Sound, PendingMeansWork
    <2>2. ShownView' = [ShownView EXCEPT ![k].pending = TRUE] /\ ShownView[k].listed
      BY <2>1, ViewPends DEF Sound, Core, ShownView
    <2>3. Promised' = Contract!Answered({}) /\ {} \in SUBSET Contract!Waiting(k)
      BY <2>1, PromiseAnswered
    <2>4. Strays' = Strays \ {k}
      BY <2>1 DEF Strays, Idle
    <2>5. Contract!Drop(k, {})
      BY <2>1, <2>2, <2>3, <2>4 DEF Contract!Drop
    <2> QED
      BY <2>1, <2>3, <2>5 DEF Contract!Next
  <1>7. CASE LandForgotten
    <2> DEFINE k == running.key
    <2>1. /\ k \in Keys /\ k \notin known /\ UNCHANGED <<changes, entries, known>>
          /\ running' = Idle /\ hpc' = Resolved(running.waiters)
          /\ req' = Released(running.waiters)
      BY <1>0, <1>7 DEF LandForgotten, docker, cache, RunType
    <2>2. ShownView' = ShownView /\ ~ ShownView[k].listed
      BY <2>1 DEF ShownView
    <2>3. /\ Promised' = Contract!Answered(running.waiters)
          /\ running.waiters \in SUBSET Contract!Waiting(k)
          /\ Strays' = Strays \ {k}
      BY <2>1, SampleEnds DEF Sound
    <2>4. Contract!Drop(k, running.waiters)
      BY <2>1, <2>2, <2>3 DEF Contract!Drop
    <2> QED
      BY <2>1, <2>3, <2>4 DEF Contract!Next
  <1>8. CASE Abandon
    <2> DEFINE k == running.key
    <2>1. /\ k \in Keys /\ UNCHANGED <<changes, known>>
          /\ running' = Idle /\ hpc' = Resolved(running.waiters)
          /\ req' = Released(running.waiters)
          /\ entries' = IF k \in known THEN [entries EXCEPT ![k].pending = TRUE] ELSE entries
      BY <1>0, <1>8 DEF Abandon, docker, RunType
    <2>2. ShownView' = IF ShownView[k].listed THEN [ShownView EXCEPT ![k].pending = TRUE]
                                              ELSE ShownView
      <3>1. ShownView[k].listed <=> k \in known
        BY <2>1 DEF ShownView
      <3>2. CASE k \in known
        <4>1. /\ \A j \in known \ {k} : entries'[j] = entries[j]
              /\ entries'[k].pending /\ (entries'[k].error <=> entries[k].error)
              /\ entries'[k].data.seen = entries[k].data.seen
          BY <1>0, <2>1, <3>2 DEF EntryType
        <4> QED
          BY <2>1, <3>1, <3>2, <4>1, ViewPends DEF Sound, Core
      <3>3. CASE k \notin known
        BY <2>1, <3>1, <3>3 DEF ShownView
      <3> QED
        BY <3>2, <3>3
    <2>3. /\ Promised' = Contract!Answered(running.waiters)
          /\ running.waiters \in SUBSET Contract!Waiting(k)
          /\ Strays' = Strays \ {k}
      BY <2>1, SampleEnds DEF Sound
    <2>4. Contract!Drop(k, running.waiters)
      BY <2>1, <2>2, <2>3 DEF Contract!Drop
    <2> QED
      BY <2>1, <2>3, <2>4 DEF Contract!Next
  <1>9. ASSUME NEW h \in Handlers,
               \/ \E k \in Keys : Refresh(h, k)
               \/ \E s \in Services : Locate(h, s)
               \/ Check(h) \/ HandlerPlanList(h) \/ HandlerPlanFail(h)
               \/ AskNotFound(h) \/ AskTooSoon(h)
        PROVE  UNCHANGED Contract!vars
    BY <1>0, <1>9, Unnoticed DEF Refresh, Locate, Check, HandlerPlanList, HandlerPlanFail,
       AskNotFound, AskTooSoon, Accept, Moves, Fails, docker, cache, thread
  <1>10. ASSUME NEW h \in Handlers, Invalidate(h) PROVE UNCHANGED Contract!vars
    <2>1. ShownView' = ShownView
      BY <1>0, <1>10, ViewSame DEF Invalidate, EntryType
    <2>2. Promised' = Promised
      BY <1>0, <1>10, PromiseKept DEF Invalidate, Moves
    <2> QED
      BY <1>10, <2>1, <2>2 DEF Invalidate, docker, thread, Contract!vars, Strays
  <1>11. ASSUME NEW h \in Handlers,
                \/ \E p \in Peers : Relay(h, p)
                \/ Act(h) \/ ActFails(h)
         PROVE  Contract!Next \/ UNCHANGED Contract!vars
    <2>1. UNCHANGED <<entries, known, running>>
      BY <1>11 DEF Relay, Act, ActFails, cache, thread
    <2>2. Promised' = Promised
      BY <1>0, <1>11, PromiseKept DEF Relay, Act, ActFails, Accept, Moves, Fails
    <2>3. ShownView' = ShownView /\ Strays' = Strays
      BY <2>1, ViewSame DEF Strays
    <2>4. \/ changes' = changes
          \/ \E k \in Keys : changes' = [changes EXCEPT ![k] = @ + 1]
      BY <1>0, <1>11 DEF Relay, Act, ActFails, Moves, Keys
    <2>5. ASSUME NEW k \in Keys, changes' = [changes EXCEPT ![k] = @ + 1]
          PROVE  Contract!Next
      <3>1. Contract!Change(k)
        BY <2>2, <2>3, <2>5 DEF Contract!Change
      <3> QED
        BY <3>1 DEF Contract!Next
    <2>6. CASE changes' = changes
      BY <2>2, <2>3, <2>6 DEF Contract!vars
    <2> QED
      BY <2>4, <2>5, <2>6
  <1>12. ASSUME NEW h \in Handlers, Ask(h) PROVE Contract!Next
    <2> DEFINE k == req[h].key
    <2>1. /\ k \in known /\ k \in Keys /\ UNCHANGED <<changes, known, req>> /\ hpc[h] = "ask"
          /\ hpc' = [hpc EXCEPT ![h] = "wait"]
          /\ running'.key = running.key /\ running'.live = running.live
          /\ entries' = [entries EXCEPT ![k].epoch = EpochAt(h), ![k].pending = TRUE]
      BY <1>0, <1>12 DEF Ask, Moves, docker, RunType
    <2>2. ShownView' = [ShownView EXCEPT ![k].pending = TRUE] /\ ShownView[k].listed
      <3>1. /\ \A j \in known \ {k} : entries'[j] = entries[j]
            /\ entries'[k].pending /\ (entries'[k].error <=> entries[k].error)
            /\ entries'[k].data.seen = entries[k].data.seen
        BY <1>0, <2>1 DEF EntryType
      <3> QED
        BY <2>1, <3>1, ViewPends DEF Sound, Core, ShownView
    <2>3. req[h].goal \in 0..changes[k]
      BY <1>0, <2>1 DEF Sound, Fresh, GoalsReached, RequestType
    <2>4. /\ Promised[h] = Contract!Nobody
          /\ Promised' = [Promised EXCEPT ![h] = [key |-> k, goal |-> req[h].goal]]
      BY <1>0, <2>1 DEF Promised, Contract!Nobody
    <2>5. Contract!Ask(h, k, req[h].goal)
      BY <2>1, <2>2, <2>4 DEF Contract!Ask, Strays
    <2> QED
      BY <2>1, <2>3, <2>5 DEF Contract!Next
  <1>13. ASSUME NEW h \in Handlers, Timeout(h) PROVE Contract!Next
    <2>1. ShownView' = ShownView /\ UNCHANGED changes
      BY <1>13, ViewSame DEF Timeout, docker
    <2>2. Promised' = Contract!Answered({h})
      BY <1>0, <1>13, PromiseAnswered DEF Timeout, Fails
    <2>3. Strays' = Strays
      BY <1>0, <1>13 DEF Timeout, RunType, Strays
    <2>4. Contract!GiveUp(h)
      BY <2>1, <2>2, <2>3 DEF Contract!GiveUp
    <2> QED
      BY <2>4 DEF Contract!Next
  <1> QED
    BY <1>1, <1>2, <1>3, <1>4, <1>5, <1>6, <1>7, <1>8, <1>9, <1>10, <1>11, <1>12, <1>13, LandStep
       DEF Next, Docker, Step, Handle

\* The cache keeps its contract (manager.py:365-378, 489-518, 563-583, 604-617), for any
\* number of services, peers, handlers, containers, requests and faults.
THEOREM ContractTheorem == Spec => KeepsContract
  <1>1. Core /\ Observed /\ [Next]_vars => Observed'
    BY NextObserved
  <1>2. Spec => []Observed
    BY <1>1, InitObserved, CoreInvariant, PTL DEF Spec
  <1>3. Core /\ QueueConsistent /\ PendingMeansWork /\ Fresh /\ Observed /\ [Next]_vars
           => [Contract!Next]_(Contract!vars)
    BY NextContract DEF Sound
  <1> QED
    BY <1>2, <1>3, InitContract, CoreInvariant, QueueTheorem, PendingTheorem, FreshInvariant,
       PTL DEF Spec, KeepsContract, Contract!Spec
==============================================================================
