------------------------------- MODULE Probe -------------------------------
(***************************************************************************)
(* One sample of a node (manager/manager.py: Manager.inspect, probe,       *)
(* describe, sync_state, problems, assess) and what the manager remembers  *)
(* from one sample to the next (sync_memory, forget_stale).                *)
(*                                                                         *)
(* A node in its initial sync is too busy to answer RPC.  The manager then *)
(* falls back on oxend's log, and on what it saw last, so as not to raise  *)
(* a false alarm; and it must not go on doing so when the sync is over.    *)
(*                                                                         *)
(* Heights are abstracted to how far the chain is behind its target, and   *)
(* ages are counted in ticks.  A probe is killed at its deadline (40 s),   *)
(* far less than a tick, so the clock stands still during a sample; Docker *)
(* and the HTTP handlers do not.                                           *)
(***************************************************************************)
EXTENDS Naturals

CONSTANTS MaxContainers,  \* bound: containers the service gets, numbered from 1
          LogFresh,       \* SYNC_LOG_FRESH, in ticks
          Memory          \* SYNC_MEMORY, in ticks

Containers == 1..MaxContainers
None       == 0

ASSUME AgesAssumption == LogFresh \in Nat \ {0} /\ Memory \in Nat \ {0}
ASSUME BoundAssumption == MaxContainers \in Nat

Gaps == {"none", "few", "far"}  \* below BEHIND_WARN, below SYNC_BEHIND, or not
Older(age, limit) == IF age < limit THEN age + 1 ELSE age    \* limit: that old, or older

VARIABLES
    container,  \* the service's container, or None
    up,         \* is it running?
    created,    \* containers so far
    gap,        \* how far the chain is behind
    farAge,     \* how long ago the node was last in its initial sync
    log,        \* the newest "Synced H/T" line: its age, and whether it said far
    registered, \* is the node registered?
    memory,     \* sync_memory: container -> what it was last seen syncing with
    target,     \* the container being sampled, or None
    runs,       \* what its details said
    last,       \* the view made by the last inspection
    lastAge,    \* its age
    landing,    \* that view has not reached the cache yet: shown, or discarded
    shown,      \* the row: the container and the state the cache shows
    listing,    \* the container a handler's plan has listed, or Nothing
    raced       \* a plan with an older listing has forgotten a container that exists

node  == <<container, up, created, gap, farAge, log, registered>>
cache == <<memory, target, runs, last, lastAge, landing, shown, listing, raced>>
vars  == <<node, cache>>

Nothing   == MaxContainers + 1
Unknown   == [held |-> FALSE, age |-> 0, registered |-> FALSE]
NoView  == [container |-> None, state |-> "pending", attention |-> FALSE,
              recalled |-> FALSE, silent |-> FALSE]
Row(view) == [container |-> view.container, state |-> view.state]
FarLimit  == LogFresh + Memory

Init ==
    /\ container = None /\ up = FALSE /\ created = 0
    /\ gap \in {"none", "far"}
    /\ farAge = IF gap = "far" THEN 0 ELSE FarLimit
    /\ log = [age |-> LogFresh, far |-> FALSE]
    /\ registered \in BOOLEAN
    /\ memory = [c \in Containers |-> Unknown]
    /\ target = None /\ runs = FALSE
    /\ last = NoView /\ lastAge = 0 /\ landing = FALSE /\ shown = Row(NoView)
    /\ listing = Nothing /\ raced = FALSE

------------------------------------------------------------------------------
(* The node.  Its data directory, and with it chain and log, outlives containers. *)

Create ==
    /\ created < MaxContainers
    /\ created' = created + 1 /\ container' = created + 1 /\ up' = TRUE
    /\ UNCHANGED <<gap, farAge, log, registered, cache>>

Remove ==
    /\ container # None
    /\ container' = None /\ up' = FALSE
    /\ UNCHANGED <<created, gap, farAge, log, registered, cache>>

StartOrStop ==
    /\ container # None
    /\ up' = ~ up
    /\ UNCHANGED <<container, created, gap, farAge, log, registered, cache>>

\* The chain catches up, or falls behind (a node that was stopped for long).
Moves(g) ==
    /\ gap' = g /\ g # gap
    /\ farAge' = IF g = "far" THEN 0 ELSE farAge
    /\ UNCHANGED <<container, up, created, log, registered, cache>>

\* oxend logs its progress, even when its RPC is too busy to answer.
Logs ==
    /\ up
    /\ log' = [age |-> 0, far |-> gap = "far"]
    /\ UNCHANGED <<container, up, created, gap, farAge, registered, cache>>

Tick ==
    /\ target = None
    /\ farAge' = IF gap = "far" THEN 0 ELSE Older(farAge, FarLimit)
    /\ log' = [log EXCEPT !.age = Older(@, LogFresh)]
    /\ memory' = [c \in Containers |->
                    IF memory[c].held THEN [memory[c] EXCEPT !.age = Older(@, Memory)]
                                      ELSE Unknown]
    /\ lastAge' = IF last = NoView THEN 0 ELSE Older(lastAge, Memory)
    /\ UNCHANGED <<container, up, created, gap, registered, target, runs, last, landing, shown,
                   listing, raced>>

------------------------------------------------------------------------------
(* What one sample makes of what it sees *)

\* problems(): worst first in the code, a set here.
Problems(see) ==
    IF ~ see.up THEN {"stopped"}
    ELSE (see.troubles \cap {"unhealthy"}) \cup
         IF ~ see.rpc THEN {"rpc"}
         ELSE (see.troubles \ {"unhealthy"}) \cup {b \in {"behind"} : see.target /\ gap # "none"}

\* sync_progress(): a target that is not known yet reads as no sync.
InSync(known, far) == known /\ far

Remember(c, reg) == [memory EXCEPT ![c] = [held |-> TRUE, age |-> 0, registered |-> reg]]
Forget(c)        == [memory EXCEPT ![c] = Unknown]

\* Mutants: progress taken from memory is remembered as if it were new; a node whose RPC
\* does not answer is forgotten.
Renewed(c)   == IF memory[c].held THEN [memory EXCEPT ![c].age = 0] ELSE memory
Unanswered(c) == Forget(c)

\* A memory that is too old is dropped; one that is used keeps its age.
Recalled(c) == IF memory[c].age < Memory THEN memory ELSE Forget(c)

\* Mutant: a log line starts a new memory.
Unregistered(c) == FALSE

StillRegistered(c) == memory[c].held /\ memory[c].registered

\* sync_state(): from RPC, else from a fresh log line, else from memory.  The result
\* is the memory afterwards, and the progress shown.
NoSync == [on |-> FALSE, recalled |-> FALSE, registered |-> FALSE]
Sync(recalled, reg) == [on |-> TRUE, recalled |-> recalled, registered |-> reg]

SyncState(c, see) ==
    IF ~ see.up THEN <<Forget(c), NoSync>>
    ELSE IF see.rpc
    THEN IF InSync(see.target, gap = "far")
         THEN <<Remember(c, registered /\ see.status), Sync(FALSE, registered /\ see.status)>>
         ELSE <<Forget(c), NoSync>>
    ELSE IF see.log /\ log.age < LogFresh /\ InSync(TRUE, log.far)
    THEN <<Remember(c, StillRegistered(c)), Sync(TRUE, StillRegistered(c))>>
    ELSE <<Recalled(c), IF Recalled(c)[c].held THEN Sync(TRUE, memory[c].registered)
                                               ELSE NoSync>>

\* assess(): a sync in progress comes before whatever else was found, which is held back;
\* it is raised only if the node is registered, and so at risk.
Assess(c, see, sync) ==
    LET found == Problems(see)
        view  == [NoView EXCEPT !.container = c, !.silent = "rpc" \in found]
    IN  CASE ~ see.up -> [view EXCEPT !.state = "stopped", !.attention = TRUE]
          [] see.up /\ sync.on ->
                [view EXCEPT !.state = "syncing", !.attention = sync.registered,
                             !.recalled = sync.recalled]
          [] see.up /\ ~ sync.on /\ found # {} ->
                [view EXCEPT !.state = "degraded", !.attention = TRUE]
          [] OTHER -> [view EXCEPT !.state = "healthy"]

------------------------------------------------------------------------------
(* The collector: plan, details, probe *)

\* forget_stale(): what is remembered of containers that are not listed goes.
ForgetStale(current) ==
    memory' = [c \in Containers |-> IF c = current THEN memory[c] ELSE Unknown]

\* plan(), then step() chooses the node.  A service without a container is dropped.  The
\* thread's own plan is one step: nobody else samples between its listing and its end.
Pick ==
    /\ target = None
    /\ ForgetStale(container)
    /\ target' = container
    /\ shown' = IF container = None THEN Row(NoView) ELSE shown
    /\ UNCHANGED <<node, runs, last, lastAge, landing, listing, raced>>

\* inspect(): the details say whether the container runs.  Probing is a call of its own.
Details ==
    /\ target = container /\ up /\ ~ runs /\ ~ landing
    /\ runs' = TRUE
    /\ UNCHANGED <<node, memory, target, last, lastAge, landing, shown, listing, raced>>

\* The memory is written here, whatever becomes of the view.
Inspect(see) ==
    LET s == SyncState(target, see)
    IN  /\ memory' = s[1]
        /\ last' = Assess(target, see, s[2]) /\ lastAge' = 0
        /\ raced' = (raced /\ ~ s[1][target].held)
        /\ landing' = TRUE /\ runs' = FALSE
        /\ UNCHANGED <<node, target, shown, listing>>

\* It does not run: nothing is probed.
SampleStopped ==
    /\ target # None /\ target = container /\ ~ up /\ ~ runs /\ ~ landing
    /\ Inspect([up |-> FALSE, rpc |-> FALSE, target |-> FALSE, status |-> FALSE, log |-> FALSE,
                troubles |-> {}])

\* The probe ran.  RPC answers or not, with a target or not yet; the service node status
\* is a request of its own, which may time out; the log is readable or not (a probe that
\* was killed, or printed nonsense, says nothing at all).
SampleRunning(see) ==
    /\ runs /\ target = container /\ up
    /\ see.status => see.rpc
    /\ see.up
    /\ Inspect(see)

\* step() has the view: it is stored.
Land ==
    /\ landing
    /\ shown' = Row(last)
    /\ target' = None /\ landing' = FALSE
    /\ UNCHANGED <<node, memory, runs, last, lastAge, listing, raced>>

\* Or it is outdated (power() or a plan has moved the epoch, or dropped the node): the row
\* stays as it was, and the memory as the inspection has left it.
Discard ==
    /\ landing
    /\ target' = None /\ landing' = FALSE
    /\ UNCHANGED <<node, memory, runs, last, lastAge, shown, listing, raced>>

\* Docker fails, or the container is gone: the last view stays, with its age.
SampleFails ==
    /\ target # None /\ ~ landing
    /\ target' = None /\ runs' = FALSE
    /\ UNCHANGED <<node, memory, last, lastAge, landing, shown, listing, raced>>

\* A handler's plan() (an unknown key was asked for) lists, and forgets, at its own pace.
HandlerLists ==
    /\ listing = Nothing
    /\ listing' = container
    /\ UNCHANGED <<node, memory, target, runs, last, lastAge, landing, shown, raced>>

HandlerForgets ==
    /\ listing # Nothing
    /\ ForgetStale(listing)
    /\ raced' = (raced \/ (container # None /\ memory'[container] # memory[container]))
    /\ listing' = Nothing
    /\ shown' = IF listing = None THEN Row(NoView) ELSE shown
    /\ UNCHANGED <<node, target, runs, last, lastAge, landing>>

\* The manager restarts: its memory and its cache are gone.
Restart ==
    /\ memory' = [c \in Containers |-> Unknown]
    /\ target' = None /\ runs' = FALSE
    /\ last' = NoView /\ lastAge' = 0 /\ landing' = FALSE /\ shown' = Row(NoView)
    /\ listing' = Nothing /\ raced' = FALSE
    /\ UNCHANGED node

------------------------------------------------------------------------------
Troubles == {"unhealthy", "companion"}  \* a companion: process, ping, L2 tracker, decommissioned
Sees == [up : {TRUE}, rpc : BOOLEAN, target : BOOLEAN, status : BOOLEAN, log : BOOLEAN,
         troubles : SUBSET Troubles]

Next ==
    \/ Create \/ Remove \/ StartOrStop \/ Logs \/ Tick
    \/ \E g \in Gaps : Moves(g)
    \/ Pick \/ Details \/ SampleStopped \/ SampleFails
    \/ \E see \in Sees : SampleRunning(see)
    \/ Land \/ Discard
    \/ HandlerLists \/ HandlerForgets \/ Restart

Spec == Init /\ [][Next]_vars

------------------------------------------------------------------------------
Inspected == ~ landing /\ landing'

\* "Held back ... until the chain catches up" (README.md:289-291): whatever is remembered,
\* logged, restarted or recreated, a node whose sync has been over for SYNC_MEMORY and
\* SYNC_LOG_FRESH together is never shown as syncing, so its alarms are not held back.
SyncIsRecent == [][Land /\ shown'.state = "syncing" => farAge < LogFresh + Memory]_vars

\* "How long a remembered sync snapshot may stand in for a node whose RPC is busy"
\* (manager.py:44): a node that answered one inspection as syncing is not an alarm for
\* the next because it does not answer, for less than that time and however many failed
\* samples, discarded views and plans come in between (but for a handler's plan with a
\* listing older than the container).
BusyIsNotBroken ==
    [][ /\ Inspected /\ last.container = target
        /\ last.state = "syncing" /\ ~ last.recalled /\ lastAge < Memory
        /\ last'.silent /\ ~ raced
        => last'.state = "syncing" ]_vars

\* "A registered node catching up ... keeps the operator's attention" (manager.py:280):
\* once an inspection finds it at risk, every later one its RPC does not answer does so
\* too, shown or discarded, whether the progress comes from the log, from memory, or from
\* one and then the other.
AttentionKept ==
    [][ /\ Inspected /\ last.container = target
        /\ last.state = "syncing" /\ last.attention
        /\ last'.state = "syncing" /\ last'.recalled /\ ~ raced
        => last'.attention ]_vars
==============================================================================
