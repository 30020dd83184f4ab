------------------------------ MODULE Supervisor ------------------------------
(***************************************************************************)
(* One node container: entrypoint.sh, which starts the services of a node  *)
(* in order, waits for them and stops them, and healthcheck.sh, which runs *)
(* beside it and judges the node by the pid files entrypoint.sh writes.    *)
(*                                                                         *)
(* Every step of the script is a command boundary, where bash runs a trap  *)
(* that is pending; a trap waits for the command in the foreground.  The   *)
(* generated configuration files and the branch that runs a one-off        *)
(* command instead (entrypoint.sh:6-8) are left out.                       *)
(***************************************************************************)
EXTENDS Naturals, FiniteSets, Sequences, SequencesExt

CONSTANTS Attempts,  \* the seconds stop_services waits (100)
          MaxRuns,   \* bound: starts of the container
          MaxChecks  \* bound: health checks

Services == {"oxend", "storage", "lokinet", "router"}

ASSUME SupervisorAssumption == Attempts \in Nat /\ MaxRuns \in Nat /\ MaxChecks \in Nat

VARIABLES
    full,     \* a mainnet node (all services), not a stagenet node or a proxy
    pc,       \* where the script is
    n,        \* services started so far
    proc,     \* service -> "none", "up" or "dead"
    how,      \* why a dead service is dead: "own" (it exited), "signal" (it crashed, or was
              \* killed by the kernel), "term", "kill" (by stop_services), or "lost"
    tracked,  \* the services whose pid is in pids
    forgotten, \* the services bash has taken off its table of jobs
    termed,   \* the services that stop_services has sent a TERM
    pidsfile, \* /run/session-node.pids: "none", "stale" (of an earlier run), "empty", "new"
    syncing,  \* /run/session-node.syncing: "none", "stale" or "new"
    term,     \* a TERM for the script is pending
    asked,    \* history: this run was asked to stop
    attempt,  \* of stop_services' loop
    status,   \* the exit status
    runs,
    hpc, hfile,        \* where the health check is, and the file it chose
    verdict,           \* of the last health check
    hsync,             \* history: it began during the initial sync
    hmiss,             \* history: a service it had to cover was dead when it began
    checks

script == <<full, pc, n, tracked, termed, attempt, status>>
files  == <<pidsfile, syncing>>
docker == <<term, asked, runs>>
health == <<hpc, hfile, verdict, hsync, hmiss, checks>>
jobs   == <<proc, how, forgotten>>
vars   == <<script, jobs, files, docker, health>>

Up   == {s \in Services : proc[s] = "up"}
Dead == {s \in Services : proc[s] = "dead"}

\* The services of this container, in the order of their starts.
Order    == IF full THEN <<"oxend", "storage", "lokinet", "router">> ELSE <<"oxend">>
Required == ToSet(Order)

Init ==
    /\ full \in BOOLEAN
    /\ pc = "boot" /\ n = 0 /\ tracked = {} /\ termed = {} /\ attempt = 0 /\ status = 0
    /\ proc = [s \in Services |-> "none"] /\ how = [s \in Services |-> "none"]
    /\ forgotten = {}
    /\ pidsfile = "none" /\ syncing = "none"
    /\ term = FALSE /\ asked = FALSE /\ runs = 1
    /\ hpc = "idle" /\ hfile = "pids" /\ verdict = "none"
    /\ hsync = FALSE /\ hmiss = FALSE /\ checks = 0

------------------------------------------------------------------------------
(* The services *)

\* A service exits, is killed by a signal, or ends because it was sent a TERM.
ServiceEnds(s) ==
    /\ proc[s] = "up"
    /\ proc' = [proc EXCEPT ![s] = "dead"]
    /\ \E why \in (IF s \in termed THEN {"term"} ELSE {"own", "signal"}) :
          how' = [how EXCEPT ![s] = why]
    /\ UNCHANGED <<script, forgotten, files, docker, health>>

\* A shell that is not interactive reports a job killed by a signal (one it does not trap)
\* between two commands, and takes it off its table: wait -n will not know its pid.
Forget(s) ==
    /\ how[s] = "signal" /\ s \notin forgotten
    /\ pc \notin {"boot", "run", "stop", "exited"}
    /\ forgotten' = forgotten \cup {s}
    /\ UNCHANGED <<script, proc, how, files, docker, health>>

------------------------------------------------------------------------------
(* Starting *)

Goes(from, to) == pc = from /\ pc' = to

\* The end of the script is the end of the container: what still runs is killed.
Exits(code) ==
    /\ pc' = "exited" /\ status' = code
    /\ proc' = [s \in Services |-> IF proc[s] = "up" THEN "dead" ELSE proc[s]]
    /\ hpc' = "idle"

\* stop_services begins: every service it knows of is sent a TERM.
Stops(code) == pc' = "stop" /\ status' = code /\ attempt' = 0 /\ termed' = tracked \cap Up

\* Validation and configuration; no trap is set yet.
Boot ==
    /\ Goes("boot", "clean") /\ ~ term
    /\ UNCHANGED <<full, n, tracked, termed, attempt, status, jobs, files, docker, health>>

\* A setting is refused, or a TERM ends the script before it has a trap.
BootFails ==
    /\ pc = "boot"
    /\ \E code \in 1..2 : (code = 2 => term) /\ Exits(code)
    /\ UNCHANGED <<full, n, tracked, termed, attempt, how, forgotten, files, docker, hfile, verdict,
                   hsync, hmiss, checks>>

\* Mutant: the files of the previous run stay.
KeepsStale(file) == file

\* "A restarted container keeps these files from its previous run."
RemovesStale(file) == "none"

Clean ==
    /\ Goes("clean", "start")
    /\ pidsfile' = RemovesStale(pidsfile) /\ syncing' = RemovesStale(syncing)
    /\ UNCHANGED <<full, n, tracked, termed, attempt, status, jobs, docker, health>>

\* start(): the service runs, and only the next command records its pid.
Fork ==
    LET s == Order[n + 1]
    IN  /\ Goes("start", "track")
        /\ n' = n + 1
        /\ proc' = [proc EXCEPT ![s] = "up"]
        /\ UNCHANGED <<full, tracked, termed, attempt, status, how, forgotten, files, docker, health>>

\* A service is waited for before the next one starts, except storage.
After(s) == CASE s = "oxend"   -> IF full THEN "ready" ELSE "publish"
              [] s = "storage" -> "start"
              [] s = "lokinet" -> "tunnel"
              [] s = "router"  -> "publish"

Track ==
    /\ Goes("track", After(Order[n]))
    /\ tracked' = tracked \cup {Order[n]}
    /\ UNCHANGED <<full, n, termed, attempt, status, jobs, files, docker, health>>

\* oxend answers; its pid goes to the syncing file.
Ready ==
    /\ Goes("ready", "sync")
    /\ "oxend" \in Up
    /\ syncing' = "new"
    /\ UNCHANGED <<full, n, tracked, termed, attempt, status, jobs, pidsfile, docker, health>>

\* oxend reports a top block: its companions may start.
Synced ==
    /\ Goes("sync", "start")
    /\ "oxend" \in Up
    /\ UNCHANGED <<full, n, tracked, termed, attempt, status, jobs, files, docker, health>>

\* The route of lokinet's tunnel is there: Session Router may start.
TunnelUp ==
    /\ Goes("tunnel", "start")
    /\ "lokinet" \in Up
    /\ UNCHANGED <<full, n, tracked, termed, attempt, status, jobs, files, docker, health>>

\* Mutant: the wait for the end of the initial sync does not look at oxend.
ReadyOnly(s) == s = "lokinet" /\ pc = "tunnel"

\* What the wait loops look at: "exited during startup", "exited while synchronizing".
Watches(s) ==
    \/ s = "oxend" /\ pc \in {"ready", "sync"}
    \/ s = "lokinet" /\ pc = "tunnel"

\* The service waited for is gone, or its deadline (120 s; none for the sync) has passed.
StartFails ==
    /\ \/ \E s \in Dead : Watches(s)
       \/ pc \in {"ready", "tunnel"}
    /\ Stops(1)
    /\ UNCHANGED <<full, n, tracked, jobs, files, docker, health>>

\* printf > pids: the file is truncated, then written.
Truncate ==
    /\ Goes("publish", "write")
    /\ pidsfile' = "empty"
    /\ UNCHANGED <<full, n, tracked, termed, attempt, status, jobs, syncing, docker, health>>

Publish ==
    /\ Goes("write", "unsync")
    /\ pidsfile' = "new"
    /\ UNCHANGED <<full, n, tracked, termed, attempt, status, jobs, syncing, docker, health>>

Unsync ==
    /\ Goes("unsync", "run")
    /\ syncing' = "none"
    /\ UNCHANGED <<full, n, tracked, termed, attempt, status, jobs, pidsfile, docker, health>>

------------------------------------------------------------------------------
(* Stopping *)

\* Mutant: a service that ends well ends the container well.
StatusAsIs(code) == code

\* "Exit on any service failure so Docker's restart policy restarts the whole node."
ExitStatus(code) == IF code = 0 THEN 1 ELSE code

\* wait -n returns when one of the services it knows has ended, before or during the wait;
\* it leaves out the pids it does not know, and fails at once when it knows none.
Ended == (tracked \cap Dead) \ forgotten # {} \/ tracked \subseteq forgotten

WaitReturns ==
    /\ pc = "run" /\ Ended
    /\ \E code \in 0..1 : Stops(ExitStatus(code))
    /\ UNCHANGED <<full, n, tracked, jobs, files, docker, health>>

\* Docker, or the operator, stops the container; tini passes the TERM on to the script.
Terminate ==
    /\ pc # "exited" /\ ~ asked
    /\ term' = TRUE /\ asked' = TRUE
    /\ UNCHANGED <<script, jobs, files, runs, health>>

Trapped == pc \notin {"boot", "stop", "exited"}

\* The TERM trap: stop_services, exit 0.  While it stops, further signals are ignored.
Trap ==
    /\ term /\ Trapped
    /\ term' = FALSE
    /\ Stops(0)
    /\ UNCHANGED <<full, n, tracked, jobs, files, asked, runs, health>>

\* Mutant: attempt <= 100.
WaitOnceMore ==
    /\ pc = "stop" /\ tracked \cap Up # {} /\ attempt <= Attempts
    /\ attempt' = attempt + 1
    /\ UNCHANGED <<full, pc, n, tracked, termed, status, jobs, files, docker, health>>

\* A service that is slow to stop: the loop waits a second.
Wait ==
    /\ pc = "stop" /\ tracked \cap Up # {} /\ attempt < Attempts
    /\ attempt' = attempt + 1
    /\ UNCHANGED <<full, pc, n, tracked, termed, status, jobs, files, docker, health>>

\* Mutant: the loop goes on only while every service runs.
AnyEnded == termed \cap Dead # {}

\* kill -0 with several pids succeeds while any of them runs.
AllEnded == tracked \cap Up = {}

\* What still runs after the last attempt is killed, and the script exits.
Stopped ==
    /\ pc = "stop" /\ (AllEnded \/ attempt = Attempts)
    /\ Exits(status)
    /\ how' = [s \in Services |-> IF proc[s] # "up" THEN how[s]
                                  ELSE IF s \in tracked THEN "kill" ELSE "lost"]
    /\ UNCHANGED <<full, n, tracked, termed, attempt, forgotten, files, docker, hfile, verdict,
                   hsync, hmiss, checks>>

\* The restart policy, or the operator, starts the same container again.
Restart ==
    LET Kept(file) == IF file = "new" THEN "stale" ELSE file
    IN  /\ pc = "exited" /\ runs < MaxRuns
        /\ runs' = runs + 1
        /\ pc' = "boot" /\ n' = 0 /\ tracked' = {} /\ termed' = {} /\ attempt' = 0 /\ status' = 0
        /\ proc' = [s \in Services |-> "none"] /\ how' = [s \in Services |-> "none"]
        /\ forgotten' = {}
        /\ pidsfile' = Kept(pidsfile) /\ syncing' = Kept(syncing)
        /\ term' = FALSE /\ asked' = FALSE
        /\ verdict' = "none"
        /\ UNCHANGED <<full, hpc, hfile, hsync, hmiss, checks>>

------------------------------------------------------------------------------
(* healthcheck.sh *)

Empty(file) == file \in {"none", "empty"}

\* The pids, unless there are none and a node that synchronizes has left its own.
CheckBegins ==
    /\ hpc = "idle" /\ pc # "exited" /\ checks < MaxChecks
    /\ hpc' = "pids" /\ checks' = checks + 1 /\ verdict' = "none"
    /\ hfile' = IF ~ Empty(pidsfile) \/ Empty(syncing) THEN "pids" ELSE "syncing"
    /\ hsync' = (pc = "sync")
    /\ hmiss' = (Dead \cap (IF pidsfile = "new" THEN Required ELSE {"oxend"}) # {})
    /\ UNCHANGED <<script, jobs, files, docker>>

\* Mutant: the first live process is enough.
SomeRuns(ss) == ss \cap Up # {}

EachRuns(ss) == ss \subseteq Up

\* [[ -s $pids ]] and kill -0 of each pid.  The pids of an earlier run may be those of
\* other processes by now.
CheckPids ==
    LET content == IF hfile = "pids" THEN pidsfile ELSE syncing
        covers  == IF hfile = "pids" THEN Required ELSE {"oxend"}
    IN  /\ hpc = "pids"
        /\ \E passes \in BOOLEAN :
              /\ content = "new" => passes = EachRuns(covers)
              /\ Empty(content) => ~ passes
              /\ hpc' = IF passes THEN "rpc" ELSE "idle"
              /\ verdict' = IF passes THEN "none" ELSE "noProcess"
        /\ UNCHANGED <<script, jobs, files, docker, hfile, hsync, hmiss, checks>>

\* get_info, and for a mainnet node that has its companions the age of their pings.
CheckRpc ==
    LET pinged == hfile = "pids" /\ full => \A s \in Services : proc[s] # "none"
    IN  /\ hpc = "rpc"
        /\ hpc' = "idle"
        /\ \/ verdict' = "healthy" /\ "oxend" \in Up /\ pinged
           \/ verdict' = "noAnswer"
        /\ UNCHANGED <<script, jobs, files, docker, hfile, hsync, hmiss, checks>>

------------------------------------------------------------------------------
Script == \/ Boot \/ BootFails \/ Clean \/ Fork \/ Track \/ Ready \/ Synced \/ TunnelUp
          \/ StartFails \/ Truncate \/ Publish \/ Unsync \/ WaitReturns \/ Trap \/ Wait \/ Stopped

Check == CheckBegins \/ CheckPids \/ CheckRpc

Next == Script \/ Check \/ Terminate \/ Restart
        \/ \E s \in Services : ServiceEnds(s) \/ Forget(s)

Spec == Init /\ [][Next]_vars

\* The script runs on; Docker's own restarts and checks are not counted on.
FairSpec == Spec /\ WF_vars(Script)

------------------------------------------------------------------------------
(* Properties *)

TypeOK ==
    /\ pc \in {"boot", "clean", "start", "track", "ready", "sync", "tunnel", "publish",
               "write", "unsync", "run", "stop", "exited"}
    /\ n \in 0..Len(Order) /\ attempt \in 0..Attempts /\ status \in 0..2
    /\ proc \in [Services -> {"none", "up", "dead"}]
    /\ how \in [Services -> {"none", "own", "signal", "term", "kill", "lost"}]
    /\ forgotten \in SUBSET Services
    /\ tracked \in SUBSET Services /\ termed \in SUBSET tracked
    /\ pidsfile \in {"none", "stale", "empty", "new"} /\ syncing \in {"none", "stale", "new"}
    /\ term \in BOOLEAN /\ asked \in BOOLEAN /\ runs \in Nat /\ checks \in Nat
    /\ hpc \in {"idle", "pids", "rpc"} /\ hfile \in {"pids", "syncing"}
    /\ verdict \in {"none", "healthy", "noProcess", "noAnswer"}
    /\ hsync \in BOOLEAN /\ hmiss \in BOOLEAN

\* stop_services (entrypoint.sh:115-128): whenever the script ends, every service whose
\* pid it has recorded has ended, after a TERM of its own, and is killed only when the
\* whole of the shutdown period has passed.  A service is killed with the container only
\* if a stop was asked for before its pid was recorded, and so only the last one started.
TrackedStopGracefully ==
    pc = "exited" => \A s \in Services :
        /\ s \in tracked => how[s] \in {"own", "signal", "term", "kill"}
        /\ how[s] = "kill" => s \in termed /\ attempt = Attempts
        /\ how[s] = "lost" => asked /\ s = Order[n]

\* The restart policy is told of a failure: the status is 0 only if a stop was asked for,
\* and no service of the node is up in a container that has ended.
FailureIsReported == pc = "exited" => Up = {} /\ (status = 0 => asked)

\* A service that was dead when a health check began is not missed by it: healthy means
\* that each service the check had to cover was then still running.
HealthyIsTrue == verdict = "healthy" => ~ hmiss

\* "Until the companions are running, the health check covers oxend alone"
\* (entrypoint.sh:199-200): a check during the initial sync, however long, and whatever
\* files an earlier run has left, does not miss a process while oxend runs.
SyncIsHealthy ==
    verdict = "noProcess" /\ hsync /\ pc = "sync" => proc["oxend"] = "dead"

\* README.md:213: "the entrypoint stops all services if any required daemon exits", also
\* while others are still starting.
FailureEndsTheRun == \A s \in Services : how[s] \in {"own", "signal"} ~> pc = "exited"

\* What holds of it: a service that exits ends the run whenever it does; one that is killed
\* by a signal does while the start waits for it, or once all services run.
SeenFailureEndsTheRun ==
    \A s \in Services :
        \/ how[s] = "own"
        \/ how[s] = "signal" /\ (Watches(s) \/ (pc = "run" /\ s \notin forgotten))
        ~> pc = "exited"

==============================================================================
