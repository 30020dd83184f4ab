--------------------------- MODULE SupervisorProofs ---------------------------
(***************************************************************************)
(* Supervisor's safety properties, proved for any length of the shutdown   *)
(* period, any number of restarts and of health checks.  One lemma per     *)
(* part of the invariant.                                                  *)
(***************************************************************************)
EXTENDS Supervisor, TLAPS

\* The ranges of the counters.
Numbers == /\ n \in 0..Len(Order) /\ attempt \in 0..Attempts /\ status \in 0..2
           /\ runs \in Nat /\ checks \in Nat

\* How far the start has come at each place of the script.
Progress ==
    /\ pc \in {"boot", "clean"} => n = 0
    /\ pc = "start" => n = 0 \/ (full /\ n \in 1..3)
    /\ pc = "track" => n \in 1..Len(Order)
    /\ pc \in {"ready", "sync"} => full /\ n = 1
    /\ pc = "tunnel" => full /\ n = 3

\* What the services are at each place, and why.
Lives ==
    /\ \A s \in Services :
          /\ proc[s] # "dead" <=> how[s] = "none"
          /\ s \in tracked => proc[s] # "none"
          /\ how[s] = "lost" => pc = "exited" /\ asked /\ s = Order[n]
          /\ how[s] = "kill" => pc = "exited" /\ s \in termed /\ attempt = Attempts
          /\ pc = "stop" /\ s \in tracked /\ proc[s] = "up" => s \in termed
          /\ pc = "boot" => proc[s] = "none" /\ s \notin tracked
          /\ pc = "exited" => proc[s] # "up" /\ (s \in tracked => how[s] # "lost")
    /\ \A j \in 1..Len(Order) : proc[Order[j]] = "none" <=> j > n

\* A service that was started and is not recorded is the last one: it is about to be, or a
\* TERM has come before it was.
Recorded ==
    \A s \in Services :
        proc[s] # "none" /\ s \notin tracked =>
            s = Order[n] /\ (pc = "track" \/ (pc \in {"stop", "exited"} /\ asked))

\* A status of 0 is one of a run that was asked to stop.
Reported ==
    /\ term => asked
    /\ pc \in {"stop", "exited"} /\ status = 0 => asked

\* The files at each place of the script; the check ends with the container.
FilesFollow ==
    /\ pidsfile = "new" => pc \in {"unsync", "run", "stop", "exited"}
    /\ pc \in {"start", "track", "ready", "sync", "tunnel", "publish"} => pidsfile = "none"
    /\ pc = "sync" => syncing = "new"
    /\ pc = "exited" => hpc = "idle"

\* A health check that began when a service was dead has not passed, and will not.
Missed ==
    /\ hmiss => verdict # "healthy"
    /\ hmiss /\ hpc # "idle" =>
          \/ proc["oxend"] = "dead"
          \/ hpc = "pids" /\ hfile = "pids" /\ pidsfile = "new" /\ Dead \cap Required # {}

BeforeSync == \/ pc \in {"boot", "clean", "ready"}
              \/ pc = "start" /\ n = 0
              \/ pc = "track" /\ n = 1

\* A health check that began during the initial sync judges oxend alone.
Syncing ==
    /\ BeforeSync /\ hsync => hpc = "idle" /\ verdict = "none"
    /\ pc = "sync" /\ hsync =>
          /\ hpc = "pids" => hfile = "syncing"
          /\ verdict = "noProcess" => proc["oxend"] = "dead"

Inv == TypeOK /\ Progress /\ Lives /\ Recorded /\ Reported /\ FilesFollow /\ Missed /\ Syncing

------------------------------------------------------------------------------
\* A full node starts oxend, storage, lokinet and the router, another one oxend alone.
LEMMA OrderFacts ==
    /\ full => /\ Len(Order) = 4 /\ Order[1] = "oxend" /\ Order[2] = "storage"
               /\ Order[3] = "lokinet" /\ Order[4] = "router"
    /\ ~ full => Len(Order) = 1 /\ Order[1] = "oxend"
    /\ "oxend" \in Required
    /\ \A j, k \in 1..Len(Order) : j # k => Order[j] # Order[k]
    /\ \A j \in 1..Len(Order) : Order[j] \in Services
  BY DEF Order, Required, ToSet, Services

\* The order of the services changes only with the kind of the node.
LEMMA OrderKept == UNCHANGED full => Order' = Order /\ Required' = Required
  BY DEF Order, Required, ToSet

\* What start() has run before it records the pid.
LEMMA NextService ==
    ASSUME Progress, pc = "start"
    PROVE  Order[n + 1] \in Services /\ n + 1 \in 1..Len(Order)
  BY OrderFacts DEF Progress, Services

\* What start() has run when it records the pid, and where the script goes from there.
LEMMA ThisService ==
    ASSUME Progress, pc = "track"
    PROVE  /\ Order[n] \in Services /\ n \in 1..Len(Order)
           /\ After(Order[n]) \in {"ready", "start", "tunnel", "publish"}
           /\ After(Order[n]) = "ready" => n = 1
           /\ After(Order[n]) = "start" => n = 2
  BY OrderFacts DEF Progress, Services, After

\* The container as docker creates it satisfies every part of the invariant.
LEMMA InitInv == Init => Inv
  <1> SUFFICES ASSUME Init PROVE Inv
    OBVIOUS
  <1>1. TypeOK
    <2>1. Numbers
      BY OrderFacts, SupervisorAssumption DEF Init, Numbers
    <2>2. /\ full \in BOOLEAN /\ term \in BOOLEAN /\ asked \in BOOLEAN
          /\ hsync \in BOOLEAN /\ hmiss \in BOOLEAN
      BY Zenon DEF Init
    <2>3. /\ proc \in [Services -> {"none", "up", "dead"}]
          /\ how \in [Services -> {"none", "own", "signal", "term", "kill", "lost"}]
          /\ forgotten \in SUBSET Services
          /\ tracked \in SUBSET Services /\ termed \in SUBSET tracked
      BY DEF Init
    <2> QED
      BY <2>1, <2>2, <2>3 DEF Init, TypeOK, Numbers
  <1>2. Progress /\ Reported /\ FilesFollow /\ Missed /\ Syncing
    BY DEF Init, Progress, Reported, FilesFollow, Missed, Syncing
  <1>3. Lives /\ Recorded
    BY OrderFacts DEF Init, Lives, Recorded
  <1> QED
    BY <1>1, <1>2, <1>3 DEF Inv

\* Every step keeps the counters in their ranges.
LEMMA NextNumbers == Numbers /\ Progress /\ [Next]_vars => Numbers'
  <1> SUFFICES ASSUME Numbers, Progress, [Next]_vars PROVE Numbers'
    OBVIOUS
  <1> USE SupervisorAssumption, OrderKept, OrderFacts DEF Numbers, Progress, Goes, script,
          files, docker, health, jobs
  <1>1. CASE \/ Boot \/ Clean \/ Track \/ Ready \/ Synced \/ TunnelUp \/ Truncate
             \/ Publish \/ Unsync \/ Terminate
    BY <1>1
       DEF Boot, Clean, Track, Ready, Synced, TunnelUp, Truncate, Publish, Unsync, Terminate
  <1>2. CASE BootFails
    BY <1>2 DEF BootFails, Exits
  <1>3. CASE Fork
    BY <1>3 DEF Fork
  <1>4. CASE StartFails
    BY <1>4 DEF StartFails, Stops
  <1>5. CASE WaitReturns
    BY <1>5 DEF WaitReturns, Stops, ExitStatus
  <1>6. CASE Trap
    BY <1>6 DEF Trap, Stops
  <1>7. CASE Wait
    BY <1>7 DEF Wait
  <1>8. CASE Stopped
    BY <1>8 DEF Stopped, Exits
  <1>9. CASE CheckBegins
    BY <1>9 DEF CheckBegins
  <1>10. CASE CheckPids
    BY <1>10 DEF CheckPids
  <1>11. CASE CheckRpc
    BY <1>11 DEF CheckRpc
  <1>12. CASE Restart
    BY <1>12 DEF Restart
  <1>13. ASSUME NEW s \in Services, ServiceEnds(s) \/ Forget(s) PROVE Numbers'
    BY <1>13 DEF ServiceEnds, Forget
  <1>14. CASE UNCHANGED vars
    BY <1>14 DEF vars
  <1> QED
    BY <1>1, <1>2, <1>3, <1>4, <1>5, <1>6, <1>7, <1>8, <1>9, <1>10, <1>11, <1>12, <1>13, <1>14
       DEF Next, Script, Check

\* Every step keeps the types.
LEMMA NextType == TypeOK /\ Progress /\ Numbers' /\ [Next]_vars => TypeOK'
  <1> SUFFICES ASSUME TypeOK, Progress, Numbers', [Next]_vars PROVE TypeOK'
    OBVIOUS
  <1> USE DEF TypeOK, Numbers, Goes, script, files, docker, health, jobs
  <1>1. CASE \/ Boot \/ Synced \/ TunnelUp \/ Truncate \/ Publish \/ Unsync
    BY <1>1 DEF Boot, Synced, TunnelUp, Truncate, Publish, Unsync
  <1>2. CASE BootFails
    BY <1>2 DEF BootFails, Exits
  <1>3. CASE Clean
    BY <1>3 DEF Clean, RemovesStale
  <1>4. CASE Fork
    BY NextService, <1>4 DEF Fork
  <1>5. CASE Track
    BY ThisService, <1>5 DEF Track
  <1>6. CASE Ready
    BY <1>6 DEF Ready
  <1>7. CASE StartFails
    BY <1>7 DEF StartFails, Stops
  <1>8. CASE WaitReturns
    BY <1>8 DEF WaitReturns, Stops
  <1>9. CASE Trap
    BY <1>9 DEF Trap, Stops
  <1>10. CASE Wait
    BY <1>10 DEF Wait
  <1>11. CASE Stopped
    BY <1>11 DEF Stopped, Exits
  <1>12. CASE CheckBegins
    BY <1>12 DEF CheckBegins
  <1>13. CASE CheckPids
    BY <1>13 DEF CheckPids
  <1>14. CASE CheckRpc
    BY <1>14 DEF CheckRpc
  <1>15. CASE Terminate
    BY <1>15 DEF Terminate
  <1>16. CASE Restart
    BY <1>16 DEF Restart
  <1>17. ASSUME NEW s \in Services, ServiceEnds(s) \/ Forget(s) PROVE TypeOK'
    BY <1>17 DEF ServiceEnds, Forget
  <1>18. CASE UNCHANGED vars
    BY <1>18 DEF vars
  <1> QED
    BY <1>1, <1>2, <1>3, <1>4, <1>5, <1>6, <1>7, <1>8, <1>9, <1>10, <1>11, <1>12, <1>13, <1>14,
       <1>15, <1>16, <1>17, <1>18 DEF Next, Script, Check

\* Every step keeps the progress of the start.
LEMMA NextProgress == TypeOK /\ Progress /\ [Next]_vars => Progress'
  <1> SUFFICES ASSUME TypeOK, Progress, [Next]_vars PROVE Progress'
    OBVIOUS
  <1> USE OrderFacts, OrderKept DEF TypeOK, Progress, Goes, script, files, docker, health, jobs
  <1>1. CASE Boot \/ Clean \/ Fork \/ Ready
    BY <1>1 DEF Boot, Clean, Fork, Ready
  <1>2. CASE Synced \/ TunnelUp \/ Truncate \/ Publish \/ Unsync
    BY <1>2 DEF Synced, TunnelUp, Truncate, Publish, Unsync
  <1>3. CASE Wait \/ CheckBegins \/ CheckPids \/ CheckRpc \/ Terminate
    BY <1>3 DEF Wait, CheckBegins, CheckPids, CheckRpc, Terminate
  <1>4. CASE BootFails
    BY <1>4 DEF BootFails, Exits
  <1>5. CASE Track
    BY <1>5 DEF Track, After
  <1>6. CASE StartFails
    BY <1>6 DEF StartFails, Stops
  <1>7. CASE WaitReturns
    BY <1>7 DEF WaitReturns, Stops
  <1>8. CASE Trap
    BY <1>8 DEF Trap, Stops
  <1>9. CASE Stopped
    BY <1>9 DEF Stopped, Exits
  <1>10. CASE Restart
    BY <1>10 DEF Restart
  <1>11. ASSUME NEW s \in Services, ServiceEnds(s) \/ Forget(s) PROVE Progress'
    BY <1>11 DEF ServiceEnds, Forget
  <1>12. CASE UNCHANGED vars
    BY <1>12 DEF vars
  <1> QED
    BY <1>1, <1>2, <1>3, <1>4, <1>5, <1>6, <1>7, <1>8, <1>9, <1>10, <1>11, <1>12
       DEF Next, Script, Check

\* Every step keeps what the services are.
LEMMA NextLives == TypeOK /\ Progress /\ Lives /\ Recorded /\ [Next]_vars => Lives'
  <1> SUFFICES ASSUME TypeOK, Progress, Lives, Recorded, [Next]_vars PROVE Lives'
    OBVIOUS
  <1> USE OrderKept DEF TypeOK, Lives, Goes, script, files, docker, health, jobs
  <1>1. CASE \/ Boot \/ Clean \/ Ready \/ Synced \/ TunnelUp \/ Truncate \/ Publish
             \/ Unsync \/ CheckBegins \/ CheckPids \/ CheckRpc \/ Terminate
    BY <1>1
       DEF Boot, Clean, Ready, Synced, TunnelUp, Truncate, Publish, Unsync, CheckBegins,
           CheckPids, CheckRpc, Terminate
  <1>2. CASE BootFails
    BY <1>2 DEF BootFails, Exits
  <1>3. CASE Fork
    BY NextService, OrderFacts, <1>3 DEF Fork
  <1>4. CASE Track
    BY ThisService, <1>4 DEF Track
  <1>5. CASE StartFails
    BY <1>5 DEF StartFails, Stops, Up, Dead, Watches
  <1>6. CASE WaitReturns
    BY <1>6 DEF WaitReturns, Stops, Up
  <1>7. CASE Trap
    BY <1>7 DEF Trap, Stops, Up, Trapped
  <1>8. CASE Wait
    BY <1>8 DEF Wait
  <1>9. CASE Stopped
    <2>1. /\ pc = "stop" /\ pc' = "exited" /\ UNCHANGED <<full, n, tracked, termed, attempt>>
          /\ \A s \in Services : proc'[s] = IF proc[s] = "up" THEN "dead" ELSE proc[s]
          /\ \A s \in Services : how'[s] = IF proc[s] # "up" THEN how[s]
                                         ELSE IF s \in tracked THEN "kill" ELSE "lost"
      BY <1>9 DEF Stopped, Exits
    <2>2. ASSUME NEW s \in tracked, proc[s] = "up" PROVE s \in termed /\ attempt = Attempts
      BY <1>9, <2>1, <2>2 DEF Stopped, AllEnded, Up
    <2>4. ASSUME NEW s \in Services, s \notin tracked, proc[s] = "up"
          PROVE  asked' /\ s = Order'[n']
      BY <1>9, <2>1, <2>4 DEF Stopped, Recorded
    <2>3. \A j \in 1..Len(Order) : proc'[Order[j]] = "none" <=> proc[Order[j]] = "none"
      BY <2>1, OrderFacts
    <2> QED
      BY <2>1, <2>2, <2>3, <2>4
  <1>10. CASE Restart
    BY OrderFacts, <1>10 DEF Restart
  <1>11. ASSUME NEW s \in Services, ServiceEnds(s) \/ Forget(s) PROVE Lives'
    BY OrderFacts, <1>11 DEF ServiceEnds, Forget
  <1>12. CASE UNCHANGED vars
    BY <1>12 DEF vars
  <1> QED
    BY <1>1, <1>2, <1>3, <1>4, <1>5, <1>6, <1>7, <1>8, <1>9, <1>10, <1>11, <1>12
       DEF Next, Script, Check

\* Every step keeps the record of what was started.
LEMMA NextRecorded ==
    TypeOK /\ Progress /\ Lives /\ Recorded /\ Reported /\ [Next]_vars => Recorded'
  <1> SUFFICES ASSUME TypeOK, Progress, Lives, Recorded, Reported, [Next]_vars PROVE Recorded'
    OBVIOUS
  <1> USE OrderKept DEF TypeOK, Recorded, Goes, script, files, docker, health, jobs
  <1>1. CASE \/ Boot \/ Clean \/ Ready \/ Synced \/ TunnelUp \/ Truncate \/ Publish
             \/ Unsync \/ CheckBegins \/ CheckPids \/ CheckRpc \/ Terminate \/ Wait
    BY <1>1
       DEF Boot, Clean, Ready, Synced, TunnelUp, Truncate, Publish, Unsync, CheckBegins,
           CheckPids, CheckRpc, Terminate, Wait
  <1>2. CASE BootFails
    BY <1>2 DEF BootFails, Exits, Lives
  <1>3. CASE Fork
    BY NextService, OrderFacts, <1>3 DEF Fork
  <1>4. CASE Track
    BY ThisService, <1>4 DEF Track
  <1>5. CASE StartFails
    BY <1>5 DEF StartFails, Stops, Watches
  <1>6. CASE WaitReturns
    BY <1>6 DEF WaitReturns, Stops
  <1>7. CASE Trap
    BY <1>7 DEF Trap, Stops, Trapped, Reported
  <1>8. CASE Stopped
    BY <1>8 DEF Stopped, Exits
  <1>9. CASE Restart
    BY <1>9 DEF Restart
  <1>10. ASSUME NEW s \in Services, ServiceEnds(s) \/ Forget(s) PROVE Recorded'
    BY <1>10 DEF ServiceEnds, Forget
  <1>11. CASE UNCHANGED vars
    BY <1>11 DEF vars
  <1> QED
    BY <1>1, <1>2, <1>3, <1>4, <1>5, <1>6, <1>7, <1>8, <1>9, <1>10, <1>11
       DEF Next, Script, Check

\* Every step keeps the report.
LEMMA NextReported == TypeOK /\ Progress /\ Reported /\ [Next]_vars => Reported'
  <1> SUFFICES ASSUME TypeOK, Progress, Reported, [Next]_vars PROVE Reported'
    OBVIOUS
  <1> USE DEF TypeOK, Reported, Goes, script, files, docker, health, jobs
  <1>1. CASE \/ Boot \/ Clean \/ Fork \/ Ready \/ Synced \/ TunnelUp \/ Truncate
             \/ Publish \/ Unsync \/ Wait \/ CheckBegins \/ CheckPids \/ CheckRpc
             \/ Terminate \/ Restart
    BY <1>1
       DEF Boot, Clean, Fork, Ready, Synced, TunnelUp, Truncate, Publish, Unsync, Wait,
           CheckBegins, CheckPids, CheckRpc, Terminate, Restart
  <1>2. CASE BootFails
    BY <1>2 DEF BootFails, Exits
  <1>3. CASE Track
    BY ThisService, <1>3 DEF Track
  <1>4. CASE StartFails
    BY <1>4 DEF StartFails, Stops
  <1>5. CASE WaitReturns
    BY <1>5 DEF WaitReturns, Stops, ExitStatus
  <1>6. CASE Trap
    BY <1>6 DEF Trap, Stops
  <1>7. CASE Stopped
    BY <1>7 DEF Stopped, Exits
  <1>8. ASSUME NEW s \in Services, ServiceEnds(s) \/ Forget(s) PROVE Reported'
    BY <1>8 DEF ServiceEnds, Forget
  <1>9. CASE UNCHANGED vars
    BY <1>9 DEF vars
  <1> QED
    BY <1>1, <1>2, <1>3, <1>4, <1>5, <1>6, <1>7, <1>8, <1>9 DEF Next, Script, Check

\* Every step keeps the files.
LEMMA NextFilesFollow == TypeOK /\ Progress /\ FilesFollow /\ [Next]_vars => FilesFollow'
  <1> SUFFICES ASSUME TypeOK, Progress, FilesFollow, [Next]_vars PROVE FilesFollow'
    OBVIOUS
  <1> USE DEF TypeOK, FilesFollow, Goes, script, files, docker, health, jobs
  <1>1. CASE \/ Boot \/ Fork \/ Ready \/ Synced \/ TunnelUp \/ Truncate \/ Publish
             \/ Unsync \/ Wait \/ CheckBegins \/ CheckPids \/ CheckRpc \/ Terminate
             \/ Restart
    BY <1>1
       DEF Boot, Fork, Ready, Synced, TunnelUp, Truncate, Publish, Unsync, Wait, CheckBegins,
           CheckPids, CheckRpc, Terminate, Restart
  <1>2. CASE BootFails
    BY <1>2 DEF BootFails, Exits
  <1>3. CASE Clean
    BY <1>3 DEF Clean, RemovesStale
  <1>4. CASE Track
    BY ThisService, <1>4 DEF Track
  <1>5. CASE StartFails
    BY <1>5 DEF StartFails, Stops
  <1>6. CASE WaitReturns
    BY <1>6 DEF WaitReturns, Stops
  <1>7. CASE Trap
    BY <1>7 DEF Trap, Stops, Trapped
  <1>8. CASE Stopped
    BY <1>8 DEF Stopped, Exits
  <1>9. ASSUME NEW s \in Services, ServiceEnds(s) \/ Forget(s) PROVE FilesFollow'
    BY <1>9 DEF ServiceEnds, Forget
  <1>10. CASE UNCHANGED vars
    BY <1>10 DEF vars
  <1> QED
    BY <1>1, <1>2, <1>3, <1>4, <1>5, <1>6, <1>7, <1>8, <1>9, <1>10 DEF Next, Script, Check

\* Every step keeps the judgement of a check.
LEMMA NextMissed == TypeOK /\ Progress /\ Lives /\ FilesFollow /\ Missed /\ [Next]_vars => Missed'
  <1> SUFFICES ASSUME TypeOK, Progress, Lives, FilesFollow, Missed, [Next]_vars PROVE Missed'
    OBVIOUS
  <1> USE OrderKept DEF TypeOK, Lives, FilesFollow, Missed, Dead, Goes, script, files, docker,
          health, jobs
  <1>1. CASE \/ Boot \/ Ready \/ Synced \/ TunnelUp \/ Truncate \/ Publish \/ Unsync
             \/ Wait \/ Terminate
    BY <1>1 DEF Boot, Ready, Synced, TunnelUp, Truncate, Publish, Unsync, Wait, Terminate
  <1>2. CASE BootFails
    BY <1>2 DEF BootFails, Exits
  <1>3. CASE Clean
    BY <1>3 DEF Clean, RemovesStale
  <1>4. CASE Fork
    BY NextService, <1>4 DEF Fork
  <1>5. CASE Track
    BY ThisService, <1>5 DEF Track
  <1>6. CASE StartFails
    BY <1>6 DEF StartFails, Stops
  <1>7. CASE WaitReturns
    BY <1>7 DEF WaitReturns, Stops
  <1>8. CASE Trap
    BY <1>8 DEF Trap, Stops
  <1>9. CASE Stopped
    BY <1>9 DEF Stopped, Exits
  <1>10. CASE CheckBegins
    BY <1>10 DEF CheckBegins, Empty
  <1>11. CASE CheckPids
    BY <1>11 DEF CheckPids, EachRuns, Up
  <1>12. CASE CheckRpc
    BY <1>12 DEF CheckRpc, Up
  <1>13. CASE Restart
    BY <1>13 DEF Restart
  <1>14. ASSUME NEW s \in Services, ServiceEnds(s) \/ Forget(s) PROVE Missed'
    <2>1. CASE ServiceEnds(s)
      BY <2>1 DEF ServiceEnds
    <2>2. CASE Forget(s)
      BY <2>2 DEF Forget
    <2> QED
      BY <1>14, <2>1, <2>2
  <1>15. CASE UNCHANGED vars
    BY <1>15 DEF vars
  <1> QED
    BY <1>1, <1>2, <1>3, <1>4, <1>5, <1>6, <1>7, <1>8, <1>9, <1>10, <1>11, <1>12, <1>13, <1>14,
       <1>15 DEF Next, Script, Check

\* Every step keeps the judgement of a check during the sync.
LEMMA NextSyncing ==
    TypeOK /\ Progress /\ Lives /\ FilesFollow /\ Syncing /\ [Next]_vars => Syncing'
  <1> SUFFICES ASSUME TypeOK, Progress, Lives, FilesFollow, Syncing, [Next]_vars PROVE Syncing'
    OBVIOUS
  <1> USE DEF TypeOK, Progress, FilesFollow, Syncing, BeforeSync, Goes, script, files, docker,
          health, jobs
  <1>1. CASE \/ Boot \/ Ready \/ Synced \/ TunnelUp \/ Truncate \/ Publish \/ Unsync
             \/ Wait \/ Terminate
    BY <1>1 DEF Boot, Ready, Synced, TunnelUp, Truncate, Publish, Unsync, Wait, Terminate
  <1>2. CASE BootFails
    BY <1>2 DEF BootFails, Exits
  <1>3. CASE Clean
    BY <1>3 DEF Clean, RemovesStale
  <1>4. CASE Fork
    BY NextService, <1>4 DEF Fork
  <1>5. CASE Track
    BY ThisService, <1>5 DEF Track
  <1>6. CASE StartFails
    BY <1>6 DEF StartFails, Stops
  <1>7. CASE WaitReturns
    BY <1>7 DEF WaitReturns, Stops
  <1>8. CASE Trap
    BY <1>8 DEF Trap, Stops
  <1>9. CASE Stopped
    BY <1>9 DEF Stopped, Exits
  <1>10. CASE CheckBegins
    BY <1>10 DEF CheckBegins, Empty
  <1>11. CASE CheckPids
    <2>1. pc' = pc /\ hsync' = hsync /\ hfile' = hfile /\ proc' = proc /\ n' = n
      BY <1>11 DEF CheckPids
    <2>2. ASSUME pc = "sync", hsync PROVE verdict' = "noProcess" => proc["oxend"] = "dead"
      <3>1. hfile = "syncing" /\ syncing = "new"
        BY <1>11, <2>2 DEF CheckPids
      <3>2. CASE "oxend" \in Up
        <4>1. EachRuns({"oxend"})
          BY <3>2 DEF EachRuns
        <4>2. verdict' = "none"
          BY <1>11, <3>1, <4>1 DEF CheckPids
        <4> QED
          BY <4>2
      <3>3. CASE "oxend" \notin Up
        <4>1. proc["oxend"] # "none"
          BY <2>2, OrderFacts DEF Lives
        <4> QED
          BY <3>3, <4>1 DEF Up, Services
      <3> QED
        BY <3>2, <3>3
    <2>3. BeforeSync => ~ hsync
      BY <1>11 DEF CheckPids
    <2>4. pc = "sync" /\ hsync => hpc' # "pids"
      BY <1>11 DEF CheckPids
    <2> QED
      BY <2>1, <2>2, <2>3, <2>4
  <1>12. CASE CheckRpc
    BY <1>12 DEF CheckRpc, Up
  <1>13. CASE Restart
    BY <1>13 DEF Restart
  <1>14. ASSUME NEW s \in Services, ServiceEnds(s) \/ Forget(s) PROVE Syncing'
    BY <1>14 DEF ServiceEnds, Forget, Services
  <1>15. CASE UNCHANGED vars
    BY <1>15 DEF vars
  <1> QED
    BY <1>1, <1>2, <1>3, <1>4, <1>5, <1>6, <1>7, <1>8, <1>9, <1>10, <1>11, <1>12, <1>13, <1>14,
       <1>15 DEF Next, Script, Check

\* The invariant is inductive.
LEMMA NextInv == Inv /\ [Next]_vars => Inv'
  <1> SUFFICES ASSUME Inv, [Next]_vars PROVE Inv'
    OBVIOUS
  <1>1. Numbers'
    BY NextNumbers DEF Inv, TypeOK, Numbers
  <1> QED
    BY <1>1, NextType, NextProgress, NextLives, NextRecorded, NextReported, NextFilesFollow, NextMissed,
       NextSyncing DEF Inv

\* The invariant holds in every reachable state.
LEMMA Invariance == Spec => []Inv
  <1>1. Init => Inv
    BY InitInv
  <1>2. Inv /\ [Next]_vars => Inv'
    BY NextInv
  <1> QED
    BY <1>1, <1>2, PTL DEF Spec

------------------------------------------------------------------------------
(* The properties *)

\* Every variable of the supervisor and of the health check keeps its type.
THEOREM TypeTheorem == Spec => []TypeOK
  <1>1. Inv => TypeOK
    BY DEF Inv
  <1> QED
    BY <1>1, Invariance, PTL

\* Whenever the script ends, every service it has recorded has ended after a TERM of its
\* own, and was killed only when the shutdown period had passed (entrypoint.sh:115-128);
\* only the last one started can be missed, and only by a stop that was asked for.
THEOREM GracefulTheorem == Spec => []TrackedStopGracefully
  <1>1. Inv => TrackedStopGracefully
    BY DEF Inv, TypeOK, Lives, TrackedStopGracefully
  <1> QED
    BY <1>1, Invariance, PTL

\* A container that has ended has no service up, and its status is 0 only if it was asked
\* to stop: the restart policy learns of every failure (entrypoint.sh:129-130, 246-249).
THEOREM ReportTheorem == Spec => []FailureIsReported
  <1>1. Inv => FailureIsReported
    BY DEF Inv, Lives, Reported, FailureIsReported, Up
  <1> QED
    BY <1>1, Invariance, PTL

\* A service that was dead when a health check began is not missed by it
\* (healthcheck.sh:6-10), with the files of any earlier run.
THEOREM HealthyTheorem == Spec => []HealthyIsTrue
  <1>1. Inv => HealthyIsTrue
    BY DEF Inv, Missed, HealthyIsTrue
  <1> QED
    BY <1>1, Invariance, PTL

\* A health check during the initial sync does not fail while oxend runs
\* (entrypoint.sh:199-200, healthcheck.sh:6-7).
THEOREM SyncTheorem == Spec => []SyncIsHealthy
  <1>1. Inv => SyncIsHealthy
    BY DEF Inv, Syncing, SyncIsHealthy
  <1> QED
    BY <1>1, Invariance, PTL

==============================================================================
