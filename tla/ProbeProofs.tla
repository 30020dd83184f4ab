----------------------------- MODULE ProbeProofs -----------------------------
(***************************************************************************)
(* What a sample says of a sync, proved of Probe for every number of       *)
(* containers, freshness of the log and length of the memory.              *)
(***************************************************************************)
EXTENDS Probe, TLAPS

States  == {"pending", "stopped", "syncing", "degraded", "healthy"}
Finds   == {"stopped", "rpc", "behind"} \cup Troubles
Record  == [held : BOOLEAN, age : 0..Memory, registered : BOOLEAN]
View    == [container : Containers \cup {None}, state : States, attention : BOOLEAN,
            recalled : BOOLEAN, silent : BOOLEAN]
Rows    == [container : Containers \cup {None}, state : States]

Types ==
    /\ container \in Containers \cup {None} /\ up \in BOOLEAN /\ (up => container # None)
    /\ created \in 0..MaxContainers /\ container <= created
    /\ gap \in Gaps /\ farAge \in 0..FarLimit
    /\ log \in [age : 0..LogFresh, far : BOOLEAN] /\ registered \in BOOLEAN
    /\ memory \in [Containers -> Record]
    /\ target \in Containers \cup {None} /\ runs \in BOOLEAN
    /\ last \in View /\ last.container <= created /\ lastAge \in 0..Memory
    /\ landing \in BOOLEAN /\ (landing => target # None) /\ shown \in Rows
    /\ listing \in Containers \cup {None, Nothing} /\ raced \in BOOLEAN

\* Whoever says that the node is in its sync, says it of a time it was: the chain now,
\* the log line while it is fresh, and a memory no longer than a fresh line before it.
Recent ==
    /\ gap = "far" => farAge = 0
    /\ log.far => farAge <= log.age \/ log.age = LogFresh
    /\ \A c \in Containers : memory[c].held => farAge <= LogFresh + memory[c].age
    /\ landing /\ last.state = "syncing" => farAge < LogFresh + Memory

\* What was last seen of a node's sync is still remembered: that it syncs, that it is
\* registered, and when its RPC said so.
Remembered ==
    last.container = container /\ container # None /\ last.state = "syncing" /\ ~ raced =>
        /\ memory[container].held
        /\ last.attention => memory[container].registered
        /\ ~ last.recalled => memory[container].age <= lastAge

Inv == Types /\ Recent /\ Remembered

\* Nothing shown, and nothing remembered.
LEMMA NoneType ==
  /\ NoView \in View /\ NoView.container = None /\ NoView.state = "pending"
  /\ NoView.attention = FALSE /\ NoView.recalled = FALSE
  /\ Row(NoView) \in Rows /\ \A v \in View : Row(v) \in Rows /\ Row(v).state = v.state
  /\ Unknown \in Record /\ ~ Unknown.held
  BY AgesAssumption DEF NoView, Unknown, View, Record, States, Row, Rows

LEMMA InitInv == Init => Inv
  <1> SUFFICES ASSUME Init PROVE Inv
    OBVIOUS
  <1>1. Types
    <2>1. farAge \in 0..FarLimit
      BY AgesAssumption DEF Init, FarLimit
    <2>2. memory \in [Containers -> Record]
      BY NoneType DEF Init
    <2>3. log \in [age : 0..LogFresh, far : BOOLEAN]
      BY AgesAssumption DEF Init
    <2>4. created \in 0..MaxContainers /\ container <= created /\ last.container <= created
          /\ lastAge \in 0..Memory
      BY AgesAssumption, NoneType, BoundAssumption DEF Init, None
    <2>5. gap \in Gaps /\ registered \in BOOLEAN /\ last \in View /\ shown \in Rows
      BY NoneType DEF Init, Gaps
    <2> QED
      BY <2>1, <2>2, <2>3, <2>4, <2>5 DEF Init, Types
  <1>2. Recent
    BY NoneType DEF Init, Recent
  <1>3. Remembered
    BY NoneType DEF Init, Remembered
  <1> QED
    BY <1>1, <1>2, <1>3 DEF Inv

------------------------------------------------------------------------------
(* A sample, field by field. *)

\* What a probe may see, or is said to have seen of a container that does not run.
AnySee == [up : BOOLEAN, rpc : BOOLEAN, target : BOOLEAN, status : BOOLEAN, log : BOOLEAN,
           troubles : SUBSET Troubles]

SyncType == [on : BOOLEAN, recalled : BOOLEAN, registered : BOOLEAN]

\* A missing answer is found exactly when RPC was asked and gave none.
LEMMA ProblemsFound ==
  ASSUME NEW see \in AnySee
  PROVE  /\ Problems(see) \subseteq Finds
         /\ "rpc" \in Problems(see) <=> see.up /\ ~ see.rpc
  BY DEF Problems, AnySee, Finds, Troubles

\* The view a sample leaves: a sync that goes on comes before what was found.
LEMMA AssessFields ==
  ASSUME NEW c \in Containers, NEW see \in AnySee, NEW sync \in SyncType
  PROVE  /\ Assess(c, see, sync) \in View
         /\ Assess(c, see, sync).container = c
         /\ Assess(c, see, sync).silent <=> see.up /\ ~ see.rpc
         /\ Assess(c, see, sync).state = "syncing" <=> see.up /\ sync.on
         /\ see.up /\ sync.on => /\ Assess(c, see, sync).attention = sync.registered
                                 /\ Assess(c, see, sync).recalled = sync.recalled
  <1> DEFINE found == Problems(see)
             view  == [NoView EXCEPT !.container = c, !.silent = "rpc" \in found]
  <1>1. /\ view \in View /\ view.container = c /\ (view.silent <=> see.up /\ ~ see.rpc)
        /\ view.attention = FALSE /\ view.recalled = FALSE
    <2> DEFINE none == "rpc" \in found
    <2>1. none \in BOOLEAN /\ (none <=> see.up /\ ~ see.rpc)
      BY ProblemsFound
    <2>2. view = [NoView EXCEPT !.container = c, !.silent = none]
      OBVIOUS
    <2> HIDE DEF none, found, view
    <2>3. /\ view \in View /\ view.container = c /\ view.silent = none
          /\ view.attention = FALSE /\ view.recalled = FALSE
      BY <2>1, <2>2, NoneType DEF View
    <2> QED
      BY <2>1, <2>3
  <1> HIDE DEF view, found
  <1>2. Assess(c, see, sync) =
          CASE ~ see.up -> [view EXCEPT !.state = "stopped", !.attention = TRUE]
            [] see.up /\ sync.on ->
                  [view EXCEPT !.state = "syncing", !.attention = sync.registered,
                               !.recalled = sync.recalled]
            [] see.up /\ ~ sync.on /\ found # {} ->
                  [view EXCEPT !.state = "degraded", !.attention = TRUE]
            [] OTHER -> [view EXCEPT !.state = "healthy"]
    BY DEF Assess, view, found
  <1>3. see.up \in BOOLEAN /\ sync.on \in BOOLEAN /\ sync.registered \in BOOLEAN
        /\ sync.recalled \in BOOLEAN
    BY DEF AnySee, SyncType
  <1>4. CASE ~ see.up
    BY <1>1, <1>2, <1>4 DEF View, States, found
  <1>5. CASE see.up /\ sync.on
    BY <1>1, <1>2, <1>3, <1>5 DEF View, States, found
  <1>6. CASE see.up /\ ~ sync.on /\ found # {}
    BY <1>1, <1>2, <1>6 DEF View, States, found
  <1>7. CASE see.up /\ ~ sync.on /\ found = {}
    BY <1>1, <1>2, <1>7 DEF View, States, found
  <1> QED
    BY <1>3, <1>4, <1>5, <1>6, <1>7

\* The memory of one container changes, to a record or to nothing.
LEMMA MemoryUpdates ==
  ASSUME memory \in [Containers -> Record], NEW c \in Containers, NEW reg \in BOOLEAN
  PROVE  /\ Remember(c, reg) \in [Containers -> Record] /\ Forget(c) \in [Containers -> Record]
         /\ Remember(c, reg)[c].held /\ Remember(c, reg)[c].age = 0
         /\ Remember(c, reg)[c].registered = reg
         /\ ~ Forget(c)[c].held
         /\ \A d \in Containers \ {c} : Remember(c, reg)[d] = memory[d] /\ Forget(c)[d] = memory[d]
  <1>1. [held |-> TRUE, age |-> 0, registered |-> reg] \in Record
    BY AgesAssumption DEF Record
  <1> QED
    BY <1>1, NoneType DEF Remember, Forget, Record

\* What sync_state() makes of a sample: a sync is shown exactly when it is remembered, and
\* with what is remembered; it is seen now, or recalled from no longer ago than allowed.
LEMMA SyncFacts ==
  ASSUME Types, NEW c \in Containers, NEW see \in AnySee,
         NEW m, NEW sync, SyncState(c, see) = <<m, sync>>
  PROVE  /\ m \in [Containers -> Record] /\ sync \in SyncType
         /\ \A d \in Containers \ {c} : m[d] = memory[d]
         /\ m[c].held <=> see.up /\ sync.on
         /\ sync.on => m[c].registered = sync.registered
         /\ sync.on /\ ~ sync.recalled => m[c].age = 0
         /\ m[c].held => \/ m[c].age = 0 /\ (gap = "far" \/ (log.far /\ log.age < LogFresh))
                         \/ memory[c].held /\ memory[c].age < Memory /\ m[c] = memory[c]
         /\ see.up /\ ~ see.rpc /\ memory[c].held /\ memory[c].age < Memory => sync.on
         /\ sync.on /\ sync.recalled /\ memory[c].held /\ memory[c].registered => sync.registered
  <1>0. /\ memory \in [Containers -> Record] /\ memory[c] \in Record /\ registered \in BOOLEAN
        /\ see.status \in BOOLEAN /\ see.up \in BOOLEAN /\ see.rpc \in BOOLEAN
        /\ NoSync \in SyncType /\ ~ NoSync.on
    BY DEF Types, AnySee, NoSync, SyncType
  <1>1. ASSUME NEW r \in BOOLEAN, NEW g \in BOOLEAN
        PROVE  /\ Sync(r, g) \in SyncType /\ Sync(r, g).on
               /\ Sync(r, g).recalled = r /\ Sync(r, g).registered = g
    BY DEF Sync, SyncType
  <1>2. CASE ~ see.up \/ (see.rpc /\ ~ InSync(see.target, gap = "far"))
    <2>1. m = Forget(c) /\ sync = NoSync
      BY <1>2 DEF SyncState
    <2> QED
      BY <1>0, <1>2, <2>1, MemoryUpdates
  <1>3. CASE see.up /\ see.rpc /\ InSync(see.target, gap = "far")
    <2> DEFINE reg == registered /\ see.status
    <2>1. reg \in BOOLEAN /\ m = Remember(c, reg) /\ sync = Sync(FALSE, reg) /\ gap = "far"
      BY <1>0, <1>3 DEF SyncState, InSync
    <2> HIDE DEF reg
    <2>2. /\ sync \in SyncType /\ sync.on /\ ~ sync.recalled /\ sync.registered = reg
      BY <1>1, <2>1
    <2>3. /\ m \in [Containers -> Record] /\ \A d \in Containers \ {c} : m[d] = memory[d]
          /\ m[c].held /\ m[c].age = 0 /\ m[c].registered = reg
      BY <1>0, <2>1, MemoryUpdates
    <2> QED
      BY <1>3, <2>1, <2>2, <2>3
  <1>4. CASE see.up /\ ~ see.rpc /\ see.log /\ log.age < LogFresh /\ InSync(TRUE, log.far)
    <2> DEFINE reg == StillRegistered(c)
    <2>1. /\ reg \in BOOLEAN /\ m = Remember(c, reg) /\ sync = Sync(TRUE, reg) /\ log.far
          /\ reg <=> memory[c].held /\ memory[c].registered
      BY <1>0, <1>4 DEF SyncState, InSync, StillRegistered, Record
    <2> HIDE DEF reg
    <2>2. /\ sync \in SyncType /\ sync.on /\ sync.recalled /\ sync.registered = reg
      BY <1>1, <2>1
    <2>3. /\ m \in [Containers -> Record] /\ \A d \in Containers \ {c} : m[d] = memory[d]
          /\ m[c].held /\ m[c].age = 0 /\ m[c].registered = reg
      BY <1>0, <2>1, MemoryUpdates
    <2> QED
      BY <1>4, <2>1, <2>2, <2>3
  <1>5. CASE /\ see.up /\ ~ see.rpc
             /\ ~ (see.log /\ log.age < LogFresh /\ InSync(TRUE, log.far))
    <2>1. m = Recalled(c) /\ sync = IF Recalled(c)[c].held THEN Sync(TRUE, memory[c].registered)
                                                         ELSE NoSync
      BY <1>5 DEF SyncState
    <2>2. CASE memory[c].held /\ memory[c].age < Memory
      <3>1. m = memory /\ sync = Sync(TRUE, memory[c].registered)
            /\ memory[c].registered \in BOOLEAN
        BY <1>0, <2>1, <2>2 DEF Recalled, Record
      <3>2. /\ sync \in SyncType /\ sync.on /\ sync.recalled = TRUE
            /\ sync.registered = memory[c].registered
        BY <1>1, <3>1
      <3> QED
        BY <1>0, <1>5, <2>2, <3>1, <3>2
    <2>3. CASE ~ (memory[c].held /\ memory[c].age < Memory)
      <3>1. m \in {memory, Forget(c)} /\ ~ m[c].held /\ sync = NoSync
        BY <1>0, <2>1, <2>3, MemoryUpdates DEF Recalled
      <3>2. m \in [Containers -> Record] /\ \A d \in Containers \ {c} : m[d] = memory[d]
        BY <1>0, <3>1, MemoryUpdates
      <3> QED
        BY <1>0, <1>5, <2>3, <3>1, <3>2
    <2> QED
      BY <2>2, <2>3
  <1> QED
    BY <1>0, <1>2, <1>3, <1>4, <1>5

\* An inspection, as the three properties see it.
LEMMA InspectFacts ==
  ASSUME Types, NEW see \in AnySee, target \in Containers, Inspect(see)
  PROVE  /\ memory' \in [Containers -> Record]
         /\ \A d \in Containers \ {target} : memory'[d] = memory[d]
         /\ last' \in View /\ last'.container = target /\ lastAge' = 0
         /\ last'.silent <=> see.up /\ ~ see.rpc
         /\ last'.state = "syncing" <=> memory'[target].held
         /\ last'.state = "syncing" =>
               /\ see.up /\ memory'[target].registered = last'.attention
               /\ ~ last'.recalled => memory'[target].age = 0
         /\ memory'[target].held =>
               \/ memory'[target].age = 0 /\ (gap = "far" \/ (log.far /\ log.age < LogFresh))
               \/ /\ memory[target].held /\ memory[target].age < Memory
                  /\ memory'[target] = memory[target]
         /\ see.up /\ ~ see.rpc /\ memory[target].held /\ memory[target].age < Memory
               => last'.state = "syncing"
         /\ last'.state = "syncing" =>
               (last'.recalled /\ memory[target].held /\ memory[target].registered
                     => last'.attention)
         /\ raced' = (raced /\ ~ memory'[target].held)
         /\ landing' = TRUE /\ runs' = FALSE
         /\ UNCHANGED <<node, target, shown, listing>>
  <1> DEFINE s == SyncState(target, see)
             m == s[1]
             y == s[2]
  <1>1. SyncState(target, see) = <<m, y>>
    BY DEF SyncState
  <1>2. /\ memory' = m /\ last' = Assess(target, see, y)
        /\ raced' = (raced /\ ~ m[target].held) /\ lastAge' = 0
        /\ landing' = TRUE /\ runs' = FALSE /\ UNCHANGED <<node, target, shown, listing>>
    BY DEF Inspect
  <1> HIDE DEF m, y, s
  <1>3. /\ m \in [Containers -> Record] /\ y \in SyncType
        /\ \A d \in Containers \ {target} : m[d] = memory[d]
        /\ m[target].held <=> see.up /\ y.on
        /\ y.on => m[target].registered = y.registered
        /\ y.on /\ ~ y.recalled => m[target].age = 0
        /\ m[target].held =>
              \/ m[target].age = 0 /\ (gap = "far" \/ (log.far /\ log.age < LogFresh))
              \/ /\ memory[target].held /\ memory[target].age < Memory
                 /\ m[target] = memory[target]
        /\ see.up /\ ~ see.rpc /\ memory[target].held /\ memory[target].age < Memory => y.on
        /\ y.on /\ y.recalled /\ memory[target].held /\ memory[target].registered => y.registered
    BY <1>1, SyncFacts
  <1>4. /\ last' \in View /\ last'.container = target /\ lastAge' = 0
        /\ last'.silent <=> see.up /\ ~ see.rpc
        /\ last'.state = "syncing" <=> see.up /\ y.on
        /\ see.up /\ y.on => last'.attention = y.registered /\ last'.recalled = y.recalled
    BY <1>2, <1>3, AssessFields
  <1>5. /\ last'.state = "syncing" <=> memory'[target].held
        /\ last'.state = "syncing" => see.up /\ y.on
    BY <1>2, <1>3, <1>4
  <1>6. ASSUME last'.state = "syncing"
        PROVE  /\ see.up /\ memory'[target].registered = last'.attention
               /\ ~ last'.recalled => memory'[target].age = 0
               /\ (last'.recalled /\ memory[target].held /\ memory[target].registered
                     => last'.attention)
    BY <1>2, <1>3, <1>4, <1>5, <1>6
  <1>7. see.up /\ ~ see.rpc /\ memory[target].held /\ memory[target].age < Memory
               => last'.state = "syncing"
    BY <1>3, <1>4
  <1> QED
    BY <1>2, <1>3, <1>4, <1>5, <1>6, <1>7

\* The two ways in which a sample is taken, both of the container that exists.
LEMMA SampleSees ==
  ASSUME Types, SampleStopped \/ \E see \in Sees : SampleRunning(see)
  PROVE  target = container /\ target \in Containers /\ \E see \in AnySee : Inspect(see)
  <1>1. CASE SampleStopped
    <2> DEFINE see == [up |-> FALSE, rpc |-> FALSE, target |-> FALSE, status |-> FALSE,
                       log |-> FALSE, troubles |-> {}]
    <2>1. see \in AnySee /\ Inspect(see)
      BY <1>1 DEF SampleStopped, AnySee
    <2> HIDE DEF see
    <2> QED
      BY <1>1, <2>1 DEF SampleStopped, Types
  <1>2. ASSUME NEW see \in Sees, SampleRunning(see)
        PROVE  target = container /\ target \in Containers /\ \E e \in AnySee : Inspect(e)
    <2>1. see \in AnySee
      BY DEF Sees, AnySee
    <2>2. target \in Containers
      BY <1>2 DEF SampleRunning, Types
    <2> QED
      BY <1>2, <2>1, <2>2 DEF SampleRunning
  <1> QED
    BY <1>1, <1>2

------------------------------------------------------------------------------
(* Every step keeps the invariant. *)

\* The clock: an age grows by a tick, or is that old or older already.
LEMMA OlderAge ==
  ASSUME NEW limit \in Nat, NEW age \in 0..limit
  PROVE  /\ Older(age, limit) \in 0..limit /\ age <= Older(age, limit)
         /\ age < limit => Older(age, limit) = age + 1
         /\ age >= limit => Older(age, limit) = limit
  BY DEF Older

\* What is forgotten is forgotten; the rest is as it was.
LEMMA ForgetFacts ==
  ASSUME memory \in [Containers -> Record], NEW c, ForgetStale(c)
  PROVE  /\ memory' \in [Containers -> Record]
         /\ \A d \in Containers : memory'[d].held => memory'[d] = memory[d]
         /\ c \in Containers => memory'[c] = memory[c]
  BY NoneType DEF ForgetStale

LEMMA TickInv == Inv /\ Tick => Inv'
  <1> SUFFICES ASSUME Inv, Tick PROVE Inv'
    OBVIOUS
  <1>0. /\ farAge \in 0..FarLimit /\ FarLimit = LogFresh + Memory /\ LogFresh \in Nat /\ Memory \in Nat
        /\ log \in [age : 0..LogFresh, far : BOOLEAN] /\ log.age \in 0..LogFresh
        /\ memory \in [Containers -> Record] /\ last \in View /\ lastAge \in 0..Memory
        /\ \A c \in Containers : memory[c] \in Record /\ memory[c].age \in 0..Memory
    BY AgesAssumption DEF Inv, Types, FarLimit, Record, View
  <1>1. /\ farAge' \in 0..FarLimit /\ (gap = "far" => farAge' = 0)
        /\ farAge' <= farAge + 1
    BY <1>0, OlderAge DEF Tick
  <1>2. /\ log' \in [age : 0..LogFresh, far : BOOLEAN] /\ log'.far = log.far
        /\ log'.age = Older(log.age, LogFresh)
    BY <1>0, OlderAge DEF Tick
  <1>3. ASSUME NEW c \in Containers
        PROVE  /\ memory'[c] \in Record /\ (memory'[c].held <=> memory[c].held)
               /\ memory[c].held => /\ memory'[c].age = Older(memory[c].age, Memory)
                                    /\ memory'[c].registered = memory[c].registered
    <2>1. memory'[c] = IF memory[c].held THEN [memory[c] EXCEPT !.age = Older(@, Memory)]
                                         ELSE Unknown
      BY DEF Tick
    <2>2. Older(memory[c].age, Memory) \in 0..Memory
      BY <1>0, OlderAge
    <2> QED
      BY <1>0, <2>1, <2>2, NoneType DEF Record
  <1>4. memory' \in [Containers -> Record]
    <2>1. memory' = [c \in Containers |-> memory'[c]]
      BY DEF Tick
    <2> QED
      BY <1>3, <2>1
  <1>5. lastAge' \in 0..Memory /\ (last.container # None => lastAge' = Older(lastAge, Memory))
    <2>1. Older(lastAge, Memory) \in 0..Memory /\ 0 \in 0..Memory
      BY <1>0, OlderAge
    <2> QED
      BY <2>1, NoneType DEF Tick
  <1>6. /\ UNCHANGED <<container, up, created, gap, registered, target, runs, last, landing, shown,
                       listing, raced>>
        /\ ~ landing
    BY DEF Tick, Inv, Types
  <1>7. Types'
    BY <1>1, <1>2, <1>4, <1>5, <1>6 DEF Inv, Types
  <1>8. Recent'
    <2>1. gap' = "far" => farAge' = 0
      BY <1>1, <1>6
    <2>2. log'.far => farAge' <= log'.age \/ log'.age = LogFresh
      BY <1>0, <1>1, <1>2, OlderAge DEF Inv, Recent
    <2>3. ASSUME NEW c \in Containers, memory'[c].held PROVE farAge' <= LogFresh + memory'[c].age
      <3>1. memory[c].held /\ memory'[c].age = Older(memory[c].age, Memory)
            /\ farAge <= LogFresh + memory[c].age
        BY <1>3, <2>3 DEF Inv, Recent
      <3>2. CASE memory[c].age < Memory
        BY <1>0, <1>1, <3>1, <3>2, OlderAge
      <3>3. CASE memory[c].age >= Memory
        BY <1>0, <1>1, <3>1, <3>3, OlderAge
      <3> QED
        BY <1>0, <3>2, <3>3
    <2> QED
      BY <1>6, <2>1, <2>2, <2>3 DEF Recent
  <1>9. Remembered'
    <2> SUFFICES ASSUME last.container = container, container # None, last.state = "syncing",
                        ~ raced
                 PROVE  /\ memory'[container].held
                        /\ last.attention => memory'[container].registered
                        /\ ~ last.recalled => memory'[container].age <= lastAge'
      BY <1>5, <1>6 DEF Remembered
    <2>1. container \in Containers
      BY DEF Inv, Types
    <2>2. /\ memory[container].held /\ (last.attention => memory[container].registered)
          /\ ~ last.recalled => memory[container].age <= lastAge
      BY DEF Inv, Remembered
    <2>3. ASSUME memory[container].age <= lastAge
          PROVE  Older(memory[container].age, Memory) <= Older(lastAge, Memory)
      BY <1>0, <2>1, <2>3 DEF Older
    <2> QED
      BY <1>3, <1>5, <2>1, <2>2, <2>3
  <1> QED
    BY <1>7, <1>8, <1>9 DEF Inv

LEMMA SampleInv ==
  ASSUME Inv, SampleStopped \/ \E see \in Sees : SampleRunning(see)
  PROVE  Inv'
  <1>1. PICK see \in AnySee : Inspect(see)
    BY SampleSees DEF Inv
  <1>2. target = container /\ target \in Containers /\ Types
    BY SampleSees DEF Inv
  <1>3. UNCHANGED <<node, target, shown, listing>> /\ landing' = TRUE /\ runs' = FALSE
        /\ raced' = (raced /\ ~ memory'[target].held)
    BY <1>1, <1>2, InspectFacts
  <1>4. Types'
    <2>1. /\ memory' \in [Containers -> Record] /\ last' \in View /\ last'.container = target
          /\ lastAge' = 0
      BY <1>1, <1>2, InspectFacts
    <2>3. 0 \in 0..Memory /\ None \notin Containers
      BY AgesAssumption, BoundAssumption DEF Containers, None
    <2>2. raced' \in BOOLEAN
      BY <1>3
    <2> QED
      BY <1>2, <1>3, <2>1, <2>2, <2>3 DEF Types, node
  <1>5. Recent'
    <2>1. ASSUME NEW c \in Containers, memory'[c].held PROVE farAge <= LogFresh + memory'[c].age
      <3>1. CASE memory'[c] = memory[c]
        BY <2>1, <3>1 DEF Inv, Recent
      <3>2. CASE c = target /\ memory'[c].age = 0 /\ (gap = "far" \/ (log.far /\ log.age < LogFresh))
        BY <3>2, AgesAssumption DEF Inv, Types, Recent
      <3> QED
        BY <1>1, <1>2, <2>1, <3>1, <3>2, InspectFacts
    <2>2. last'.state = "syncing" => farAge < LogFresh + Memory
      <3>1. last'.state = "syncing" => memory'[target].held
        BY <1>1, <1>2, InspectFacts
      <3>2. \/ gap = "far" \/ (log.far /\ log.age < LogFresh) \/ ~ memory'[target].held
            \/ memory[target].held /\ memory[target].age < Memory
        BY <1>1, <1>2, InspectFacts
      <3> QED
        BY <1>2, <3>1, <3>2, AgesAssumption DEF Inv, Types, Recent, Record, FarLimit
    <2> QED
      BY <1>3, <2>1, <2>2 DEF Inv, Recent, node
  <1>6. Remembered'
    <2>1. last'.container = target /\ lastAge' = 0
      BY <1>1, <1>2, InspectFacts
    <2>2. last'.state = "syncing" =>
             /\ memory'[target].held /\ memory'[target].registered = last'.attention
             /\ ~ last'.recalled => memory'[target].age = 0
      BY <1>1, <1>2, InspectFacts
    <2> QED
      BY <1>2, <1>3, <2>1, <2>2 DEF Remembered, node
  <1> QED
    BY <1>4, <1>5, <1>6 DEF Inv

LEMMA NextInv == Inv /\ [Next]_vars => Inv'
  <1> SUFFICES ASSUME Inv, [Next]_vars PROVE Inv'
    OBVIOUS
  <1> USE DEF Inv
  <1>0. /\ memory \in [Containers -> Record] /\ None \notin Containers /\ container <= created
        /\ container \in Containers \cup {None} /\ created \in 0..MaxContainers
        /\ MaxContainers \in Nat
    BY BoundAssumption DEF Types, Containers, None
  <1>1. CASE UNCHANGED vars
    BY <1>1 DEF Types, Recent, Remembered, vars, node, cache
  <1>2. CASE Create
    <2>1. container' \in Containers /\ created' \in 0..MaxContainers /\ container' = created'
          /\ last.container < container'
      BY <1>0, <1>2 DEF Create, Types, Containers, View, None
    <2> QED
      BY <1>0, <1>2, <2>1 DEF Create, Types, Recent, Remembered, cache, Containers, View, None
  <1>3. CASE Remove \/ StartOrStop
    <2>1. Types'
      <3>1. /\ container' \in {container, None} /\ up' \in BOOLEAN /\ (up' => container' # None)
            /\ UNCHANGED <<created, gap, farAge, log, registered, cache>>
        BY <1>3 DEF Remove, StartOrStop, Types
      <3>2. container' \in Containers \cup {None} /\ container' <= created
        BY <1>0, <3>1 DEF None
      <3> QED
        BY <3>1, <3>2 DEF Types, cache
    <2>2. Recent' /\ Remembered'
      BY <1>3 DEF Remove, StartOrStop, Recent, Remembered, cache
    <2> QED
      BY <2>1, <2>2
  <1>4. ASSUME NEW g \in Gaps, Moves(g) PROVE Inv'
    <2>1. farAge' \in 0..FarLimit /\ farAge' <= farAge /\ (g = "far" => farAge' = 0)
      BY <1>4, AgesAssumption DEF Moves, Types, FarLimit
    <2> QED
      BY <1>4, <2>1, AgesAssumption DEF Moves, Types, Recent, Remembered, cache, FarLimit, Record
  <1>5. CASE Logs
    <2>1. log' \in [age : 0..LogFresh, far : BOOLEAN] /\ log'.age = 0 /\ (log'.far <=> gap = "far")
      <3>1. (gap = "far") \in BOOLEAN /\ 0 \in 0..LogFresh
        BY AgesAssumption
      <3> QED
        BY <1>5, <3>1 DEF Logs
    <2>2. Types' /\ Remembered'
      BY <1>5, <2>1 DEF Logs, Types, Remembered, cache
    <2>3. Recent'
      BY <1>5, <2>1 DEF Logs, Recent, cache
    <2> QED
      BY <2>2, <2>3
  <1>6. CASE Tick
    BY <1>6, TickInv
  <1>7. CASE Pick
    <2>1. /\ memory' \in [Containers -> Record]
          /\ \A d \in Containers : memory'[d].held => memory'[d] = memory[d]
          /\ container \in Containers => memory'[container] = memory[container]
      BY <1>0, <1>7, ForgetFacts DEF Pick
    <2>2. shown' \in Rows /\ ~ landing
      BY <1>7, NoneType DEF Pick, Types
    <2> QED
      BY <1>0, <1>7, <2>1, <2>2, NoneType DEF Pick, Types, Recent, Remembered, node
  <1>8. CASE Details \/ SampleFails \/ HandlerLists \/ Land \/ Discard
    <2>1. Types'
      <3>1. /\ target' \in {target, None} /\ runs' \in BOOLEAN
            /\ listing' \in {listing, container} /\ shown' \in Rows /\ landing' \in BOOLEAN
            /\ landing' => target' # None
            /\ UNCHANGED <<node, memory, last, lastAge, raced>>
        <4>1. Row(last) \in Rows
          BY NoneType DEF Types
        <4>2. CASE Details
          BY <4>2 DEF Details, Types
        <4>5. CASE SampleFails
          BY <4>5 DEF SampleFails, Types
        <4>3. CASE HandlerLists
          BY <4>3 DEF HandlerLists, Types
        <4>4. CASE Land \/ Discard
          BY <4>1, <4>4 DEF Land, Discard, Types
        <4> QED
          BY <1>8, <4>2, <4>3, <4>4, <4>5
      <3> QED
        BY <3>1 DEF Types, node
    <2>2. Recent' /\ Remembered'
      BY <1>8 DEF Details, SampleFails, HandlerLists, Land, Discard, Recent, Remembered, node
    <2> QED
      BY <2>1, <2>2
  <1>9. CASE SampleStopped \/ \E see \in Sees : SampleRunning(see)
    BY <1>9, SampleInv
  <1>10. CASE HandlerForgets
    <2>1. /\ memory' \in [Containers -> Record]
          /\ \A d \in Containers : memory'[d].held => memory'[d] = memory[d]
      BY <1>0, <1>10, ForgetFacts DEF HandlerForgets
    <2>2. /\ raced' \in BOOLEAN
          /\ ~ raced' => ~ raced /\ (container # None => memory'[container] = memory[container])
          /\ shown' \in Rows
      BY <1>10, NoneType DEF HandlerForgets, Types
    <2> QED
      BY <1>0, <1>10, <2>1, <2>2 DEF HandlerForgets, Types, Recent, Remembered, node
  <1>11. CASE Restart
    <2>1. memory' \in [Containers -> Record] /\ \A d \in Containers : ~ memory'[d].held
      BY <1>11, NoneType DEF Restart
    <2>2. /\ last'.container = None /\ last' \in View /\ lastAge' \in 0..Memory /\ landing' = FALSE
          /\ last'.state # "syncing" /\ shown' \in Rows
      BY <1>11, NoneType, AgesAssumption DEF Restart
    <2>3. Types'
      <3>1. /\ target' = None /\ runs' \in BOOLEAN /\ raced' \in BOOLEAN /\ listing' = Nothing
            /\ UNCHANGED node
        BY <1>11 DEF Restart
      <3>2. last'.container <= created'
        BY <1>0, <2>2, <3>1 DEF node, None
      <3> QED
        BY <2>1, <2>2, <3>1, <3>2 DEF Types, node
    <2>4. Recent' /\ Remembered'
      BY <1>11, <2>1, <2>2 DEF Restart, Recent, Remembered, node
    <2> QED
      BY <2>3, <2>4
  <1> QED
    BY <1>1, <1>2, <1>3, <1>4, <1>5, <1>6, <1>7, <1>8, <1>9, <1>10, <1>11 DEF Next

\* What the manager remembers and shows of a sync is bounded by what it has seen.
THEOREM Invariant == Spec => []Inv
  <1> QED
    BY InitInv, NextInv, PTL DEF Spec

------------------------------------------------------------------------------
(* The three properties. *)

\* Only an inspection makes a view, and of the container that exists.
LEMMA InspectedInspects ==
  ASSUME Inv, [Next]_vars, Inspected
  PROVE  \E see \in AnySee : Inspect(see) /\ target = container /\ target \in Containers
  <1>1. ASSUME SampleStopped \/ \E see \in Sees : SampleRunning(see)
        PROVE  \E see \in AnySee : Inspect(see) /\ target = container /\ target \in Containers
    BY <1>1, SampleSees DEF Inv
  <1>2. ~ landing /\ landing'
    BY DEF Inspected
  <1> QED
    BY <1>1, <1>2 DEF Next, vars, cache, Create, Remove, StartOrStop, Moves, Logs, Tick, Pick,
       Details, SampleFails, Land, Discard, HandlerLists, HandlerForgets, Restart

\* A sync is shown only of a node that was in one within SYNC_LOG_FRESH and SYNC_MEMORY
\* (README.md:289-291, manager.py:797-823).
THEOREM RecentTheorem == Spec => SyncIsRecent
  <1>1. Inv => [Land /\ shown'.state = "syncing" => farAge < LogFresh + Memory]_vars
    BY NoneType DEF Inv, Types, Recent, Land
  <1> QED
    BY <1>1, Invariant, PTL DEF Spec, SyncIsRecent

\* A node that has answered as syncing is not an alarm for SYNC_MEMORY because its RPC
\* has gone silent (manager.py:44, 817-823).
THEOREM BusyTheorem == Spec => BusyIsNotBroken
  <1>1. Inv /\ [Next]_vars =>
          [ /\ Inspected /\ last.container = target
            /\ last.state = "syncing" /\ ~ last.recalled /\ lastAge < Memory
            /\ last'.silent /\ ~ raced
            => last'.state = "syncing" ]_vars
    <2> SUFFICES ASSUME Inv, [Next]_vars, Inspected, last.container = target,
                        last.state = "syncing", ~ last.recalled, lastAge < Memory,
                        last'.silent, ~ raced
                 PROVE  last'.state = "syncing"
      OBVIOUS
    <2>1. PICK see \in AnySee : Inspect(see) /\ target = container /\ target \in Containers
      BY InspectedInspects
    <2>2. see.up /\ ~ see.rpc
      BY <2>1, InspectFacts DEF Inv
    <2>3. memory[target].held /\ memory[target].age <= lastAge
      BY <2>1, BoundAssumption DEF Inv, Remembered, Containers, None
    <2>4. memory[target].age < Memory
      BY <2>1, <2>3, AgesAssumption DEF Inv, Types, Record, View
    <2> QED
      BY <2>1, <2>2, <2>3, <2>4, InspectFacts DEF Inv
  <1> QED
    BY <1>1, Invariant, PTL DEF Spec, BusyIsNotBroken

\* A registered node that catches up keeps the operator's attention until its RPC says
\* otherwise (manager.py:280, 809-823).
THEOREM AttentionTheorem == Spec => AttentionKept
  <1>1. Inv /\ [Next]_vars =>
          [ /\ Inspected /\ last.container = target
            /\ last.state = "syncing" /\ last.attention
            /\ last'.state = "syncing" /\ last'.recalled /\ ~ raced
            => last'.attention ]_vars
    <2> SUFFICES ASSUME Inv, [Next]_vars, Inspected, last.container = target,
                        last.state = "syncing", last.attention,
                        last'.state = "syncing", last'.recalled, ~ raced
                 PROVE  last'.attention
      OBVIOUS
    <2>1. PICK see \in AnySee : Inspect(see) /\ target = container /\ target \in Containers
      BY InspectedInspects
    <2>2. memory[target].held /\ memory[target].registered
      BY <2>1, BoundAssumption DEF Inv, Remembered, Containers, None
    <2> QED
      BY <2>1, <2>2, InspectFacts DEF Inv
  <1> QED
    BY <1>1, Invariant, PTL DEF Spec, AttentionKept
==============================================================================
