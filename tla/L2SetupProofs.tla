---------------------------- MODULE L2SetupProofs ----------------------------
(***************************************************************************)
(* What the L2 setup leaves, wherever it stops, proved of L2Setup for every *)
(* set of nodes and of manual keys, and any number of identities, runs and *)
(* events.                                                                 *)
(***************************************************************************)
EXTENDS L2Setup, TLAPS

AllKeys == Manual \cup (Nodes \X Nat)
File    == [kind : {"none", "user", "generated"}, clients : SUBSET Nodes, allowed : SUBSET AllKeys]
Box     == [run : BOOLEAN, mode : {"none", "direct", "bootstrap", "proxied"}, id : Nat]

Types ==
    /\ base \in [Nodes -> {"absent", "auto", "out"}]
    /\ identity \in [Nodes -> Nat \ {0}]
    /\ override \in File /\ previous \in File
    /\ box \in [Nodes -> Box]
    /\ proxy \in [run : BOOLEAN, allowed : SUBSET AllKeys]
    /\ pc \in {"idle", "proxy", "read", "await", "apply", "nodes"}
    /\ clients \in SUBSET Nodes /\ allowed \in SUBSET AllKeys /\ todo \in SUBSET clients
    /\ misread \in SUBSET Nodes /\ outdated \in SUBSET Nodes
    /\ calm \in BOOLEAN /\ silent \in BOOLEAN /\ settled \in BOOLEAN

Running == pc # "idle"
Current(s) == Key(s, identity[s])
KeysOf(S)  == {Current(s) : s \in S}

\* The keys that appear in any allowlist, old or to come, but for the manual ones.
Held == (proxy.allowed \cup override.allowed \cup previous.allowed \cup allowed) \ Manual

\* A container has an identity its node has had, and a node whose current key is on some
\* allowlist has no container of a former one.
Identities ==
    \A s \in Nodes :
        /\ box[s].id <= identity[s]
        /\ box[s].run \/ box[s].mode # "none" => box[s].id # 0
        /\ \A i \in Nat : Key(s, i) \in Held => i <= identity[s]
        /\ Current(s) \in Held => box[s].id \in {0, identity[s]}

\* The discovery: who was asked and answered with the right key is on the list.
Discovered ==
    Running =>
        /\ Manual \subseteq allowed
        /\ \A s \in clients : base[s] # "out"
        /\ misread \subseteq clients /\ \A s \in misread : Current(s) \notin Held
        /\ pc = "proxy" => misread = {} /\ todo = {} /\ allowed = Manual
        /\ pc \in {"read", "await"} =>
              /\ misread \cap todo = {}
              /\ KeysOf(clients \ (todo \cup misread)) \subseteq allowed

\* The generated override, and the copy of it that a run begins with.
OverrideKept ==
    /\ override.clients # {} => override.kind = "generated"
    /\ override.kind = "generated" => Manual \subseteq override.allowed
    /\ pc = "proxy" => \/ override.clients = {}
                       \/ previous.kind = override.kind /\ previous.allowed = override.allowed

\* The override does not lock out a client that the proxy lets in.
StillAllowed ==
    \A s \in override.clients : Current(s) \in proxy.allowed => Current(s) \in override.allowed

\* While nobody else does anything, each part of a run leaves what it should.
Undisturbed ==
    Running /\ calm =>
        /\ clients = Participants
        /\ pc \in {"read", "await"} /\ misread = {} => allowed = Manual \cup KeysOf(clients \ todo)
        /\ pc \in {"apply", "nodes"} =>
              /\ override.kind = "generated" /\ override.clients = clients
              /\ misread = {} => override.allowed = Manual \cup KeysOf(clients)
        /\ pc = "nodes" =>
              /\ proxy = UpProxy(override.allowed)
              /\ \A s \in clients \ todo :
                    box[s] = [run |-> TRUE, mode |-> "proxied", id |-> identity[s]]

\* A run that finds everything as it would leave it, and every node awake, touches nothing.
Untouched ==
    Running /\ calm /\ settled /\ ~ silent =>
        /\ Settled /\ restarted = {} /\ misread = {} /\ pc # "await"
        /\ pc = "proxy" => previous.kind = "generated" /\ previous.allowed = override.allowed

Inv == /\ Types /\ Identities /\ Discovered /\ OverrideKept /\ StillAllowed
       /\ RewiredIsAllowed /\ Undisturbed /\ Untouched

------------------------------------------------------------------------------
\* What a node's container becomes.
Fresh(s, mode) == [run |-> TRUE, mode |-> mode, id |-> identity[s]]

\* Up changes the one container, and to what it says.
LEMMA UpFacts ==
  ASSUME Types, NEW s \in Nodes, NEW mode \in {"direct", "bootstrap", "proxied"}
  PROVE  /\ Up(s, mode) \in [Nodes -> Box]
         /\ Up(s, mode)[s] = Fresh(s, mode)
         /\ Fresh(s, mode) \in Box
         /\ \A t \in Nodes \ {s} : Up(s, mode)[t] = box[t]
  BY DEF Types, Up, Fresh, Box

\* The mode under an override is one a container can have.
LEMMA ModeFacts ==
  ASSUME NEW o, NEW s
  PROVE  ModeBy(o, s) \in {"direct", "bootstrap", "proxied"}
  BY DEF ModeBy

\* The files, and what the proxy is configured with.
LEMMA FileFacts ==
  ASSUME Types
  PROVE  /\ NoFile \in File /\ UserFile \in File
         /\ Participants \subseteq Nodes /\ Present \subseteq Nodes
         /\ \A cs \in SUBSET Nodes, ks \in SUBSET AllKeys : Generated(cs, ks) \in File
         /\ \A o \in File : /\ Filtered(o) \in File
                            /\ \A s \in Nodes : Popped(o, s) \in File
                            /\ AllowedBy(o) \in SUBSET AllKeys
  BY DEF Types, File, AllKeys, NoFile, UserFile, Generated, Participants, Present, Filtered, Popped,
         AllowedBy

LEMMA ProxyFacts ==
  ASSUME NEW ks \in SUBSET AllKeys
  PROVE  UpProxy(ks) \in [run : BOOLEAN, allowed : SUBSET AllKeys]
  BY DEF UpProxy

LEMMA KeyFacts ==
  ASSUME NEW s \in Nodes, NEW i \in Nat
  PROVE  Key(s, i) \in AllKeys
  BY DEF Key, AllKeys

LEMMA TypesStep == Types /\ [Next]_vars => Types'
<1> SUFFICES ASSUME Types, [Next]_vars PROVE Types'
  OBVIOUS
<1> USE FileFacts
<1>1. CASE Begin
  <2>1. Settled \in BOOLEAN
    BY DEF Settled
  <2> QED BY <1>1, <2>1 DEF Begin, Types, files, docker, ManualKeys, AllKeys
<1>2. CASE StartProxy
  BY <1>2, ProxyFacts DEF StartProxy, Types, files
<1>3. ASSUME NEW s \in Nodes, ReadKey(s) PROVE Types'
  <2>1. box[s].id \in Nat /\ identity[s] \in Nat
    BY DEF Types, Box
  <2>2. Key(s, box[s].id) \in AllKeys
    BY <2>1, KeyFacts
  <2> QED BY <1>3, <2>2 DEF ReadKey, Discovers, Types, files, docker
<1>4. ASSUME NEW s \in Nodes, Bootstrap(s) PROVE Types'
  BY <1>4, UpFacts DEF Bootstrap, Types, files
<1>5. ASSUME NEW s \in Nodes, AwaitKey(s) PROVE Types'
  <2>1. box[s].id \in Nat /\ identity[s] \in Nat
    BY DEF Types, Box
  <2>2. Key(s, box[s].id) \in AllKeys
    BY <2>1, KeyFacts
  <2> QED BY <1>5, <2>2 DEF AwaitKey, Discovers, Types, files, docker
<1>6. CASE Save
  BY <1>6 DEF Save, Types, files, docker
<1>7. CASE ApplyProxy
  BY <1>7, ProxyFacts DEF ApplyProxy, Types, files
<1>8. ASSUME NEW s \in Nodes, ApplyNode(s) PROVE Types'
  BY <1>8, UpFacts, ModeFacts DEF ApplyNode, Types, files
<1>9. CASE Succeed
  BY <1>9 DEF Succeed, Types, files, docker, ghosts
<1>10. CASE Fail
  BY <1>10 DEF Fail, Types, files, docker, ghosts
<1>11. ASSUME NEW s \in Nodes, RemoveNode(s) PROVE Types'
  <2>1. NoBox \in Box
    BY DEF NoBox, Box
  <2> QED BY <1>11, <2>1 DEF RemoveNode, Event, Types, script
<1>12. ASSUME NEW s \in Nodes, StartOrStop(s) PROVE Types'
  BY <1>12 DEF StartOrStop, Event, Types, files, script, Box
<1>13. ASSUME NEW s \in Nodes, NEW mode \in {"auto", "out"}, NEW imports \in BOOLEAN,
              Onboard(s, mode, imports)
       PROVE  Types'
  <2>1. base' \in [Nodes -> {"absent", "auto", "out"}] /\ identity' \in [Nodes -> Nat \ {0}]
    BY <1>13 DEF Onboard, Types
  <2>2. box' \in [Nodes -> Box]
    BY <1>13 DEF Onboard, Types, Box
  <2>3. override' \in File
    BY <1>13 DEF Onboard, Types
  <2> QED BY <1>13, <2>1, <2>2, <2>3 DEF Onboard, Event, Types, script
<1>14. CASE ComposeUp
  <2>1. box' \in [Nodes -> Box]
    BY <1>14, UpFacts, ModeFacts DEF ComposeUp, Types
  <2>2. proxy' \in [run : BOOLEAN, allowed : SUBSET AllKeys]
    BY <1>14, ProxyFacts DEF ComposeUp, Types, File
  <2> QED BY <1>14, <2>1, <2>2 DEF ComposeUp, Event, Types, files, script
<1>15. CASE ReturnToDirect
  <2>1. box' \in [Nodes -> Box]
    BY <1>15, UpFacts DEF ReturnToDirect, Types
  <2> QED BY <1>15, <2>1 DEF ReturnToDirect, Event, Types, script
<1>16. CASE WriteOverride
  BY <1>16 DEF WriteOverride, Event, Types, docker, script
<1>17. CASE UNCHANGED vars
  BY <1>17 DEF vars, files, docker, script, ghosts, Types
<1> QED
  BY <1>1, <1>2, <1>3, <1>4, <1>5, <1>6, <1>7, <1>8, <1>9, <1>10, <1>11, <1>12, <1>13, <1>14,
     <1>15, <1>16, <1>17 DEF Next, Setup, Others

------------------------------------------------------------------------------
\* What a step may do to a container, so that what it ran with stays accounted for.
Accounted(s) ==
    \/ /\ box'[s].id = box[s].id
       /\ box'[s].run \/ box'[s].mode # "none" => box[s].run \/ box[s].mode # "none"
    \/ box'[s] = NoBox
    \/ box'[s].id = identity[s]

\* As long as no node gets another identity and no key is added, containers stay right.
LEMMA IdentitiesKept ==
  ASSUME Types, Identities, identity' = identity, Held' \subseteq Held,
         \A s \in Nodes : Accounted(s)
  PROVE  Identities'
<1> SUFFICES ASSUME NEW s \in Nodes
             PROVE  /\ box'[s].id <= identity[s]
                    /\ box'[s].run \/ box'[s].mode # "none" => box'[s].id # 0
                    /\ \A i \in Nat : Key(s, i) \in Held' => i <= identity[s]
                    /\ Current(s) \in Held' => box'[s].id \in {0, identity[s]}
  BY DEF Identities, Current
<1>1. identity[s] \in Nat \ {0}
  BY DEF Types
<1> QED
  BY <1>1 DEF Identities, Accounted, NoBox

\* A container that is brought up, and the others with it, is accounted for.
LEMMA UpAccounted ==
  ASSUME Types, NEW s \in Nodes, NEW mode \in {"direct", "bootstrap", "proxied"},
         box' = Up(s, mode)
  PROVE  \A t \in Nodes : Accounted(t)
<1>1. box'[s] = Fresh(s, mode) /\ \A t \in Nodes \ {s} : box'[t] = box[t]
  BY UpFacts
<1>2. Fresh(s, mode).id = identity[s]
  BY DEF Fresh
<1> QED
  BY <1>1, <1>2 DEF Accounted

\* Only the discovery adds a key.
LEMMA HeldShrinks ==
  ASSUME Types, [Next]_vars, \A s \in Nodes : ~ ReadKey(s) /\ ~ AwaitKey(s)
  PROVE  Held' \subseteq Held
<1>1. CASE Begin
  BY <1>1 DEF Begin, Held, Filtered, ManualKeys, files, docker, Types, File
<1>2. CASE StartProxy
  BY <1>2 DEF StartProxy, Held, UpProxy, AllowedBy, files
<1>3. CASE Save
  BY <1>3 DEF Save, Held, Generated, docker
<1>4. CASE ApplyProxy
  BY <1>4 DEF ApplyProxy, Held, UpProxy, AllowedBy, files
<1>5. ASSUME NEW s \in Nodes, Bootstrap(s) \/ ApplyNode(s) PROVE Held' \subseteq Held
  BY <1>5 DEF Bootstrap, ApplyNode, Held, files
<1>6. CASE Succeed \/ Fail \/ UNCHANGED vars
  BY <1>6 DEF Succeed, Fail, vars, files, docker, script, Held
<1>7. ASSUME NEW s \in Nodes, RemoveNode(s) \/ StartOrStop(s) PROVE Held' \subseteq Held
  BY <1>7 DEF RemoveNode, StartOrStop, Event, script, files, Held
<1>8. ASSUME NEW s \in Nodes, NEW mode \in {"auto", "out"}, NEW imports \in BOOLEAN,
             Onboard(s, mode, imports)
      PROVE  Held' \subseteq Held
  BY <1>8 DEF Onboard, Event, script, Popped, Held, Types, File
<1>9. CASE ComposeUp
  BY <1>9 DEF ComposeUp, Event, script, files, UpProxy, Held
<1>10. CASE ReturnToDirect \/ WriteOverride
  BY <1>10 DEF ReturnToDirect, WriteOverride, Event, script, docker, NoFile, UserFile, Held
<1> QED
  BY <1>1, <1>2, <1>3, <1>4, <1>5, <1>6, <1>7, <1>8, <1>9, <1>10 DEF Next, Setup, Others

\* The discovery adds the key of the identity the container runs with, which need not be
\* the current one; but then the current one is on no list.
LEMMA DiscoversFacts ==
  ASSUME Types, Identities, NEW s \in Nodes, ReadKey(s) \/ AwaitKey(s)
  PROVE  /\ box[s].id \in Nat \ {0} /\ box[s].id <= identity[s]
         /\ Held' \subseteq Held \cup {Key(s, box[s].id)}
         /\ box[s].id # identity[s] => Current(s) \notin Held'
         /\ identity' = identity /\ box' = box /\ base' = base
<1>1. box[s].id \in Nat \ {0} /\ box[s].id <= identity[s]
  BY DEF ReadKey, AwaitKey, Discovers, Identities, Types, Box
<1>2. Held' \subseteq Held \cup {Key(s, box[s].id)}
  BY DEF ReadKey, AwaitKey, Discovers, Held, files, docker
<1>3. box[s].id # identity[s] => Current(s) \notin Held
  BY <1>1 DEF Identities
<1>4. box[s].id # identity[s] => Current(s) # Key(s, box[s].id)
  BY DEF Current, Key
<1>5. identity' = identity /\ box' = box /\ base' = base
  BY DEF ReadKey, AwaitKey, files, docker
<1> QED
  BY <1>1, <1>2, <1>3, <1>4, <1>5

LEMMA IdentitiesStep == Types /\ Identities /\ [Next]_vars => Identities'
<1> SUFFICES ASSUME Types, Identities, [Next]_vars PROVE Identities'
  OBVIOUS
<1>1. ASSUME NEW s \in Nodes, ReadKey(s) \/ AwaitKey(s) PROVE Identities'
  <2>1. /\ box[s].id \in Nat \ {0} /\ box[s].id <= identity[s]
        /\ Held' \subseteq Held \cup {Key(s, box[s].id)}
        /\ box[s].id # identity[s] => Current(s) \notin Held'
        /\ identity' = identity /\ box' = box
    BY <1>1, DiscoversFacts
  <2> SUFFICES ASSUME NEW t \in Nodes
               PROVE  /\ box[t].id <= identity[t]
                      /\ box[t].run \/ box[t].mode # "none" => box[t].id # 0
                      /\ \A i \in Nat : Key(t, i) \in Held' => i <= identity[t]
                      /\ Current(t) \in Held' => box[t].id \in {0, identity[t]}
    BY <2>1 DEF Identities, Current
  <2>2. \A i \in Nat : Key(t, i) = Key(s, box[s].id) => t = s /\ i = box[s].id
    BY DEF Key
  <2>3. \A i \in Nat : Key(t, i) \in Held' => i <= identity[t]
    BY <2>1, <2>2 DEF Identities
  <2>4. Current(t) \in Held' => box[t].id \in {0, identity[t]}
    <3>1. CASE t = s
      BY <3>1, <2>1
    <3>2. CASE t # s
      <4>1. Current(t) # Key(s, box[s].id)
        BY <3>2 DEF Current, Key
      <4> QED BY <4>1, <2>1 DEF Identities
    <3> QED BY <3>1, <3>2
  <2> QED BY <2>3, <2>4 DEF Identities
<1> SUFFICES ASSUME \A s \in Nodes : ~ ReadKey(s) /\ ~ AwaitKey(s) PROVE Identities'
  BY <1>1
<1>2. Held' \subseteq Held
  BY HeldShrinks
<1>3. CASE Begin \/ StartProxy \/ Save \/ ApplyProxy \/ Succeed \/ Fail \/ UNCHANGED vars
  <2>1. identity' = identity /\ box' = box
    BY <1>3 DEF Begin, StartProxy, Save, ApplyProxy, Succeed, Fail, vars, files, docker
  <2> QED BY <2>1, <1>2, IdentitiesKept DEF Accounted
<1>4. ASSUME NEW s \in Nodes, Bootstrap(s) PROVE Identities'
  <2>1. identity' = identity /\ box' = Up(s, "bootstrap")
    BY <1>4 DEF Bootstrap, files
  <2> QED BY <2>1, <1>2, UpAccounted, IdentitiesKept
<1>5. ASSUME NEW s \in Nodes, ApplyNode(s) PROVE Identities'
  <2>1. identity' = identity /\ box' = Up(s, ModeBy(override, s))
    BY <1>5 DEF ApplyNode, files
  <2> QED BY <2>1, <1>2, ModeFacts, UpAccounted, IdentitiesKept
<1>6. ASSUME NEW s \in Nodes, RemoveNode(s) PROVE Identities'
  <2>1. identity' = identity /\ \A t \in Nodes : Accounted(t)
    BY <1>6 DEF RemoveNode, Types, Accounted
  <2> QED BY <2>1, <1>2, IdentitiesKept
<1>7. ASSUME NEW s \in Nodes, StartOrStop(s) PROVE Identities'
  <2>1. identity' = identity /\ \A t \in Nodes : Accounted(t)
    BY <1>7 DEF StartOrStop, files, Types, Box, Accounted
  <2> QED BY <2>1, <1>2, IdentitiesKept
<1>8. ASSUME NEW s \in Nodes, NEW mode \in {"auto", "out"}, NEW imports \in BOOLEAN,
             Onboard(s, mode, imports)
      PROVE  Identities'
  <2>1. identity \in [Nodes -> Nat \ {0}] /\ box \in [Nodes -> Box]
    BY DEF Types
  <2>2. \A t \in Nodes : box'[t].id = box[t].id /\ (box'[t].run => box[t].run)
                         /\ box'[t].mode = box[t].mode
    BY <1>8, <2>1 DEF Onboard, Box
  <2>3. \A t \in Nodes : identity'[t] \in {identity[t], identity[t] + 1}
    BY <1>8, <2>1 DEF Onboard
  <2>4. \A t \in Nodes : Key(t, identity[t] + 1) \notin Held
    BY <2>1 DEF Identities
  <2> SUFFICES ASSUME NEW t \in Nodes
               PROVE  /\ box'[t].id <= identity'[t]
                      /\ box'[t].run \/ box'[t].mode # "none" => box'[t].id # 0
                      /\ \A i \in Nat : Key(t, i) \in Held' => i <= identity'[t]
                      /\ Key(t, identity'[t]) \in Held' => box'[t].id \in {0, identity'[t]}
    BY DEF Identities, Current
  <2>5. box[t].id \in Nat /\ identity[t] \in Nat
    BY <2>1 DEF Box
  <2>6. \A i \in Nat : Key(t, i) \in Held' => i <= identity'[t]
    BY <2>3, <2>5, <1>2 DEF Identities
  <2>7. Key(t, identity'[t]) \in Held' => box'[t].id \in {0, identity'[t]}
    BY <2>2, <2>3, <2>4, <1>2 DEF Identities, Current
  <2> QED BY <2>2, <2>3, <2>5, <2>6, <2>7 DEF Identities
<1>9. CASE ComposeUp
  <2>1. identity' = identity
    BY <1>9 DEF ComposeUp, files
  <2>2. \A t \in Nodes : box'[t] \in {box[t], Fresh(t, ModeBy(override, t))}
    BY <1>9, UpFacts, ModeFacts DEF ComposeUp
  <2>3. \A t \in Nodes : Accounted(t)
    BY <2>2 DEF Fresh, Accounted
  <2> QED BY <2>1, <2>3, <1>2, IdentitiesKept
<1>10. CASE ReturnToDirect \/ WriteOverride
  <2>1. identity' = identity
    BY <1>10 DEF ReturnToDirect, WriteOverride
  <2>2. \A t \in Nodes : box'[t] \in {box[t], Fresh(t, "direct")}
    BY <1>10, UpFacts DEF ReturnToDirect, WriteOverride, docker
  <2>3. \A t \in Nodes : Accounted(t)
    BY <2>2 DEF Fresh, Accounted
  <2> QED BY <2>1, <2>3, <1>2, IdentitiesKept
<1> QED
  BY <1>1, <1>3, <1>4, <1>5, <1>6, <1>7, <1>8, <1>9, <1>10 DEF Next, Setup, Others

------------------------------------------------------------------------------
\* The steps of the others leave the script alone; its keys can only become fewer, and a
\* node is opted out, or gets another identity, only when the script does not run.
LEMMA OthersFacts ==
  ASSUME Types, Others
  PROVE  /\ UNCHANGED <<script, misread, outdated, restarted, silent, settled>> /\ ~ calm'
         /\ Running => identity' = identity /\ \A s \in Nodes : base'[s] = "out" => base[s] = "out"
<1> DEFINE Leaves ==
      /\ UNCHANGED <<script, misread, outdated, restarted, silent, settled>> /\ ~ calm'
      /\ Running => identity' = identity /\ \A s \in Nodes : base'[s] = "out" => base[s] = "out"
<1>1. CASE ComposeUp \/ ReturnToDirect \/ WriteOverride
  BY <1>1 DEF ComposeUp, ReturnToDirect, WriteOverride, Event, files
<1>2. ASSUME NEW s \in Nodes, RemoveNode(s) \/ StartOrStop(s) PROVE Leaves
  BY <1>2 DEF RemoveNode, StartOrStop, Event, files, Types
<1>3. ASSUME NEW s \in Nodes, NEW mode \in {"auto", "out"}, NEW imports \in BOOLEAN,
             Onboard(s, mode, imports)
      PROVE  Leaves
  BY <1>3 DEF Onboard, Event, script, Running
<1> QED
  BY <1>1, <1>2, <1>3 DEF Others

LEMMA DiscoveredStep == Types /\ Identities /\ Discovered /\ [Next]_vars => Discovered'
<1> SUFFICES ASSUME Types, Identities, Discovered, [Next]_vars, Running' PROVE Discovered'
  BY DEF Discovered
<1> USE DEF Running
<1>1. ASSUME NEW s \in Nodes, ReadKey(s) \/ AwaitKey(s) PROVE Discovered'
  <2>1. /\ box[s].id \in Nat \ {0}
        /\ Held' \subseteq Held \cup {Key(s, box[s].id)}
        /\ box[s].id # identity[s] => Current(s) \notin Held'
        /\ identity' = identity /\ base' = base
    BY <1>1, DiscoversFacts
  <2>2. /\ pc \in {"read", "await"} /\ pc' = "read" /\ s \in todo /\ todo' = todo \ {s}
        /\ clients' = clients /\ allowed' = allowed \cup {Key(s, box[s].id)}
        /\ misread' = IF box[s].id = identity[s] THEN misread \ {s} ELSE misread \cup {s}
    BY <1>1 DEF ReadKey, AwaitKey, Discovers
  <2>3. /\ Manual \subseteq allowed /\ \A t \in clients : base[t] # "out"
        /\ misread \subseteq clients /\ \A t \in misread : Current(t) \notin Held
        /\ misread \cap todo = {} /\ KeysOf(clients \ (todo \cup misread)) \subseteq allowed
    BY <2>2 DEF Discovered
  <2>4. misread' \subseteq clients' /\ misread' \cap todo' = {}
    BY <2>2, <2>3 DEF Types
  <2>5. ASSUME NEW t \in misread' PROVE Current(t) \notin Held'
    <3>1. CASE t = s
      BY <3>1, <2>1, <2>2
    <3>2. CASE t # s
      <4>1. t \in misread /\ Current(t) # Key(s, box[s].id)
        BY <3>2, <2>2, <2>5 DEF Current, Key
      <4> QED BY <4>1, <2>1, <2>3
    <3> QED BY <3>1, <3>2
  <2>6. ASSUME NEW t \in clients \ (todo' \cup misread') PROVE Current(t) \in allowed'
    <3>1. CASE t = s
      BY <3>1, <2>2, <2>6 DEF Current
    <3>2. CASE t # s
      <4>1. t \in clients \ (todo \cup misread)
        BY <3>2, <2>2, <2>6
      <4> QED BY <4>1, <2>2, <2>3 DEF KeysOf
    <3> QED BY <3>1, <3>2
  <2>7. \A t \in clients \ (todo' \cup misread') : Current(t)' \in allowed'
    BY <2>1, <2>6 DEF Current
  <2>8. \A t \in misread' : Current(t)' \notin Held'
    BY <2>1, <2>5 DEF Current
  <2> QED BY <2>1, <2>2, <2>3, <2>4, <2>7, <2>8 DEF Discovered, KeysOf
<1> SUFFICES ASSUME \A s \in Nodes : ~ ReadKey(s) /\ ~ AwaitKey(s) PROVE Discovered'
  BY <1>1
<1>2. Held' \subseteq Held
  BY HeldShrinks
<1>3. CASE Begin
  BY <1>3 DEF Begin, Discovered, ManualKeys, Participants, files
<1>4. CASE StartProxy
  <2>1. KeysOf(clients \ (todo \cup misread))' = {}
    BY <1>4 DEF StartProxy, KeysOf
  <2> QED BY <1>4, <1>2, <2>1 DEF StartProxy, Discovered, Current, KeysOf, files
<1>5. ASSUME NEW s \in Nodes, Bootstrap(s) PROVE Discovered'
  BY <1>5, <1>2 DEF Bootstrap, Discovered, Current, KeysOf, files
<1>6. CASE Save \/ ApplyProxy
  BY <1>6, <1>2 DEF Save, ApplyProxy, Discovered, Current, files
<1>7. ASSUME NEW s \in Nodes, ApplyNode(s) PROVE Discovered'
  BY <1>7, <1>2 DEF ApplyNode, Discovered, Current, files
<1>8. CASE Succeed \/ Fail
  BY <1>8 DEF Succeed, Fail
<1>9. CASE Others
  <2>1. /\ UNCHANGED <<script, misread>>
        /\ identity' = identity /\ \A s \in Nodes : base'[s] = "out" => base[s] = "out"
    BY <1>9, OthersFacts DEF script
  <2>2. clients \subseteq Nodes
    BY DEF Types
  <2> QED BY <1>2, <2>1, <2>2 DEF script, Discovered, Current, KeysOf
<1>10. CASE UNCHANGED vars
  BY <1>10, <1>2 DEF vars, files, script, ghosts, Discovered, Current, KeysOf
<1> QED
  BY <1>1, <1>3, <1>4, <1>5, <1>6, <1>7, <1>8, <1>9, <1>10 DEF Next, Setup

LEMMA OverrideKeptStep == Types /\ Discovered /\ OverrideKept /\ [Next]_vars => OverrideKept'
<1> SUFFICES ASSUME Types, Discovered, OverrideKept, [Next]_vars PROVE OverrideKept'
  OBVIOUS
<1>1. CASE Begin
  BY <1>1 DEF Begin, OverrideKept, Filtered, files, Types, File
<1>2. CASE StartProxy \/ ApplyProxy \/ Succeed \/ Fail \/ UNCHANGED vars
  BY <1>2 DEF StartProxy, ApplyProxy, Succeed, Fail, vars, files, script, OverrideKept
<1>3. ASSUME NEW s \in Nodes, ReadKey(s) \/ Bootstrap(s) \/ AwaitKey(s) \/ ApplyNode(s)
      PROVE  OverrideKept'
  BY <1>3 DEF ReadKey, Bootstrap, AwaitKey, ApplyNode, files, OverrideKept
<1>4. CASE Save
  BY <1>4 DEF Save, OverrideKept, Generated, Discovered, Running
<1>5. ASSUME NEW s \in Nodes, RemoveNode(s) \/ StartOrStop(s) PROVE OverrideKept'
  BY <1>5 DEF RemoveNode, StartOrStop, Event, files, script, OverrideKept
<1>6. ASSUME NEW s \in Nodes, NEW mode \in {"auto", "out"}, NEW imports \in BOOLEAN,
             Onboard(s, mode, imports)
      PROVE  OverrideKept'
  BY <1>6 DEF Onboard, Event, script, Popped, OverrideKept, Types, File
<1>7. CASE ComposeUp
  BY <1>7 DEF ComposeUp, Event, files, script, OverrideKept
<1>8. CASE ReturnToDirect \/ WriteOverride
  BY <1>8 DEF ReturnToDirect, WriteOverride, NoFile, UserFile, OverrideKept
<1> QED
  BY <1>1, <1>2, <1>3, <1>4, <1>5, <1>6, <1>7, <1>8 DEF Next, Setup, Others

\* The override that a run saves allows each of its nodes, but those that were misread.
LEMMA SaveFacts ==
  ASSUME Types, Discovered, Save
  PROVE  /\ override' = Generated(clients, allowed) /\ outdated' = misread
         /\ Manual \subseteq allowed /\ \A s \in clients : base[s] # "out"
         /\ \A s \in clients \ misread : Current(s) \in allowed
         /\ \A s \in misread : Current(s) \notin Held
  BY DEF Save, Discovered, Running, KeysOf

LEMMA StillAllowedStep ==
  Types /\ Discovered /\ OverrideKept /\ StillAllowed /\ [Next]_vars => StillAllowed'
<1> SUFFICES ASSUME Types, Discovered, OverrideKept, StillAllowed, [Next]_vars
             PROVE  StillAllowed'
  OBVIOUS
<1>1. CASE Begin \/ Succeed \/ Fail \/ UNCHANGED vars
  BY <1>1 DEF Begin, Succeed, Fail, vars, files, docker, StillAllowed, Current
<1>2. CASE StartProxy
  BY <1>2 DEF StartProxy, files, AllowedBy, UpProxy, OverrideKept, StillAllowed, Current
<1>3. ASSUME NEW s \in Nodes, ReadKey(s) \/ Bootstrap(s) \/ AwaitKey(s) \/ ApplyNode(s)
      PROVE  StillAllowed'
  BY <1>3 DEF ReadKey, Bootstrap, AwaitKey, ApplyNode, files, docker, StillAllowed, Current
<1>4. CASE Save
  <2> SUFFICES ASSUME NEW s \in clients, Current(s) \in proxy.allowed
               PROVE  Current(s) \in allowed
    BY <1>4 DEF Save, Generated, StillAllowed, Current, docker
  <2>1. CASE s \in misread
    BY <1>4, <2>1, SaveFacts DEF Held
  <2>2. CASE s \notin misread
    BY <1>4, <2>2, SaveFacts
  <2> QED BY <2>1, <2>2
<1>5. CASE ApplyProxy
  BY <1>5 DEF ApplyProxy, files, AllowedBy, UpProxy, OverrideKept, StillAllowed, Current
<1>6. ASSUME NEW s \in Nodes, RemoveNode(s) \/ StartOrStop(s) PROVE StillAllowed'
  BY <1>6 DEF RemoveNode, StartOrStop, Event, files, StillAllowed, Current
<1>7. ASSUME NEW s \in Nodes, NEW mode \in {"auto", "out"}, NEW imports \in BOOLEAN,
             Onboard(s, mode, imports)
      PROVE  StillAllowed'
  <2>1. /\ override'.clients = override.clients \ {s} /\ override'.allowed = override.allowed
        /\ proxy' = proxy
    BY <1>7 DEF Onboard, Popped, Types, File
  <2>2. \A t \in Nodes \ {s} : identity'[t] = identity[t]
    BY <1>7 DEF Onboard, Types
  <2>3. override.clients \subseteq Nodes
    BY DEF Types, File
  <2> QED BY <2>1, <2>2, <2>3 DEF StillAllowed, Current
<1>8. CASE ComposeUp
  BY <1>8 DEF ComposeUp, files, UpProxy, StillAllowed, Current
<1>9. CASE ReturnToDirect \/ WriteOverride
  BY <1>9 DEF ReturnToDirect, WriteOverride, NoFile, UserFile, StillAllowed
<1> QED
  BY <1>1, <1>2, <1>3, <1>4, <1>5, <1>6, <1>7, <1>8, <1>9 DEF Next, Setup, Others

LEMMA RewiredStep == Types /\ Discovered /\ RewiredIsAllowed /\ [Next]_vars => RewiredIsAllowed'
<1> SUFFICES ASSUME Types, Discovered, RewiredIsAllowed, [Next]_vars PROVE RewiredIsAllowed'
  OBVIOUS
<1>1. CASE Begin \/ StartProxy \/ ApplyProxy \/ Succeed \/ Fail \/ UNCHANGED vars
  BY <1>1 DEF Begin, StartProxy, ApplyProxy, Succeed, Fail, vars, files, ghosts, RewiredIsAllowed
<1>2. ASSUME NEW s \in Nodes, ReadKey(s) \/ Bootstrap(s) \/ AwaitKey(s) \/ ApplyNode(s)
      PROVE  RewiredIsAllowed'
  BY <1>2 DEF ReadKey, Bootstrap, AwaitKey, ApplyNode, files, RewiredIsAllowed
<1>3. CASE Save
  <2>1. base' = base /\ identity' = identity
    BY <1>3 DEF Save
  <2> QED BY <1>3, <2>1, SaveFacts DEF Generated, RewiredIsAllowed, Current
<1>4. ASSUME NEW s \in Nodes, RemoveNode(s) \/ StartOrStop(s) PROVE RewiredIsAllowed'
  <2>1. override' = override /\ outdated' = outdated /\ identity' = identity
    BY <1>4 DEF RemoveNode, StartOrStop, Event, files
  <2>2. \A t \in Nodes : base'[t] = "out" => base[t] = "out"
    BY <1>4 DEF RemoveNode, StartOrStop, files, Types
  <2>3. override.clients \subseteq Nodes
    BY DEF Types, File
  <2> QED BY <2>1, <2>2, <2>3 DEF RewiredIsAllowed
<1>5. ASSUME NEW s \in Nodes, NEW mode \in {"auto", "out"}, NEW imports \in BOOLEAN,
             Onboard(s, mode, imports)
      PROVE  RewiredIsAllowed'
  <2>1. /\ override'.clients = override.clients \ {s} /\ override'.allowed = override.allowed
        /\ outdated' = outdated
    BY <1>5 DEF Onboard, Event, Popped, Types, File
  <2>2. \A t \in Nodes \ {s} : identity'[t] = identity[t] /\ base'[t] = base[t]
    BY <1>5 DEF Onboard, Types
  <2>3. override.clients \subseteq Nodes
    BY DEF Types, File
  <2> QED BY <2>1, <2>2, <2>3 DEF RewiredIsAllowed
<1>6. CASE ComposeUp
  BY <1>6 DEF ComposeUp, Event, files, RewiredIsAllowed
<1>7. CASE ReturnToDirect \/ WriteOverride
  BY <1>7 DEF ReturnToDirect, WriteOverride, NoFile, UserFile, RewiredIsAllowed
<1> QED
  BY <1>1, <1>2, <1>3, <1>4, <1>5, <1>6, <1>7 DEF Next, Setup, Others

------------------------------------------------------------------------------
LEMMA UndisturbedStep ==
  Types /\ Discovered /\ Undisturbed /\ [Next]_vars => Undisturbed'
<1> SUFFICES ASSUME Types, Discovered, Undisturbed, [Next]_vars, Running', calm'
             PROVE  Undisturbed'
  BY DEF Undisturbed
<1> USE DEF Running
<1>1. CASE Begin
  BY <1>1 DEF Begin, Undisturbed, Participants, files
<1>2. CASE StartProxy
  <2>1. /\ pc = "proxy" /\ pc' = "read" /\ todo' = clients /\ clients' = clients
        /\ UNCHANGED <<base, identity, misread, allowed, calm>>
    BY <1>2 DEF StartProxy, files
  <2>2. allowed = Manual /\ clients = Participants
    BY <1>2, <2>1 DEF Discovered, Undisturbed
  <2>3. KeysOf(clients \ todo)' = {}
    BY <2>1 DEF KeysOf
  <2> QED BY <2>1, <2>2, <2>3 DEF Undisturbed, Participants
<1>3. ASSUME NEW s \in Nodes, ReadKey(s) \/ AwaitKey(s) PROVE Undisturbed'
  <2>1. /\ pc \in {"read", "await"} /\ pc' = "read" /\ s \in todo /\ todo' = todo \ {s}
        /\ clients' = clients /\ allowed' = allowed \cup {Key(s, box[s].id)}
        /\ misread' = IF box[s].id = identity[s] THEN misread \ {s} ELSE misread \cup {s}
        /\ UNCHANGED <<base, identity, calm>>
    BY <1>3 DEF ReadKey, AwaitKey, Discovers, files
  <2>2. clients = Participants /\ misread \cap todo = {} /\ todo \subseteq clients
    BY <2>1 DEF Undisturbed, Discovered, Types
  <2>3. ASSUME misread' = {} PROVE allowed' = Manual \cup KeysOf(clients \ todo')
    <3>1. box[s].id = identity[s] /\ misread = {}
      BY <2>1, <2>2, <2>3
    <3>2. allowed = Manual \cup KeysOf(clients \ todo)
      BY <3>1, <2>1 DEF Undisturbed
    <3>3. KeysOf(clients \ todo') = KeysOf(clients \ todo) \cup {Current(s)}
      BY <2>1, <2>2 DEF KeysOf
    <3> QED BY <3>1, <3>2, <3>3, <2>1 DEF Current
  <2>4. KeysOf(clients \ todo)' = KeysOf(clients' \ todo')
    BY <2>1 DEF KeysOf, Current
  <2> QED BY <2>1, <2>2, <2>3, <2>4 DEF Undisturbed, Participants
<1>4. ASSUME NEW s \in Nodes, Bootstrap(s) PROVE Undisturbed'
  <2>1. /\ pc = "read" /\ pc' = "await"
        /\ UNCHANGED <<base, identity, clients, allowed, todo, misread, calm>>
    BY <1>4 DEF Bootstrap, files
  <2>2. KeysOf(clients \ todo)' = KeysOf(clients \ todo)
    BY <2>1 DEF KeysOf, Current
  <2> QED BY <2>1, <2>2 DEF Undisturbed, Participants
<1>5. CASE Save
  <2>1. /\ pc = "read" /\ pc' = "apply" /\ todo = {}
        /\ override' = Generated(clients, allowed)
        /\ UNCHANGED <<base, identity, clients, misread, calm>>
    BY <1>5 DEF Save
  <2>2. clients = Participants /\ (misread = {} => allowed = Manual \cup KeysOf(clients))
    BY <2>1 DEF Undisturbed
  <2>3. KeysOf(clients)' = KeysOf(clients)
    BY <2>1 DEF KeysOf, Current
  <2> QED BY <2>1, <2>2, <2>3 DEF Undisturbed, Participants, Generated
<1>6. CASE ApplyProxy
  <2>1. /\ pc = "apply" /\ pc' = "nodes" /\ todo' = clients
        /\ proxy' = UpProxy(AllowedBy(override))
        /\ UNCHANGED <<base, identity, override, clients, misread, calm>>
    BY <1>6 DEF ApplyProxy, files
  <2>2. /\ clients = Participants /\ override.kind = "generated" /\ override.clients = clients
        /\ misread = {} => override.allowed = Manual \cup KeysOf(clients)
    BY <2>1 DEF Undisturbed
  <2>3. AllowedBy(override) = override.allowed
    BY <2>2 DEF AllowedBy
  <2>4. KeysOf(clients)' = KeysOf(clients)
    BY <2>1 DEF KeysOf, Current
  <2> QED BY <2>1, <2>2, <2>3, <2>4 DEF Undisturbed, Participants, UpProxy
<1>7. ASSUME NEW s \in Nodes, ApplyNode(s) PROVE Undisturbed'
  <2>1. /\ pc = "nodes" /\ pc' = "nodes" /\ s \in todo /\ todo' = todo \ {s}
        /\ box' = Up(s, ModeBy(override, s))
        /\ UNCHANGED <<base, identity, override, proxy, clients, misread, calm>>
    BY <1>7 DEF ApplyNode, files
  <2>2. /\ clients = Participants /\ override.kind = "generated" /\ override.clients = clients
        /\ misread = {} => override.allowed = Manual \cup KeysOf(clients)
        /\ proxy = UpProxy(override.allowed)
        /\ \A t \in clients \ todo : box[t] = Fresh(t, "proxied")
    BY <2>1 DEF Undisturbed, Fresh
  <2>3. todo \subseteq clients /\ clients \subseteq Nodes
    BY DEF Types
  <2>4. box' = Up(s, "proxied")
    BY <2>1, <2>2, <2>3 DEF ModeBy
  <2>5. \A t \in clients \ todo' : box'[t] = Fresh(t, "proxied")
    BY <2>1, <2>2, <2>3, <2>4, UpFacts
  <2>6. KeysOf(clients)' = KeysOf(clients)
    BY <2>1 DEF KeysOf, Current
  <2>7. \A t \in clients' \ todo' :
           box'[t] = [run |-> TRUE, mode |-> "proxied", id |-> identity'[t]]
    BY <2>1, <2>5 DEF Fresh
  <2>8. proxy' = UpProxy(override'.allowed)
    BY <2>1, <2>2
  <2> QED BY <2>1, <2>2, <2>6, <2>7, <2>8 DEF Undisturbed, Participants
<1>8. CASE Succeed \/ Fail
  BY <1>8 DEF Succeed, Fail
<1>9. CASE Others
  BY <1>9, OthersFacts
<1>10. CASE UNCHANGED vars
  BY <1>10 DEF vars, files, docker, script, ghosts, Undisturbed, Participants, KeysOf, Current,
               UpProxy
<1> QED
  BY <1>1, <1>2, <1>3, <1>4, <1>5, <1>6, <1>7, <1>8, <1>9, <1>10 DEF Next, Setup

\* What it means that everything is settled, node by node.
LEMMA SettledFacts ==
  ASSUME Types
  PROVE  Settled <=> /\ override = Generated(Participants, Manual \cup KeysOf(Participants))
                     /\ proxy = UpProxy(override.allowed)
                     /\ \A s \in Participants : box[s] = Fresh(s, "proxied")
<1>1. ASSUME NEW s \in Participants
      PROVE  box = Up(s, "proxied") <=> box[s] = Fresh(s, "proxied")
  BY FileFacts DEF Up, Fresh, Types
<1>2. KeysOf(Participants) = {Key(s, identity[s]) : s \in Participants}
  BY DEF KeysOf, Current
<1> QED
  BY <1>1, <1>2 DEF Settled

\* A settled deployment stays so while nothing of it changes.
LEMMA SettledStays ==
  ASSUME Settled, UNCHANGED <<base, identity, override, box, proxy>>
  PROVE  Settled'
  BY DEF Settled, Participants, Up

\* Of a generated file, its clients and its allowlist are all there is.
LEMMA GeneratedFacts ==
  ASSUME NEW o \in File, o.kind = "generated"
  PROVE  o = Generated(o.clients, o.allowed)
  BY DEF File, Generated

LEMMA UntouchedStep ==
  Types /\ Discovered /\ Undisturbed /\ Untouched /\ [Next]_vars => Untouched'
<1> SUFFICES ASSUME Types, Discovered, Undisturbed, Untouched, [Next]_vars,
                    Running', calm', settled', ~ silent'
             PROVE  Untouched'
  BY DEF Untouched
<1> USE DEF Running
<1>1. CASE Begin
  <2>1. /\ Settled /\ restarted' = {} /\ misread' = {} /\ pc' = "proxy"
        /\ UNCHANGED <<base, identity, override, box, proxy>>
        /\ previous' = Filtered(override)
    BY <1>1 DEF Begin, files, docker
  <2>2. previous'.kind = override.kind /\ previous'.allowed = override.allowed
    BY <2>1 DEF Filtered, Types, File
  <2>3. override.kind = "generated"
    BY <2>1 DEF Settled, Generated
  <2> QED BY <2>1, <2>2, <2>3, SettledStays DEF Untouched
<1> SUFFICES ASSUME Running, calm, settled, ~ silent PROVE Untouched'
  <2>1. CASE Others
    BY <2>1, OthersFacts
  <2>2. ASSUME Setup, ~ Begin
        PROVE  Running /\ (calm' <=> calm) /\ (settled' <=> settled) /\ (silent \/ silent' <=> silent')
    <3>1. ASSUME NEW s \in Nodes, Bootstrap(s)
          PROVE  Running /\ (calm' <=> calm) /\ (settled' <=> settled) /\ silent'
      BY <3>1 DEF Bootstrap
    <3>2. ASSUME NEW s \in Nodes, ReadKey(s) \/ AwaitKey(s) \/ ApplyNode(s)
          PROVE  Running /\ (calm' <=> calm) /\ (settled' <=> settled) /\ (silent' <=> silent)
      <4>1. Running /\ UNCHANGED <<calm, settled, silent>>
        BY <3>2 DEF ReadKey, AwaitKey, ApplyNode
      <4> QED BY <4>1
    <3>3. ASSUME StartProxy \/ Save \/ ApplyProxy
          PROVE  Running /\ (calm' <=> calm) /\ (settled' <=> settled) /\ (silent' <=> silent)
      <4>1. Running /\ UNCHANGED <<calm, settled, silent>>
        BY <3>3 DEF StartProxy, Save, ApplyProxy
      <4> QED BY <4>1
    <3>4. CASE Succeed \/ Fail
      BY <3>4 DEF Succeed, Fail, ghosts
    <3> QED BY <2>2, <3>1, <3>2, <3>3, <3>4 DEF Setup
  <2>3. CASE UNCHANGED vars
    <3>1. pc' = pc /\ (calm' <=> calm) /\ (settled' <=> settled) /\ (silent' <=> silent)
      BY <2>3 DEF vars, script, ghosts
    <3> QED BY <3>1
  <2> QED BY <1>1, <2>1, <2>2, <2>3 DEF Next
<1>2. /\ Settled /\ restarted = {} /\ misread = {} /\ pc # "await"
      /\ pc = "proxy" => previous.kind = "generated" /\ previous.allowed = override.allowed
      /\ clients = Participants
  BY DEF Untouched, Undisturbed
<1>3. /\ override = Generated(clients, Manual \cup KeysOf(clients))
      /\ proxy = UpProxy(override.allowed)
      /\ \A s \in clients : box[s] = Fresh(s, "proxied")
  BY <1>2, SettledFacts
<1>4. override.kind = "generated" /\ override.clients = clients
  BY <1>3 DEF Generated
<1>5. CASE StartProxy
  <2>1. /\ pc = "proxy" /\ pc' = "read" /\ proxy' = UpProxy(AllowedBy(previous))
        /\ restarted' = restarted \cup ReplacedProxy(proxy')
        /\ UNCHANGED <<base, identity, override, box, misread>>
    BY <1>5 DEF StartProxy, files
  <2>2. proxy' = proxy
    BY <2>1, <1>2, <1>3 DEF AllowedBy
  <2>3. ReplacedProxy(proxy') = {}
    BY <2>2 DEF ReplacedProxy
  <2> QED BY <1>2, <2>1, <2>2, <2>3, SettledStays DEF Untouched
<1>6. ASSUME NEW s \in Nodes, ReadKey(s) PROVE Untouched'
  <2>1. /\ pc = "read" /\ pc' = "read" /\ s \in todo
        /\ misread' = IF box[s].id = identity[s] THEN misread \ {s} ELSE misread \cup {s}
        /\ UNCHANGED <<base, identity, override, box, proxy, restarted>>
    BY <1>6 DEF ReadKey, Discovers, files, docker
  <2>2. box[s] = Fresh(s, "proxied")
    BY <2>1, <1>3 DEF Types
  <2>3. box[s].id = identity[s]
    BY <2>2 DEF Fresh
  <2> QED BY <1>2, <2>1, <2>3, SettledStays DEF Untouched
<1>7. ASSUME NEW s \in Nodes, Bootstrap(s) \/ AwaitKey(s) PROVE FALSE
  BY <1>2, <1>7 DEF Bootstrap, AwaitKey
<1>8. CASE Save
  <2>1. /\ pc = "read" /\ pc' = "apply" /\ todo = {} /\ override' = Generated(clients, allowed)
        /\ UNCHANGED <<base, identity, box, proxy, misread, restarted>>
    BY <1>8 DEF Save, docker
  <2>2. allowed = Manual \cup KeysOf(clients)
    BY <1>2, <2>1 DEF Undisturbed
  <2>3. override' = override
    BY <1>3, <2>1, <2>2
  <2> QED BY <1>2, <2>1, <2>3, SettledStays DEF Untouched
<1>9. CASE ApplyProxy
  <2>1. /\ pc' = "nodes" /\ proxy' = UpProxy(AllowedBy(override))
        /\ restarted' = restarted \cup ReplacedProxy(proxy')
        /\ UNCHANGED <<base, identity, override, box, misread>>
    BY <1>9 DEF ApplyProxy, files
  <2>2. proxy' = proxy
    BY <2>1, <1>3, <1>4 DEF AllowedBy
  <2>3. ReplacedProxy(proxy') = {}
    BY <2>2 DEF ReplacedProxy
  <2> QED BY <1>2, <2>1, <2>2, <2>3, SettledStays DEF Untouched
<1>10. ASSUME NEW s \in Nodes, ApplyNode(s) PROVE Untouched'
  <2>1. /\ pc = "nodes" /\ pc' = "nodes" /\ s \in todo /\ box' = Up(s, ModeBy(override, s))
        /\ restarted' = restarted \cup Replaced(box')
        /\ UNCHANGED <<base, identity, override, proxy, misread>>
    BY <1>10 DEF ApplyNode, files
  <2>2. s \in clients
    BY <2>1 DEF Types
  <2>3. box' = box
    BY <1>2, <1>4, <2>1, <2>2 DEF ModeBy, Settled
  <2>4. Replaced(box') = {}
    BY <2>3 DEF Replaced
  <2> QED BY <1>2, <2>1, <2>3, <2>4, SettledStays DEF Untouched
<1>11. CASE Succeed \/ Fail
  BY <1>11 DEF Succeed, Fail
<1>12. CASE UNCHANGED vars
  <2>1. UNCHANGED <<base, identity, override, box, proxy, pc, previous, restarted, misread>>
    BY <1>12 DEF vars, files, docker, script, ghosts
  <2> QED BY <1>2, <2>1, SettledStays DEF Untouched
<1>13. CASE Others
  BY <1>13, OthersFacts
<1> QED
  BY <1>1, <1>5, <1>6, <1>7, <1>8, <1>9, <1>10, <1>11, <1>12, <1>13 DEF Next, Setup

------------------------------------------------------------------------------
LEMMA InitInv == Init => Inv
<1> SUFFICES ASSUME Init PROVE Inv
  OBVIOUS
<1>1. Types
  <2>1. NoBox \in Box /\ NoFile \in File /\ UserFile \in File
    BY DEF Box, NoBox, File, NoFile, UserFile
  <2>2. identity \in [Nodes -> Nat \ {0}] /\ box \in [Nodes -> Box]
    BY <2>1 DEF Init
  <2>3. proxy \in [run : BOOLEAN, allowed : SUBSET AllKeys]
    BY DEF Init
  <2> QED BY <2>1, <2>2, <2>3 DEF Init, Types
<1>2. Identities
  BY DEF Init, Identities, Held, NoBox, NoFile, UserFile, Current
<1>3. Discovered /\ Undisturbed /\ Untouched
  BY DEF Init, Discovered, Undisturbed, Untouched, Running
<1>4. OverrideKept /\ StillAllowed /\ RewiredIsAllowed
  BY DEF Init, OverrideKept, StillAllowed, RewiredIsAllowed, NoFile, UserFile
<1> QED
  BY <1>1, <1>2, <1>3, <1>4 DEF Inv

LEMMA NextInv == Inv /\ [Next]_vars => Inv'
  BY TypesStep, IdentitiesStep, DiscoveredStep, OverrideKeptStep, StillAllowedStep, RewiredStep,
     UndisturbedStep, UntouchedStep DEF Inv

THEOREM Invariant == Spec => []Inv
  BY InitInv, NextInv, PTL DEF Spec

\* However often the setup is run, and wherever it stops, a node whose endpoint it sends
\* through the proxy has the key it will start with on the allowlist it saved.
THEOREM RewiredTheorem == Spec => []RewiredIsAllowed
<1>1. Inv => RewiredIsAllowed
  BY DEF Inv
<1> QED
  BY Invariant, <1>1, PTL

\* Discovery brings the proxy up with the previous allowlist, applying with the new one:
\* each still has the key of every node that runs through the proxy.
THEOREM LockOutTheorem == Spec => NeverLocksOut
<1> DEFINE Kept(s) ==
      /\ box[s] = Up(s, "proxied")[s] /\ box'[s] = box[s]
      /\ proxy.run /\ Key(s, identity[s]) \in proxy.allowed
      /\ s \in Participants
      => Key(s, identity[s]) \in proxy'.allowed
<1>1. ASSUME Inv, Setup, NEW s \in override.clients \ misread PROVE Kept(s)
  <2>1. CASE StartProxy
    BY <1>1, <2>1 DEF StartProxy, UpProxy, AllowedBy, Inv, OverrideKept, StillAllowed, Current
  <2>2. CASE ApplyProxy
    BY <1>1, <2>2 DEF ApplyProxy, UpProxy, AllowedBy, Inv, OverrideKept, StillAllowed, Current
  <2>3. CASE ~ StartProxy /\ ~ ApplyProxy
    <3>1. proxy' = proxy
      BY <1>1, <2>3 DEF Setup, Begin, Save, Succeed, Fail, ReadKey, Bootstrap, AwaitKey, ApplyNode,
                        docker
    <3> QED BY <3>1
  <2> QED BY <2>1, <2>2, <2>3
<1>2. Inv /\ [Next]_vars =>
        [Setup => \A s \in override.clients \ misread : Kept(s)]_vars
  BY <1>1
<1> QED
  BY Invariant, <1>2, PTL DEF Spec, NeverLocksOut

\* A run that nobody disturbed ends in the settled deployment it set out for.
THEOREM CompleteTheorem == Spec => SuccessIsComplete
<1>1. ASSUME Inv, Succeed, calm, misread \cap clients = {} PROVE Settled
  <2>1. pc = "nodes" /\ todo = {}
    BY <1>1 DEF Succeed
  <2>2. misread = {}
    BY <1>1, <2>1 DEF Inv, Discovered, Running
  <2>3. /\ clients = Participants /\ override.kind = "generated" /\ override.clients = clients
        /\ override.allowed = Manual \cup KeysOf(clients) /\ proxy = UpProxy(override.allowed)
        /\ \A s \in clients : box[s] = Fresh(s, "proxied")
    BY <1>1, <2>1, <2>2 DEF Inv, Undisturbed, Running, Fresh
  <2>4. override = Generated(override.clients, override.allowed)
    BY <1>1, <2>3, GeneratedFacts DEF Inv, Types
  <2>5. Types
    BY <1>1 DEF Inv
  <2> QED BY <2>3, <2>4, <2>5, SettledFacts
<1>2. Inv /\ [Next]_vars => [Succeed /\ calm /\ misread \cap clients = {} => Settled]_vars
  BY <1>1
<1> QED
  BY Invariant, <1>2, PTL DEF Spec, SuccessIsComplete

\* A run that found the deployment settled, and every node awake, has replaced nothing.
THEOREM UntouchedTheorem == Spec => UnchangedIsNotRestarted
<1>1. Inv /\ [Next]_vars => [Succeed /\ calm /\ settled /\ ~ silent => restarted = {}]_vars
  BY DEF Inv, Untouched, Running, Succeed
<1> QED
  BY Invariant, <1>1, PTL DEF Spec, UnchangedIsNotRestarted
==============================================================================
