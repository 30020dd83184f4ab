------------------------------ MODULE L2Setup ------------------------------
(***************************************************************************)
(* The automatic L2 proxy setup (configure_l2_proxy.py): it discovers the  *)
(* public key of every participating node, writes the proxy's allowlist    *)
(* and the nodes' endpoint to docker-compose.override.yml, and applies it. *)
(* A node that does not answer is started with a temporary direct RPC.     *)
(* Around it act the onboarding of a node (scripts/node_onboarding.py,     *)
(* which holds the same lock; its own steps are in Onboarding.tla), Docker *)
(* Compose, the dashboard's start and stop, and the user.                  *)
(*                                                                         *)
(* A public key is a pair of a node and the number of the identity it has. *)
(***************************************************************************)
EXTENDS Naturals, FiniteSets

CONSTANTS Nodes,      \* Compose services with ROLE=node on the proxy's network
          Manual,     \* keys the base file puts on the proxy's allowlist
          MaxIds,     \* bound: identities a node gets
          MaxRuns,    \* bound: runs of the setup
          MaxEvents   \* bound: what others do

VARIABLES
    base,       \* docker-compose.yml: node -> "absent", "auto", or opted "out"
    identity,   \* the identity in the data directory the base file names
    override,   \* docker-compose.override.yml
    box,        \* node -> its container
    proxy,      \* the proxy's container
    pc, clients, allowed, todo,     \* setup(): its place and its local variables
    previous,   \* the override the discovery works with, without removed nodes
    misread,    \* nodes whose key this run read from a container with another identity
    outdated,   \* the same, of the run that has saved the override
    restarted,  \* running containers this run has replaced
    calm,       \* nobody else did anything in this run
    silent,     \* a node had to be bootstrapped in this run
    settled,    \* the run found everything as it would leave it
    events, runs

files  == <<base, identity, override>>
docker == <<box, proxy>>
script == <<pc, clients, allowed, todo, previous>>
ghosts == <<misread, outdated, restarted, calm, silent, settled>>
vars   == <<files, docker, script, ghosts, events, runs>>

NoFile   == [kind |-> "none", clients |-> {}, allowed |-> {}]
UserFile == [kind |-> "user", clients |-> {}, allowed |-> {}]
Generated(cs, ks) == [kind |-> "generated", clients |-> cs, allowed |-> ks]

NoBox == [run |-> FALSE, mode |-> "none", id |-> 0]
Key(s, i) == <<s, i>>

Init ==
    /\ base \in [Nodes -> {"absent", "auto", "out"}]
    /\ identity = [s \in Nodes |-> 1]
    /\ override \in {NoFile, UserFile}
    /\ box = [s \in Nodes |-> NoBox]
    /\ proxy = [run |-> FALSE, allowed |-> {}]
    /\ pc = "idle" /\ clients = {} /\ allowed = {} /\ todo = {} /\ previous = NoFile
    /\ misread = {} /\ outdated = {} /\ restarted = {} /\ calm = FALSE /\ silent = FALSE /\ settled = FALSE
    /\ events = 0 /\ runs = 0

------------------------------------------------------------------------------
(* Compose: a container is replaced when its configuration differs *)

Participants == {s \in Nodes : base[s] = "auto"}
Present      == {s \in Nodes : base[s] # "absent"}

\* A file with a node the base file does not have is refused.
Valid(o) == o.clients \subseteq Present

\* What the proxy and a node are configured with under an override.
AllowedBy(o) == IF o.kind = "generated" THEN o.allowed ELSE Manual
ModeBy(o, s) == IF s \in o.clients THEN "proxied" ELSE "direct"

Up(s, mode) == [box EXCEPT ![s] = [run |-> TRUE, mode |-> mode, id |-> identity[s]]]
UpProxy(ks) == [run |-> TRUE, allowed |-> ks]

Replaced(boxes) == {s \in Nodes : box[s].run /\ boxes[s] # box[s]}
ReplacedProxy(p) == {"l2proxy" : x \in {y \in {proxy} : y.run /\ y # p}}

------------------------------------------------------------------------------
(* setup() *)

\* Mutants: the proxy loses its part too; the discovery works without the override; the
\* manual keys are dropped.
Stripped(o) == [o EXCEPT !.clients = @ \cap Participants, !.allowed = Manual]
Unread(o)   == NoFile
NoKeys      == {}

\* References to nodes that no longer take part are removed; the proxy's part stays.
Filtered(o) == [o EXCEPT !.clients = @ \cap Participants]
ManualKeys  == Manual

Settled ==
    /\ override = Generated(Participants, Manual \cup {Key(s, identity[s]) : s \in Participants})
    /\ proxy = UpProxy(override.allowed)
    /\ \A s \in Participants : box = Up(s, "proxied")

\* The lock is free, no user-maintained override, and somebody takes part.
Begin ==
    /\ pc = "idle" /\ runs < MaxRuns
    /\ override.kind # "user" /\ Participants # {}
    /\ pc' = "proxy" /\ runs' = runs + 1
    /\ clients' = Participants /\ allowed' = ManualKeys /\ todo' = {}
    /\ previous' = Filtered(override)
    /\ misread' = {} /\ restarted' = {} /\ calm' = TRUE /\ silent' = FALSE
    /\ settled' = Settled
    /\ UNCHANGED <<files, docker, outdated, events>>

\* The proxy is brought up as the previous override has it, to read its key.
StartProxy ==
    /\ pc = "proxy" /\ Valid(previous)
    /\ proxy' = UpProxy(AllowedBy(previous))
    /\ restarted' = restarted \cup ReplacedProxy(proxy')
    /\ pc' = "read" /\ todo' = clients
    /\ UNCHANGED <<files, box, clients, allowed, previous, outdated, misread, calm, silent, settled,
                   events, runs>>

Discovers(s) ==
    /\ box[s].run
    /\ allowed' = allowed \cup {Key(s, box[s].id)}
    /\ misread' = IF box[s].id = identity[s] THEN misread \ {s} ELSE misread \cup {s}
    /\ todo' = todo \ {s}

\* The nodes are asked in turn; in which order makes no difference.
ReadKey(s) ==
    /\ pc = "read" /\ s \in todo
    /\ Discovers(s)
    /\ UNCHANGED <<files, docker, pc, clients, previous, outdated, restarted, calm, silent, settled,
                   events, runs>>

\* It is down, or did not answer within five seconds: start it with direct RPC.
Bootstrap(s) ==
    /\ pc = "read" /\ s \in todo /\ s \in Present
    /\ box' = Up(s, "bootstrap")
    /\ restarted' = restarted \cup Replaced(box')
    /\ silent' = TRUE
    /\ pc' = "await"
    /\ UNCHANGED <<files, proxy, clients, allowed, todo, previous, outdated, misread, calm, settled,
                   events, runs>>

AwaitKey(s) ==
    /\ pc = "await" /\ s \in todo /\ box[s].mode = "bootstrap"
    /\ Discovers(s)
    /\ pc' = "read"
    /\ UNCHANGED <<files, docker, clients, previous, outdated, restarted, calm, silent, settled, events, runs>>

\* Every key is known and the candidate validates: it replaces the override at once.
Save ==
    /\ pc = "read" /\ todo = {} /\ clients \subseteq Present
    /\ override' = Generated(clients, allowed)
    /\ outdated' = misread
    /\ pc' = "apply"
    /\ UNCHANGED <<base, identity, docker, clients, allowed, todo, previous, misread,
                   restarted, calm, silent, settled, events, runs>>

\* up --wait: the proxy first, on whose health the nodes depend.
ApplyProxy ==
    /\ pc = "apply" /\ Valid(override)
    /\ proxy' = UpProxy(AllowedBy(override))
    /\ restarted' = restarted \cup ReplacedProxy(proxy')
    /\ pc' = "nodes" /\ todo' = clients
    /\ UNCHANGED <<files, box, clients, allowed, previous, outdated, misread, calm, silent, settled,
                   events, runs>>

ApplyNode(s) ==
    /\ pc = "nodes" /\ s \in todo /\ s \in Present
    /\ box' = Up(s, ModeBy(override, s))
    /\ restarted' = restarted \cup Replaced(box')
    /\ todo' = todo \ {s}
    /\ UNCHANGED <<files, proxy, pc, clients, allowed, previous, outdated, misread, calm, silent,
                   settled, events, runs>>

Succeed ==
    /\ pc = "nodes" /\ todo = {}
    /\ pc' = "idle"
    /\ UNCHANGED <<files, docker, clients, allowed, todo, previous, ghosts, events, runs>>

\* Compose fails, a key does not come, or the script is killed: what is done stays.
Fail ==
    /\ pc # "idle"
    /\ pc' = "idle" /\ todo' = {}
    /\ UNCHANGED <<files, docker, clients, allowed, previous, ghosts, events, runs>>

Setup ==
    \/ Begin \/ StartProxy \/ Save \/ ApplyProxy \/ Succeed \/ Fail
    \/ \E s \in Nodes : ReadKey(s) \/ Bootstrap(s) \/ AwaitKey(s) \/ ApplyNode(s)

------------------------------------------------------------------------------
(* Everybody else *)

Event ==
    /\ events < MaxEvents /\ events' = events + 1
    /\ calm' = FALSE
    /\ UNCHANGED <<script, misread, outdated, restarted, silent, settled, runs>>

\* Mutant: a node keeps its part of the override when it is onboarded anew.
Unpopped(o, s) == o

\* prepare(): the node's part of the override goes, the allowlist stays.
Popped(o, s) == [o EXCEPT !.clients = @ \ {s}]

\* A node is added, or edited: it takes part or not, and keeps its identity or imports
\* one.  It is stopped before the files are saved, and started by the user later.
Onboard(s, mode, imports) ==
    /\ Event
    /\ pc = "idle" /\ override.kind # "user" /\ Valid(override)
    /\ imports => identity[s] < MaxIds
    /\ base' = [base EXCEPT ![s] = mode]
    /\ identity' = [identity EXCEPT ![s] = IF imports THEN @ + 1 ELSE @]
    /\ override' = Popped(override, s)
    /\ box' = [box EXCEPT ![s].run = FALSE]
    /\ UNCHANGED proxy

\* The user takes a node out of the base file, its container removed.
RemoveNode(s) ==
    /\ Event
    /\ base[s] # "absent"
    /\ base' = [base EXCEPT ![s] = "absent"]
    /\ box' = [box EXCEPT ![s] = NoBox]
    /\ UNCHANGED <<identity, override, proxy>>

\* docker compose up -d, with the override if there is one.
ComposeUp ==
    /\ Event
    /\ Valid(override)
    /\ box' = [s \in Nodes |-> IF s \in Present THEN Up(s, ModeBy(override, s))[s] ELSE box[s]]
    /\ proxy' = IF override.kind = "generated" THEN UpProxy(override.allowed) ELSE proxy
    /\ UNCHANGED files

\* "To return to direct RPC, remove the generated override and run up" (README.md:251).
ReturnToDirect ==
    /\ Event
    /\ override' = NoFile
    /\ box' = [s \in Nodes |-> IF s \in Present THEN Up(s, "direct")[s] ELSE box[s]]
    /\ UNCHANGED <<base, identity, proxy>>

\* The user writes an override of their own, which the setup looks for only once.
WriteOverride ==
    /\ Event
    /\ override' = UserFile
    /\ UNCHANGED <<base, identity, docker>>

\* The dashboard starts and stops containers as they are.
StartOrStop(s) ==
    /\ Event
    /\ box[s].mode # "none"
    /\ box' = [box EXCEPT ![s].run = ~ @]
    /\ UNCHANGED <<files, proxy>>

Others ==
    \/ ComposeUp \/ ReturnToDirect \/ WriteOverride
    \/ \E s \in Nodes :
          \/ RemoveNode(s) \/ StartOrStop(s)
          \/ \E mode \in {"auto", "out"}, imports \in BOOLEAN : Onboard(s, mode, imports)

Next == Setup \/ Others

Spec == Init /\ [][Next]_vars

------------------------------------------------------------------------------
\* Whatever the setup and the onboarding make of the override, and wherever they fail, a
\* node it sends through the proxy takes part, and the identity it will start with is on
\* the allowlist: "reciprocal L2 configuration" (configure_l2_proxy.py:2).  Except a node
\* whose key was read from a container that still ran with a former identity.
RewiredIsAllowed ==
    \A s \in override.clients \ outdated :
        /\ Key(s, identity[s]) \in override.allowed
        /\ base[s] # "out" /\ Manual \subseteq override.allowed

\* No step of a run locks out a node that runs through the proxy, as the override says:
\* not while keys are discovered, not on the way to a failure, and not in the run after
\* one that failed (configure_l2_proxy.py:121-135).
NeverLocksOut ==
    [][ Setup => \A s \in override.clients \ misread :
          /\ box[s] = Up(s, "proxied")[s] /\ box'[s] = box[s]
          /\ proxy.run /\ Key(s, identity[s]) \in proxy.allowed
          /\ s \in Participants
          => Key(s, identity[s]) \in proxy'.allowed ]_vars

\* What a run that reports success stands for, unless somebody else meddled: no direct
\* RPC is left on a participating node, whether it was bootstrapped in this run or in one
\* that failed, and the proxy lets in exactly these nodes and the manual keys.
SuccessIsComplete ==
    [][Succeed /\ calm /\ misread \cap clients = {} => Settled]_vars

\* "Unchanged, running deployments are not restarted" (README.md:241), when every node
\* answers the setup's request.
UnchangedIsNotRestarted ==
    [][Succeed /\ calm /\ settled /\ ~ silent => restarted = {}]_vars
==============================================================================
