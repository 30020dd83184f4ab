------------------------------- MODULE Fleet -------------------------------
(***************************************************************************)
(* Two managers and a dashboard.  A node runs on a peer; the hub caches    *)
(* the peer's listing (manager/manager.py: fetch_peer, forward, views,     *)
(* Handler.relay); the dashboard (manager/app.js) reads the hub's cache    *)
(* and sends actions through the hub.  A row has come through three caches *)
(* and three kinds of requests, any of which may be late or lost.          *)
(*                                                                         *)
(* The cache of each manager does here what CacheContract says; that the   *)
(* collector keeps that contract is checked in CollectorRefines.  What the *)
(* hub fetches is a snapshot of the peer's view, what the dashboard reads  *)
(* is one of the hub's, and `seen` counts the changes of the node that the *)
(* sample behind it has seen.                                              *)
(***************************************************************************)
EXTENDS Naturals, FiniteSets

CONSTANTS Actions,    \* starts, stops and restarts of the node, each made at most once
          MaxReads,   \* bound: requests of the dashboard in flight at once
          MaxFaults   \* bound: lost answers, failed samples and fetches, restarts

VARIABLES
    version,    \* how often the node has changed, from 1
    floor,      \* the next sample of the peer to land has seen at least this
    peer,       \* the peer's cached view of the node: sure unless it is tagged pending
                \* (a sample is under way, or was asked for) or failed (the last one was)
    fetch,      \* the hub's request to the peer, if one is under way
    hub,        \* the hub's copy of it, tagged as its own fetching goes as well
    action,     \* click -> where it is, and the version it has made
    row,        \* what the dashboard shows: a view of the hub's
    busy,       \* state.busy
    reads,      \* the dashboard's requests for the listing
    faults

node      == <<version, floor, peer>>
managers  == <<node, fetch, hub>>
dashboard == <<row, busy, reads>>
vars      == <<managers, action, dashboard, faults>>

NoView  == [seen |-> 0, sure |-> FALSE]
NoFetch == [sent |-> FALSE, view |-> NoView, outdated |-> FALSE]

Init ==
    /\ version = 1 /\ floor = 1
    /\ peer = NoView /\ fetch = NoFetch /\ hub = NoView
    /\ action = [a \in Actions |-> [pc |-> "new", goal |-> 0]]
    /\ row = NoView /\ busy = FALSE /\ reads = {}
    /\ faults = 0

Fault == faults < MaxFaults /\ faults' = faults + 1

At(pc)             == {a \in Actions : action[a].pc = pc}
Moves(a, from, to) == action[a].pc = from /\ action' = [action EXCEPT ![a].pc = to]
Answered(as, to)   == [a \in Actions |-> IF a \in as THEN [action[a] EXCEPT !.pc = to]
                                                     ELSE action[a]]

------------------------------------------------------------------------------
(* The peer: its cache keeps the contract *)

\* A plain client of the peer, its user, or an action whose answer the hub gave up on.
SomebodyActs(a) ==
    /\ Moves(a, "new", "over")
    /\ version' = version + 1
    /\ UNCHANGED <<floor, peer, fetch, hub, dashboard, faults>>

\* power(): a sample that began earlier is outdated, and Docker acts ...
PeerActs(a) ==
    /\ action[a].pc = "forwarded"
    /\ version' = version + 1
    /\ floor' = version
    /\ action' = [action EXCEPT ![a] = [pc |-> "acted", goal |-> version']]
    /\ UNCHANGED <<peer, fetch, hub, dashboard, faults>>

\* ... and so is one that began before it was done; another is asked for.
PeerAsks(a) ==
    /\ Moves(a, "acted", "sampling")
    /\ floor' = version
    /\ peer' = [peer EXCEPT !.sure = FALSE]
    /\ UNCHANGED <<version, fetch, hub, dashboard, faults>>

\* A sample begins, on schedule or not: the view is tagged until it has landed.
PeerBegins ==
    /\ peer.sure
    /\ peer' = [peer EXCEPT !.sure = FALSE]
    /\ UNCHANGED <<version, floor, fetch, hub, action, dashboard, faults>>

\* It lands, and answers those who wait for it; the next begins after it.
PeerLands ==
    /\ ~ peer.sure
    /\ \E seen \in floor..version :
          peer' = [seen |-> seen, sure |-> TRUE]
    /\ floor' = version
    /\ action' = Answered(At("sampling"), "answered")
    /\ UNCHANGED <<version, fetch, hub, dashboard, faults>>

\* It fails: the last good data stays, and the view says so.
PeerFails ==
    /\ Fault /\ ~ peer.sure
    /\ floor' = version
    /\ action' = Answered(At("sampling"), "answered")
    /\ UNCHANGED <<version, peer, fetch, hub, dashboard>>

\* 202: the action is done, its sample is still to come.
PeerAnswersEarly(a) ==
    /\ Moves(a, "sampling", "answered")
    /\ UNCHANGED <<managers, dashboard, faults>>

\* The peer's manager restarts with an empty cache; nobody it served is answered.
PeerRestarts ==
    /\ Fault
    /\ peer' = NoView /\ floor' = version
    /\ action' = [a \in Actions |-> IF action[a].pc \in {"forwarded", "acted", "sampling"}
                                    THEN [pc |-> "failed", goal |-> 0] ELSE action[a]]
    /\ UNCHANGED <<version, fetch, hub, dashboard>>

------------------------------------------------------------------------------
(* The hub *)

\* relay(): no answer comes (502), whether the peer has carried the action out or not.
AnswerLost(a) ==
    /\ Fault
    /\ action[a].pc \in {"forwarded", "acted", "sampling", "answered"}
    /\ action' = [action EXCEPT ![a] = [pc |-> "failed", goal |-> 0]]
    /\ UNCHANGED <<managers, dashboard>>

\* Mutant: the listing is fetched as for a plain request.
FetchGoesOn == fetch

\* refresh_peer(invalidate=True): a fetch under way started too early.
Outdates == [fetch EXCEPT !.outdated = fetch.sent]

\* The answer is there: fetch the peer's listing again before passing it on.
Refetch(a) ==
    /\ Moves(a, "answered", "refetching")
    /\ fetch' = Outdates
    /\ hub' = [hub EXCEPT !.sure = FALSE]
    /\ UNCHANGED <<node, dashboard, faults>>

\* The fetch took longer than the hub waits for: the answer is passed on all the same.
RefetchLate(a) ==
    /\ Moves(a, "refetching", "done")
    /\ UNCHANGED <<managers, dashboard, faults>>

\* The hub asks for the listing, on its schedule or for a request, and tags its copy; the
\* peer answers from its cache, and the answer is still to arrive.
PeerReads ==
    /\ ~ fetch.sent
    /\ fetch' = [NoFetch EXCEPT !.sent = TRUE, !.view = peer]
    /\ hub' = [hub EXCEPT !.sure = FALSE]
    /\ UNCHANGED <<node, action, dashboard, faults>>

\* An outdated result is dropped; what lands answers those who wait.
Fetched(copy) ==
    /\ fetch' = NoFetch
    /\ IF fetch.outdated THEN UNCHANGED <<hub, action>>
       ELSE hub' = copy /\ action' = Answered(At("refetching"), "done")
    /\ UNCHANGED <<node, dashboard>>

FetchLands ==
    /\ fetch.sent
    /\ Fetched(fetch.view)
    /\ UNCHANGED faults

\* The peer does not answer: the last listing stays, with the error.
FetchFails == Fault /\ fetch.sent /\ Fetched(hub)

\* The hub restarts with an empty cache; nobody it served is answered.
HubRestarts ==
    /\ Fault
    /\ hub' = NoView /\ fetch' = NoFetch
    /\ action' = [a \in Actions |-> IF action[a].pc \in {"new", "done", "over"}
                                    THEN action[a] ELSE [pc |-> "failed", goal |-> 0]]
    /\ reads' = {r \in reads : r.got}
    /\ busy' = \E r \in reads' : r.newest
    /\ UNCHANGED <<node, row>>

------------------------------------------------------------------------------
(* The dashboard *)

\* runAction(): the hub relays the action.
Click(a) ==
    /\ Moves(a, "new", "forwarded")
    /\ UNCHANGED <<managers, dashboard, faults>>

\* refresh(): a request of a new generation; of the older ones only that they are older
\* matters from here on.
Requests ==
    /\ Cardinality(reads) < MaxReads
    /\ busy' = TRUE
    /\ reads' = {[r EXCEPT !.newest = FALSE] : r \in reads} \cup
                {[newest |-> TRUE, got |-> FALSE, view |-> NoView]}
    /\ UNCHANGED <<managers, row, faults>>

\* power(): the action has ended, well or not, and the page reloads in any case.
Reload(a) ==
    /\ Moves(a, "done", "over") \/ Moves(a, "failed", "over")
    /\ Requests

\* tick(): the automatic reload stands back while a request is under way.
AutoReload ==
    /\ ~ busy
    /\ Requests
    /\ UNCHANGED action

\* GET /api/nodes, answered from the hub's cache.
HubReads(r) ==
    /\ ~ r.got
    /\ reads' = (reads \ {r}) \cup {[r EXCEPT !.got = TRUE, !.view = hub]}
    /\ UNCHANGED <<managers, action, row, busy, faults>>

\* Mutants: any answer is shown; only an answer that is shown ends busy.
AnyIsCurrent(r)  == TRUE
StaysBusy(r, ok) == busy /\ ~ (r.newest /\ ok)

\* Only the newest request counts; it alone ends busy, however it ended.
IsCurrent(r)     == r.newest
StillBusy(r, ok) == busy /\ ~ r.newest

ReadLands(r) ==
    /\ r.got
    /\ reads' = reads \ {r}
    /\ row' = IF IsCurrent(r) THEN r.view ELSE row
    /\ busy' = StillBusy(r, TRUE)
    /\ UNCHANGED <<managers, action, faults>>

ReadFails(r) ==
    /\ Fault
    /\ reads' = reads \ {r}
    /\ busy' = StillBusy(r, FALSE)
    /\ UNCHANGED <<managers, action, row>>

------------------------------------------------------------------------------
Peer ==
    \/ PeerBegins \/ PeerLands \/ PeerFails \/ PeerRestarts
    \/ \E a \in Actions : SomebodyActs(a) \/ PeerActs(a) \/ PeerAsks(a) \/ PeerAnswersEarly(a)

Hub ==
    \/ PeerReads \/ FetchLands \/ FetchFails \/ HubRestarts
    \/ \E a \in Actions : AnswerLost(a) \/ Refetch(a) \/ RefetchLate(a)

Dashboard ==
    \/ AutoReload
    \/ \E a \in Actions : Click(a) \/ Reload(a)
    \/ \E r \in reads : HubReads(r) \/ ReadLands(r) \/ ReadFails(r)

Next == Peer \/ Hub \/ Dashboard

Spec == Init /\ [][Next]_vars

\* The peer samples and the hub fetches on a schedule of their own, the hub answers from
\* its memory, and the page reloads itself.  Nothing is owed to a click.
Fairness ==
    /\ WF_vars(PeerBegins) /\ WF_vars(PeerLands)
    /\ WF_vars(PeerReads) /\ WF_vars(FetchLands)
    /\ WF_vars(AutoReload)
    /\ WF_vars(\E r \in reads : HubReads(r)) /\ WF_vars(\E r \in reads : ReadLands(r))

FairSpec == Spec /\ Fairness

------------------------------------------------------------------------------
\* What a reload shows is of a sample from after every action that has been reported done,
\* or says that it is not: "pick the result up before answering so the dashboard's next read
\* shows it" (manager.py:1075), through all three caches, whatever else is under way, and
\* although the marks of an action are taken away by any forced reload (app.js:959).
SettledIsFresh ==
    [][ \A r \in reads : r.newest /\ ReadLands(r) =>
          \A a \in At("over") : row'.seen >= action[a].goal \/ ~ row'.sure ]_vars

\* A row never goes back to an older sample, however fetches, refetches and reloads cross:
\* at worst a manager that has restarted has none to show (app.js:953-957).
RowNeverGoesBack ==
    [][row'.seen >= row.seen \/ row'.seen = 0]_vars

\* Whatever is done to the node is shown in the end, by whomever it was done and however
\* many answers were lost, because nothing stays busy and every cache is filled again.
\* The tag is not part of it: each round of the schedule sets it anew.
ShownInTheEnd == <>[](row.seen = version)
==============================================================================
