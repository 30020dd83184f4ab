----------------------------- MODULE FleetProofs -----------------------------
(***************************************************************************)
(* Fleet's action properties, proved for any number of actions, reloads    *)
(* and faults: what the dashboard shows never goes back, and what it shows *)
(* without a tag has seen every action that was reported done.             *)
(***************************************************************************)
EXTENDS Fleet, TLAPS

View     == [seen : Nat, sure : BOOLEAN]
ReadType == [newest : BOOLEAN, got : BOOLEAN, view : View]

\* The way of an action that is carried out: from when the peer has asked for a sample, and
\* from when the hub has asked for the listing again.
Refetched == {"refetching", "done", "over"}
Asked     == {"sampling", "answered"} \cup Refetched
Phases    == {"new", "forwarded", "acted", "failed"} \cup Asked

Types ==
    /\ version \in Nat /\ floor \in Nat /\ floor <= version
    /\ peer \in View /\ hub \in View /\ row \in View
    /\ fetch \in [sent : BOOLEAN, view : View, outdated : BOOLEAN]
    /\ action \in [Actions -> [pc : Phases, goal : Nat]]
    /\ reads \subseteq ReadType

\* `generation` tells one request of the dashboard from all the others.
OneNewest == \A r, s \in reads : r.newest /\ s.newest => r = s

\* The answer the dashboard is about to show, if it is there.
Answers == {r \in reads : r.newest /\ r.got}

\* What a view w may follow in a row: nothing newer, unless its manager has restarted.
NotOlder(v, w) == v.seen <= w.seen \/ w.seen = 0

\* Everything further up, peer, fetch and hub, and the next sample to land, is not older.
UpToPeer(v)  == v.seen <= floor /\ NotOlder(v, peer)
UpToFetch(v) == UpToPeer(v) /\ (fetch.sent => NotOlder(v, fetch.view))
UpToHub(v)   == UpToFetch(v) /\ NotOlder(v, hub)

Ordered ==
    /\ peer.seen <= floor
    /\ fetch.sent => UpToPeer(fetch.view)
    /\ UpToFetch(hub)
    /\ \A r \in Answers : UpToHub(r.view) /\ NotOlder(row, r.view)
    /\ UpToHub(row)

\* A view without a tag has seen every action that has come to one of these phases.
Sees(v, phases) ==
    \A a \in Actions : action[a].pc \in phases => action[a].goal <= v.seen \/ ~ v.sure

Reported ==
    /\ \A a \in Actions : /\ action[a].goal <= version
                          /\ action[a].pc \in Asked => action[a].goal <= floor
                          /\ action[a].pc \in {"new", "forwarded", "failed"} =>
                                action[a].goal = 0
    /\ Sees(peer, Asked)
    /\ fetch.sent /\ ~ fetch.outdated => Sees(fetch.view, Refetched)
    /\ Sees(hub, Refetched)
    /\ \A r \in Answers : Sees(r.view, {"over"})

Inv == Types /\ OneNewest /\ Ordered /\ Reported

\* Two empty managers and an empty page satisfy the invariant.
LEMMA InitInv == Init => Inv
  BY DEF Init, Inv, Types, View, ReadType, Phases, OneNewest, Ordered, Answers, UpToPeer, UpToFetch,
     UpToHub, NotOlder, Reported, Sees, NoView, NoFetch, Asked, Refetched

\* A view that is tagged keeps what it has seen.
LEMMA Tagged ==
  ASSUME NEW v \in View
  PROVE  LET w == [v EXCEPT !.sure = FALSE] IN w \in View /\ w.seen = v.seen /\ ~ w.sure
  BY DEF View

\* Answering actions, or moving one of them on, keeps goals and moves nobody else.
LEMMA AnsweredType ==
  ASSUME Types, NEW as, NEW to \in Phases
  PROVE  Answered(as, to) \in [Actions -> [pc : Phases, goal : Nat]]
  <1>1. \A a \in Actions : [action[a] EXCEPT !.pc = to] \in [pc : Phases, goal : Nat]
    BY DEF Types
  <1> QED
    BY <1>1 DEF Answered, Types

\* A new request of the dashboard is the newest, and has no answer yet.
LEMMA RequestsFacts ==
  ASSUME Types, Requests
  PROVE  reads' \subseteq ReadType /\ OneNewest' /\ Answers' = {}
  <1> DEFINE fresh == [newest |-> TRUE, got |-> FALSE, view |-> NoView]
  <1>1. \A r \in reads : LET s == [r EXCEPT !.newest = FALSE] IN s \in ReadType /\ ~ s.newest
    BY DEF Types, ReadType
  <1>2. fresh \in ReadType /\ ~ fresh.got
    BY DEF ReadType, NoView, View
  <1>3. reads' = {[r EXCEPT !.newest = FALSE] : r \in reads} \cup {fresh}
    BY DEF Requests
  <1> HIDE DEF fresh
  <1>4. \A s \in reads' : s \in ReadType /\ (s.newest => s = fresh)
    BY <1>1, <1>2, <1>3
  <1> QED
    BY <1>2, <1>4 DEF OneNewest, Answers

\* A request that is answered is the same request.
LEMMA HubReadsFacts ==
  ASSUME Types, OneNewest, NEW r \in reads, HubReads(r)
  PROVE  LET s == [r EXCEPT !.got = TRUE, !.view = hub]
         IN  /\ reads' = (reads \ {r}) \cup {s} /\ s \in ReadType
             /\ s.newest = r.newest /\ s.got /\ s.view = hub
             /\ OneNewest'
  <1> DEFINE s == [r EXCEPT !.got = TRUE, !.view = hub]
  <1>1. s \in ReadType /\ s.newest = r.newest /\ s.got /\ s.view = hub
    BY DEF Types, ReadType
  <1>2. reads' = (reads \ {r}) \cup {s}
    BY DEF HubReads
  <1> HIDE DEF s
  <1>3. OneNewest'
    BY <1>1, <1>2 DEF OneNewest
  <1> QED
    BY <1>1, <1>2, <1>3 DEF s

\* Every step keeps the types: one case per action.
LEMMA NextTypes == Types /\ [Next]_vars => Types'
  <1> SUFFICES ASSUME Types, [Next]_vars PROVE Types'
    OBVIOUS
  <1> USE DEF Types, View, ReadType, Phases, Asked, Refetched, node, managers, dashboard, vars, Fault, Moves, Answered, NoView, NoFetch, Outdates
  <1>1. ASSUME NEW a \in Actions, SomebodyActs(a) PROVE Types'
    BY <1>1 DEF SomebodyActs
  <1>2. ASSUME NEW a \in Actions, PeerActs(a) PROVE Types'
    BY <1>2 DEF PeerActs
  <1>3. ASSUME NEW a \in Actions, PeerAsks(a) PROVE Types'
    BY <1>3, Tagged DEF PeerAsks
  <1>4. ASSUME PeerLands PROVE Types'
    BY <1>4 DEF PeerLands
  <1>5. ASSUME PeerFails PROVE Types'
    <2>1. action' \in [Actions -> [pc : Phases, goal : Nat]]
      <3> HIDE DEF Answered, Types
      <3> QED
        BY <1>5, AnsweredType DEF PeerFails
    <2> QED
      BY <1>5, <2>1, Tagged DEF PeerFails
  <1>6. ASSUME NEW a \in Actions, PeerAnswersEarly(a) PROVE Types'
    BY <1>6 DEF PeerAnswersEarly
  <1>7. ASSUME PeerRestarts PROVE Types'
    BY <1>7 DEF PeerRestarts
  <1>8. ASSUME NEW a \in Actions, AnswerLost(a) PROVE Types'
    BY <1>8 DEF AnswerLost
  <1>9. ASSUME NEW a \in Actions, Refetch(a) PROVE Types'
    BY <1>9 DEF Refetch
  <1>10. ASSUME NEW a \in Actions, RefetchLate(a) PROVE Types'
    BY <1>10 DEF RefetchLate
  <1>11. ASSUME PeerReads PROVE Types'
    BY <1>11 DEF PeerReads
  <1>12. ASSUME FetchLands PROVE Types'
    BY <1>12 DEF FetchLands, Fetched
  <1>13. ASSUME FetchFails PROVE Types'
    <2>1. action' \in [Actions -> [pc : Phases, goal : Nat]]
      <3> HIDE DEF Answered
      <3> QED
        BY <1>13, AnsweredType DEF FetchFails, Fetched
    <2> QED
      BY <1>13, <2>1, Tagged DEF FetchFails, Fetched
  <1>14. ASSUME HubRestarts PROVE Types'
    BY <1>14 DEF HubRestarts
  <1>15. ASSUME NEW a \in Actions, Click(a) PROVE Types'
    BY <1>15 DEF Click
  <1>16. ASSUME NEW a \in Actions, Reload(a) PROVE Types'
    BY <1>16, RequestsFacts DEF Reload, Requests
  <1>17. ASSUME AutoReload PROVE Types'
    BY <1>17, RequestsFacts DEF AutoReload, Requests
  <1>18. ASSUME NEW r \in reads, HubReads(r) PROVE Types'
    BY <1>18 DEF HubReads
  <1>19. ASSUME NEW r \in reads, ReadLands(r) PROVE Types'
    BY <1>19 DEF ReadLands
  <1>20. ASSUME NEW r \in reads, ReadFails(r) PROVE Types'
    BY <1>20 DEF ReadFails
  <1>22. ASSUME PeerBegins PROVE Types'
    BY <1>22, Tagged DEF PeerBegins
  <1>21. CASE UNCHANGED vars
    BY <1>21 DEF vars
  <1> QED
    BY <1>1, <1>2, <1>3, <1>4, <1>5, <1>6, <1>7, <1>8, <1>9, <1>10, <1>11, <1>12, <1>13, <1>14, <1>15, <1>16, <1>17, <1>18, <1>19, <1>20, <1>21, <1>22
       DEF Next, Peer, Hub, Dashboard

\* Every step leaves at most one newest request.
LEMMA NextOneNewest == Types /\ OneNewest /\ [Next]_vars => OneNewest'
  <1> SUFFICES ASSUME Types, OneNewest, [Next]_vars PROVE OneNewest'
    OBVIOUS
  <1> USE DEF OneNewest, node, managers, dashboard, vars, Fault, Moves, Answered, NoView, NoFetch
  <1>1. ASSUME NEW a \in Actions, SomebodyActs(a) PROVE OneNewest'
    BY <1>1 DEF SomebodyActs
  <1>2. ASSUME NEW a \in Actions, PeerActs(a) PROVE OneNewest'
    BY <1>2 DEF PeerActs
  <1>3. ASSUME NEW a \in Actions, PeerAsks(a) PROVE OneNewest'
    BY <1>3 DEF PeerAsks
  <1>4. ASSUME PeerLands PROVE OneNewest'
    BY <1>4 DEF PeerLands
  <1>5. ASSUME PeerFails PROVE OneNewest'
    BY <1>5 DEF PeerFails
  <1>6. ASSUME NEW a \in Actions, PeerAnswersEarly(a) PROVE OneNewest'
    BY <1>6 DEF PeerAnswersEarly
  <1>7. ASSUME PeerRestarts PROVE OneNewest'
    BY <1>7 DEF PeerRestarts
  <1>8. ASSUME NEW a \in Actions, AnswerLost(a) PROVE OneNewest'
    BY <1>8 DEF AnswerLost
  <1>9. ASSUME NEW a \in Actions, Refetch(a) PROVE OneNewest'
    BY <1>9 DEF Refetch
  <1>10. ASSUME NEW a \in Actions, RefetchLate(a) PROVE OneNewest'
    BY <1>10 DEF RefetchLate
  <1>11. ASSUME PeerReads PROVE OneNewest'
    BY <1>11 DEF PeerReads
  <1>12. ASSUME FetchLands PROVE OneNewest'
    BY <1>12 DEF FetchLands, Fetched
  <1>13. ASSUME FetchFails PROVE OneNewest'
    BY <1>13 DEF FetchFails, Fetched
  <1>14. ASSUME HubRestarts PROVE OneNewest'
    BY <1>14 DEF HubRestarts
  <1>15. ASSUME NEW a \in Actions, Click(a) PROVE OneNewest'
    BY <1>15 DEF Click
  <1>16. ASSUME NEW a \in Actions, Reload(a) PROVE OneNewest'
    BY <1>16, RequestsFacts DEF Reload
  <1>17. ASSUME AutoReload PROVE OneNewest'
    BY <1>17, RequestsFacts DEF AutoReload
  <1>18. ASSUME NEW r \in reads, HubReads(r) PROVE OneNewest'
    BY <1>18, HubReadsFacts
  <1>19. ASSUME NEW r \in reads, ReadLands(r) PROVE OneNewest'
    BY <1>19 DEF ReadLands
  <1>20. ASSUME NEW r \in reads, ReadFails(r) PROVE OneNewest'
    BY <1>20 DEF ReadFails
  <1>22. ASSUME PeerBegins PROVE OneNewest'
    BY <1>22 DEF PeerBegins
  <1>21. CASE UNCHANGED vars
    BY <1>21 DEF vars
  <1> QED
    BY <1>1, <1>2, <1>3, <1>4, <1>5, <1>6, <1>7, <1>8, <1>9, <1>10, <1>11, <1>12, <1>13, <1>14, <1>15, <1>16, <1>17, <1>18, <1>19, <1>20, <1>21, <1>22
       DEF Next, Peer, Hub, Dashboard

\* Every step keeps the views in order: what is filled from further up is not older than
\* anything further down, and what starts anew is empty.
LEMMA NextOrdered == Types /\ OneNewest /\ Ordered /\ [Next]_vars => Ordered'
  <1> SUFFICES ASSUME Types, OneNewest, Ordered, [Next]_vars PROVE Ordered'
    OBVIOUS
  <1> USE DEF Types, View, ReadType, OneNewest, Ordered, Answers, UpToPeer, UpToFetch, UpToHub, NotOlder, node, managers, dashboard, vars, Fault, Moves, Answered, NoView, NoFetch, Outdates, IsCurrent
  <1>1. ASSUME NEW a \in Actions, SomebodyActs(a) PROVE Ordered'
    BY <1>1 DEF SomebodyActs
  <1>2. ASSUME NEW a \in Actions, PeerActs(a) PROVE Ordered'
    BY <1>2 DEF PeerActs
  <1>3. ASSUME NEW a \in Actions, PeerAsks(a) PROVE Ordered'
    BY <1>3 DEF PeerAsks
  <1>4. ASSUME PeerLands PROVE Ordered'
    BY <1>4 DEF PeerLands
  <1>5. ASSUME PeerFails PROVE Ordered'
    BY <1>5 DEF PeerFails
  <1>6. ASSUME NEW a \in Actions, PeerAnswersEarly(a) PROVE Ordered'
    BY <1>6 DEF PeerAnswersEarly
  <1>7. ASSUME PeerRestarts PROVE Ordered'
    BY <1>7 DEF PeerRestarts
  <1>8. ASSUME NEW a \in Actions, AnswerLost(a) PROVE Ordered'
    BY <1>8 DEF AnswerLost
  <1>9. ASSUME NEW a \in Actions, Refetch(a) PROVE Ordered'
    BY <1>9 DEF Refetch
  <1>10. ASSUME NEW a \in Actions, RefetchLate(a) PROVE Ordered'
    BY <1>10 DEF RefetchLate
  <1>11. ASSUME PeerReads PROVE Ordered'
    BY <1>11 DEF PeerReads
  <1>12. ASSUME FetchLands PROVE Ordered'
    BY <1>12 DEF FetchLands, Fetched
  <1>13. ASSUME FetchFails PROVE Ordered'
    BY <1>13 DEF FetchFails, Fetched
  <1>14. ASSUME HubRestarts PROVE Ordered'
    BY <1>14 DEF HubRestarts
  <1>15. ASSUME NEW a \in Actions, Click(a) PROVE Ordered'
    BY <1>15 DEF Click
  <1>16. ASSUME NEW a \in Actions, Reload(a) PROVE Ordered'
    BY <1>16, RequestsFacts DEF Reload, Requests
  <1>17. ASSUME AutoReload PROVE Ordered'
    BY <1>17 DEF AutoReload, Requests
  <1>18. ASSUME NEW r \in reads, HubReads(r) PROVE Ordered'
    <2>1. /\ \A s \in Answers' : s \in Answers \/ s.view = hub
          /\ UNCHANGED <<peer, floor, fetch, hub, row>>
      BY <1>18, HubReadsFacts DEF HubReads
    <2>2. \A v : (UpToHub(v)' <=> UpToHub(v)) /\ (UpToFetch(v)' <=> UpToFetch(v))
      BY <2>1
    <2> HIDE DEF Answers, UpToHub
    <2> QED
      BY <2>1, <2>2 DEF UpToHub
  <1>19. ASSUME NEW r \in reads, ReadLands(r) PROVE Ordered'
    BY <1>19 DEF ReadLands
  <1>20. ASSUME NEW r \in reads, ReadFails(r) PROVE Ordered'
    BY <1>20 DEF ReadFails
  <1>22. ASSUME PeerBegins PROVE Ordered'
    BY <1>22 DEF PeerBegins
  <1>21. CASE UNCHANGED vars
    BY <1>21 DEF vars
  <1> QED
    BY <1>1, <1>2, <1>3, <1>4, <1>5, <1>6, <1>7, <1>8, <1>9, <1>10, <1>11, <1>12, <1>13, <1>14, <1>15, <1>16, <1>17, <1>18, <1>19, <1>20, <1>21, <1>22
       DEF Next, Peer, Hub, Dashboard

\* Every step keeps what is promised of a reported action: the peer tags its view when it asks
\* for a sample, the hub tags its own when it fetches again, and a fetch under way is outdated.
LEMMA NextReported == Types /\ OneNewest /\ Reported /\ [Next]_vars => Reported'
  <1> SUFFICES ASSUME Types, OneNewest, Reported, [Next]_vars PROVE Reported'
    OBVIOUS
  <1> USE DEF Types, View, ReadType, Reported, Sees, Answers, Phases, Asked, Refetched, At, node, managers, dashboard, vars, Fault, Moves, Answered, NoView, NoFetch, Outdates
  <1>1. ASSUME NEW a \in Actions, SomebodyActs(a) PROVE Reported'
    BY <1>1 DEF SomebodyActs
  <1>2. ASSUME NEW a \in Actions, PeerActs(a) PROVE Reported'
    BY <1>2 DEF PeerActs
  <1>3. ASSUME NEW a \in Actions, PeerAsks(a) PROVE Reported'
    BY <1>3 DEF PeerAsks
  <1>4. ASSUME PeerLands PROVE Reported'
    BY <1>4 DEF PeerLands
  <1>5. ASSUME PeerFails PROVE Reported'
    BY <1>5 DEF PeerFails
  <1>6. ASSUME NEW a \in Actions, PeerAnswersEarly(a) PROVE Reported'
    BY <1>6 DEF PeerAnswersEarly
  <1>7. ASSUME PeerRestarts PROVE Reported'
    BY <1>7 DEF PeerRestarts
  <1>8. ASSUME NEW a \in Actions, AnswerLost(a) PROVE Reported'
    BY <1>8 DEF AnswerLost
  <1>9. ASSUME NEW a \in Actions, Refetch(a) PROVE Reported'
    BY <1>9 DEF Refetch
  <1>10. ASSUME NEW a \in Actions, RefetchLate(a) PROVE Reported'
    BY <1>10 DEF RefetchLate
  <1>11. ASSUME PeerReads PROVE Reported'
    BY <1>11 DEF PeerReads
  <1>12. ASSUME FetchLands PROVE Reported'
    BY <1>12 DEF FetchLands, Fetched
  <1>13. ASSUME FetchFails PROVE Reported'
    BY <1>13 DEF FetchFails, Fetched
  <1>14. ASSUME HubRestarts PROVE Reported'
    BY <1>14 DEF HubRestarts
  <1>15. ASSUME NEW a \in Actions, Click(a) PROVE Reported'
    BY <1>15 DEF Click
  <1>16. ASSUME NEW a \in Actions, Reload(a) PROVE Reported'
    <2>1. Answers' = {} /\ UNCHANGED <<version, floor, peer, fetch, hub>>
      BY <1>16, RequestsFacts DEF Reload, Requests
    <2>2. \A b \in Actions :
            /\ action'[b].goal = action[b].goal
            /\ \/ action'[b].pc = action[b].pc
               \/ action[b].pc \in {"done", "failed"} /\ action'[b].pc = "over"
      BY <1>16 DEF Reload
    <2> QED
      BY <2>1, <2>2 DEF Answers
  <1>17. ASSUME AutoReload PROVE Reported'
    <2>1. Answers' = {} /\ UNCHANGED <<version, floor, peer, fetch, hub, action>>
      BY <1>17, RequestsFacts DEF AutoReload, Requests
    <2> QED
      BY <2>1 DEF Answers
  <1>18. ASSUME NEW r \in reads, HubReads(r) PROVE Reported'
    BY <1>18 DEF HubReads
  <1>19. ASSUME NEW r \in reads, ReadLands(r) PROVE Reported'
    BY <1>19 DEF ReadLands
  <1>20. ASSUME NEW r \in reads, ReadFails(r) PROVE Reported'
    BY <1>20 DEF ReadFails
  <1>22. ASSUME PeerBegins PROVE Reported'
    BY <1>22 DEF PeerBegins
  <1>21. CASE UNCHANGED vars
    BY <1>21 DEF vars
  <1> QED
    BY <1>1, <1>2, <1>3, <1>4, <1>5, <1>6, <1>7, <1>8, <1>9, <1>10, <1>11, <1>12, <1>13, <1>14, <1>15, <1>16, <1>17, <1>18, <1>19, <1>20, <1>21, <1>22
       DEF Next, Peer, Hub, Dashboard

------------------------------------------------------------------------------
\* The inductive invariant: types, which request is the newest, the order of the views
\* along the way, and what the views without a tag have seen.
THEOREM Invariant == Spec => []Inv
  <1>1. Inv /\ [Next]_vars => Inv'
    BY NextTypes, NextOneNewest, NextOrdered, NextReported DEF Inv
  <1> QED
    BY <1>1, InitInv, PTL DEF Spec

\* A row never goes back to an older sample (app.js:953-957, manager.py:668-697), for any
\* number of reloads, fetches and restarts that cross.
THEOREM ForwardTheorem == Spec => RowNeverGoesBack
  <1>1. Inv /\ [Next]_vars => [row'.seen >= row.seen \/ row'.seen = 0]_vars
    <2> SUFFICES ASSUME Inv, Next PROVE row'.seen >= row.seen \/ row'.seen = 0
      OBVIOUS
    <2>1. ASSUME NEW r \in reads, ReadLands(r) PROVE row'.seen >= row.seen \/ row'.seen = 0
      BY <2>1 DEF ReadLands, IsCurrent, Inv, Types, View, ReadType, Ordered, Answers, NotOlder
    <2>2. row' = row \/ \E r \in reads : ReadLands(r)
      BY DEF Next, Peer, Hub, Dashboard, node, managers, dashboard, SomebodyActs, PeerActs,
         PeerAsks, PeerBegins, PeerLands, PeerFails, PeerAnswersEarly, PeerRestarts, AnswerLost, Refetch,
         RefetchLate, PeerReads, FetchLands, FetchFails, Fetched, HubRestarts, Click, Reload,
         AutoReload, Requests, HubReads, ReadFails
    <2>3. row.seen >= row.seen
      BY DEF Inv, Types, View
    <2> QED
      BY <2>1, <2>2, <2>3
  <1> QED
    BY <1>1, Invariant, PTL DEF Spec, RowNeverGoesBack

\* What the page shows without a tag has seen every action that was reported done
\* (manager.py:1075), through all three caches, for any number of actions.
THEOREM SettledTheorem == Spec => SettledIsFresh
  <1>1. Inv => [ \A r \in reads : r.newest /\ ReadLands(r) =>
                   \A a \in At("over") : row'.seen >= action[a].goal \/ ~ row'.sure ]_vars
    BY DEF Inv, Types, View, ReadType, Reported, Sees, Answers, At, ReadLands, IsCurrent
  <1> QED
    BY <1>1, Invariant, PTL DEF SettledIsFresh
==============================================================================
