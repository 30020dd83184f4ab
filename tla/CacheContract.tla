---------------------------- MODULE CacheContract ----------------------------
(***************************************************************************)
(* What the manager's cache promises to those who read it and to those who *)
(* wait for a sample (manager/manager.py, the docstrings of Collector,     *)
(* request() and abandon(); README, "How samples are taken"), without its  *)
(* threads, tickets, epochs, queue and schedule.                           *)
(*                                                                         *)
(* A reader sees the view of a key.  A view never goes back in time.  Who  *)
(* waits for a sample taken after a change is answered with one that was,  *)
(* with a failure, with a view that is pending again (the sampler died),   *)
(* or with none (the key is gone), and with nothing else.                  *)
(*                                                                         *)
(* One thing the code does not promise is allowed for: while a sample of a *)
(* forgotten key is still being taken the key is a stray, and if it is     *)
(* listed again meanwhile, that sample may land in its new view.           *)
(***************************************************************************)
EXTENDS Naturals, FiniteSets

CONSTANTS Keys, Handlers, NoKey

VARIABLES
    version,    \* key -> how often the node, or the peer, has changed
    view,       \* key -> what a reader of the cache is shown
    asked,      \* handler -> the key and the version it waits for, or Nobody
    stray       \* keys whose sample in flight belongs to a forgotten view

vars == <<version, view, asked, stray>>

Absent == [listed |-> FALSE, pending |-> FALSE, error |-> FALSE, seen |-> 0]
Listed == [Absent EXCEPT !.listed = TRUE, !.pending = TRUE]
Nobody == [key |-> NoKey, goal |-> 0]

Waiting(k)   == {h \in Handlers : asked[h].key = k}
Answered(hs) == [h \in Handlers |-> IF h \in hs THEN Nobody ELSE asked[h]]

Init ==
    /\ version = [k \in Keys |-> 0]
    /\ view = [k \in Keys |-> Absent]
    /\ asked = [h \in Handlers |-> Nobody]
    /\ stray = {}

\* Somebody starts, stops or restarts the node.
Change(k) ==
    /\ version' = [version EXCEPT ![k] = @ + 1]
    /\ UNCHANGED <<view, asked, stray>>

\* The listing changes: some keys are forgotten, some are new, and some are known
\* under another container.  Only those who wait for a forgotten key are answered.
Relist(gone, added, again) ==
    /\ \A k \in gone \cup again : view[k].listed
    /\ \A k \in added : ~ view[k].listed
    /\ view' = [k \in Keys |-> IF k \in gone THEN Absent
                               ELSE IF k \in added THEN Listed
                               ELSE IF k \in again THEN [view[k] EXCEPT !.pending = TRUE]
                               ELSE view[k]]
    /\ \E hs \in SUBSET UNION {Waiting(k) : k \in gone} : asked' = Answered(hs)
    /\ \E ks \in SUBSET gone : stray' = stray \cup ks
    /\ UNCHANGED version

\* A sample begins.
Begin(k) ==
    /\ view[k].listed
    /\ view' = [view EXCEPT ![k].pending = TRUE]
    /\ UNCHANGED <<version, asked, stray>>

\* Good data lands: not older than what is shown, and no older than what any of the
\* waiters it answers has asked for.
Deliver(k, seen, more, hs) ==
    /\ view[k].listed /\ seen >= view[k].seen
    /\ k \notin stray => \A h \in hs : seen >= asked[h].goal
    /\ view' = [view EXCEPT ![k].seen = seen, ![k].error = FALSE, ![k].pending = more]
    /\ asked' = Answered(hs)
    /\ stray' = stray \ {k}
    /\ UNCHANGED version

\* A failed sample keeps the last good data and says that it failed.
Fail(k, more, hs) ==
    /\ view[k].listed
    /\ view' = [view EXCEPT ![k].error = TRUE, ![k].pending = more]
    /\ asked' = Answered(hs)
    /\ stray' = stray \ {k}
    /\ UNCHANGED version

\* The sample comes to nothing: it is outdated and another one is queued, the sampler
\* has died and the view stays pending, or there is no view any more.
Drop(k, hs) ==
    /\ view' = IF view[k].listed THEN [view EXCEPT ![k].pending = TRUE] ELSE view
    /\ asked' = Answered(hs)
    /\ stray' = stray \ {k}
    /\ UNCHANGED version

Ask(h, k, goal) ==
    /\ asked[h] = Nobody /\ view[k].listed
    /\ asked' = [asked EXCEPT ![h] = [key |-> k, goal |-> goal]]
    /\ view' = [view EXCEPT ![k].pending = TRUE]
    /\ UNCHANGED <<version, stray>>

\* The handler's own deadline: it answers 202, and the view is pending for others.
GiveUp(h) ==
    /\ asked' = Answered({h})
    /\ UNCHANGED <<version, view, stray>>

Next ==
    \/ \E gone, added, again \in SUBSET Keys : Relist(gone, added, again)
    \/ \E k \in Keys :
          \/ Change(k) \/ Begin(k)
          \/ \E hs \in SUBSET Waiting(k) :
                \/ Drop(k, hs)
                \/ \E more \in BOOLEAN :
                      \/ Fail(k, more, hs)
                      \/ \E seen \in 0..version[k] : Deliver(k, seen, more, hs)
          \/ \E h \in Handlers, goal \in 0..version[k] : Ask(h, k, goal)
    \/ \E h \in Handlers : GiveUp(h)

Spec == Init /\ [][Next]_vars
==============================================================================
