-------------------------- MODULE CollectorRefines --------------------------
(* The collector keeps the promises of CacheContract: what a reader sees of an *)
(* entry, what a waiting handler was promised, and a ghost of the code itself, *)
(* the sample in flight whose entry has been popped.                           *)
EXTENDS Collector

ShownView == [k \in Keys |->
    [listed  |-> k \in known,
     pending |-> k \in known /\ entries[k].pending,
     error   |-> k \in known /\ entries[k].error,
     seen    |-> IF k \in known THEN entries[k].data.seen ELSE 0]]

\* A plain request promises a sample, not one of its own (it joins the running one).
Promised == [h \in Handlers |->
    IF hpc[h] = "wait" THEN [key |-> req[h].key, goal |-> req[h].goal]
                       ELSE [key |-> NoKey, goal |-> 0]]

Strays == IF running.live THEN {} ELSE {running.key} \ {NoKey}

Contract == INSTANCE CacheContract
    WITH version <- changes, view <- ShownView, asked <- Promised, stray <- Strays

\* The cache keeps its contract (manager.py:365-378, 489-518, 563-583, 604-617): through
\* every interleaving of plans, samples, requests, actions and rounds that die, no view
\* goes back in time, nobody who asked for a sample from after an action is answered
\* with an older one, and nobody is released for another key or for nothing.
KeepsContract == Contract!Spec

==============================================================================
