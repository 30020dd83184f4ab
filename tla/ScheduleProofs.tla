---------------------------- MODULE ScheduleProofs ----------------------------
(***************************************************************************)
(* The schedule, proved of Schedule for any number of services, any        *)
(* interval that they divide, and any cooldown and bounds: a key that      *)
(* waits for its turn waits for a slot of its own, which is never one that *)
(* was already over; and a key whose rounds nothing has disturbed since    *)
(* its last sample turns stale only if more samples were asked for since   *)
(* then than fit into an interval.                                         *)
(***************************************************************************)
EXTENDS Schedule, FiniteSetTheorems, TLAPS

\* A layout covers the known keys, and a key without a sample waits for no slot of it.
LaidOut ==
    /\ order = known
    /\ \A k \in known \ tried : pending[k]

\* Only known keys are queued.
OnlyKnown == forced \subseteq known

\* The rounds of a key: its slot in a layout, and that slot a number of intervals later.
OnGrid(d, k, keys, from) ==
    /\ d >= Slot(k, keys, from)
    /\ (d - Slot(k, keys, from)) % Interval = 0

\* A key that waits for its schedule waits for one of its rounds.
Slotted == \A k \in known : ~ pending[k] => OnGrid(due[k], k, order, origin)

Past == \A k \in Keys : landed[k] <= now

Inv == TypeOK /\ LaidOut /\ OnlyKnown /\ Slotted /\ Past /\ NoCatchUp

------------------------------------------------------------------------------
(* Arithmetic *)

LEMMA Divides ==
  ASSUME NEW i \in Nat \ {0}, NEW c \in Nat \ {0}, i % c = 0
  PROVE  i = c * (i \div c) /\ i \div c \in Nat \ {0}
  OBVIOUS

LEMMA Quotient ==
  ASSUME NEW x \in Nat, NEW i \in Nat \ {0}
  PROVE  x = (x \div i) * i + (x % i) /\ x % i \in 0..(i - 1) /\ x \div i \in Nat
  OBVIOUS

LEMMA Multiple ==
  ASSUME NEW q \in Nat, NEW i \in Nat \ {0}
  PROVE  (q * i) % i = 0
  OBVIOUS

\* Two different places of c, a step of w apart, never meet, however many rounds later.
LEMMA PlacesApart ==
  ASSUME NEW c \in Nat \ {0}, NEW w \in Nat \ {0}, NEW a \in 1..c, NEW b \in 1..c, a < b,
         NEW p \in Nat, NEW q \in Nat
  PROVE  a * w + p * (c * w) # b * w + q * (c * w)
  OBVIOUS

------------------------------------------------------------------------------
(* Slots *)

Rank(k, keys)  == Cardinality({j \in keys : j <= k})
Width(keys)    == Interval \div Cardinality(keys)

\* The keys of a layout divide the interval evenly.
LEMMA WidthFacts ==
  ASSUME NEW keys \in SUBSET Keys, keys # {}
  PROVE  /\ IsFiniteSet(keys) /\ Cardinality(keys) \in 1..N
         /\ Width(keys) \in Nat \ {0} /\ Interval = Cardinality(keys) * Width(keys)
<1>1. IsFiniteSet(Keys) /\ Cardinality(Keys) = N
  BY FS_Interval, TimeAssumption DEF Keys
<1>2. IsFiniteSet(keys) /\ Cardinality(keys) <= N /\ Cardinality(keys) \in Nat
  BY <1>1, FS_Subset, FS_CardinalityType
<1>3. Cardinality(keys) # 0
  BY <1>2, FS_EmptySet
<1>4. Cardinality(keys) \in 1..N
  BY <1>2, <1>3, TimeAssumption
<1>5. Interval % Cardinality(keys) = 0 /\ Interval \in Nat \ {0}
  BY <1>4, TimeAssumption
<1> QED
  BY <1>2, <1>4, <1>5, Divides DEF Width

\* Each key has a place in the layout, and a later key a later one.
LEMMA RankFacts ==
  ASSUME NEW keys \in SUBSET Keys, NEW k \in keys
  PROVE  /\ Rank(k, keys) \in 1..Cardinality(keys)
         /\ \A j \in keys : j < k => Rank(j, keys) < Rank(k, keys)
<1> DEFINE Upto(j) == {i \in keys : i <= j}
<1>1. IsFiniteSet(keys)
  BY WidthFacts
<1>2. \A j \in keys : Upto(j) \subseteq keys
  OBVIOUS
<1>3. \A j \in keys : /\ IsFiniteSet(Upto(j)) /\ Cardinality(Upto(j)) \in Nat
                      /\ Cardinality(Upto(j)) <= Cardinality(keys)
  BY <1>1, <1>2, FS_Subset, FS_CardinalityType
<1>4. k \in Upto(k)
  BY DEF Keys
<1>5. Cardinality(Upto(k)) # 0
  BY <1>3, <1>4, FS_EmptySet
<1>6. ASSUME NEW j \in keys, j < k PROVE Cardinality(Upto(j)) < Cardinality(Upto(k))
  <2>0. \A i \in keys : i \in Nat
    BY TimeAssumption DEF Keys
  <2>1. Upto(j) \subseteq Upto(k) /\ k \notin Upto(j)
    BY <1>6, <2>0
  <2>2. Upto(j) # Upto(k)
    BY <2>1, <1>4
  <2> HIDE DEF Upto
  <2>3. Cardinality(Upto(j)) <= Cardinality(Upto(k)) /\ Cardinality(Upto(k)) # Cardinality(Upto(j))
    BY <2>1, <2>2, <1>3, FS_Subset
  <2> QED BY <2>3, <1>3
<1>7. Cardinality(keys) \in Nat
  BY <1>1, FS_CardinalityType
<1> QED
  BY <1>3, <1>5, <1>6, <1>7 DEF Rank

LEMMA SlotFacts ==
  ASSUME NEW keys \in SUBSET Keys, NEW k \in keys, NEW from \in Nat
  PROVE  /\ Slot(k, keys, from) = from + Rank(k, keys) * Width(keys)
         /\ Slot(k, keys, from) \in Nat
<1>1. Rank(k, keys) \in Nat /\ Width(keys) \in Nat
  BY WidthFacts, RankFacts
<1>2. Slot(k, keys, from) = from + Rank(k, keys) * Width(keys)
  BY DEF Slot, Rank, Width
<1> QED
  BY <1>1, <1>2

\* SlotAfter finds a round of the slot that is still to come, and it is the next one.
LEMMA SlotAfterFacts ==
  ASSUME NEW base \in Nat, NEW t \in Nat
  PROVE  /\ SlotAfter(base, t) \in Nat
         /\ SlotAfter(base, t) > t /\ SlotAfter(base, t) >= base
         /\ (SlotAfter(base, t) - base) % Interval = 0
         /\ t >= base => SlotAfter(base, t) <= t + Interval
<1>1. Interval \in Nat \ {0}
  BY TimeAssumption
<1>2. CASE t < base
  <2>1. 0 % Interval = 0
    BY <1>1, Multiple
  <2> QED BY <1>2, <2>1 DEF SlotAfter
<1>3. CASE t >= base
  <2> DEFINE x == t - base
             q == x \div Interval
  <2>1. x \in Nat /\ t = base + x
    BY <1>3
  <2> HIDE DEF x
  <2>2. q \in Nat /\ x = q * Interval + (x % Interval) /\ x % Interval \in 0..(Interval - 1)
    BY <2>1, <1>1, Quotient
  <2>3. SlotAfter(base, t) = base + (q + 1) * Interval
    BY <1>3 DEF SlotAfter, x
  <2> HIDE DEF q
  <2>4. (q + 1) * Interval = q * Interval + Interval /\ q * Interval \in Nat
    BY <2>2, <1>1
  <2>5. ((q + 1) * Interval) % Interval = 0
    BY <2>2, <1>1, Multiple
  <2>6. SlotAfter(base, t) - base = (q + 1) * Interval
    BY <2>3, <2>4, <1>1
  <2> QED BY <1>1, <2>1, <2>2, <2>3, <2>4, <2>5, <2>6
<1> QED
  BY <1>2, <1>3

\* What a key gets from the layout is a round of its slot, and after now.
LEMMA NextSlotFacts ==
  ASSUME NEW keys \in SUBSET Keys, NEW k \in keys, NEW from \in Nat, NEW t \in Nat
  PROVE  /\ NextSlot(k, t, keys, from) \in Nat
         /\ NextSlot(k, t, keys, from) > t
         /\ OnGrid(NextSlot(k, t, keys, from), k, keys, from)
  BY SlotFacts, SlotAfterFacts DEF NextSlot, OnGrid

\* A round of one key is never a round of another key of the same layout.
LEMMA RoundFacts ==
  ASSUME NEW keys \in SUBSET Keys, NEW k \in keys, NEW from \in Nat, NEW d \in Nat,
         OnGrid(d, k, keys, from)
  PROVE  \E q \in Nat :
            d = from + (Rank(k, keys) * Width(keys) + q * (Cardinality(keys) * Width(keys)))
<1> DEFINE b == Slot(k, keys, from)
           x == d - b
<1>1. b \in Nat /\ b = from + Rank(k, keys) * Width(keys)
  BY SlotFacts
<1>2. x \in Nat /\ x % Interval = 0 /\ d = b + x
  BY <1>1 DEF OnGrid
<1> HIDE DEF x, b
<1>3. x \div Interval \in Nat /\ x = (x \div Interval) * Interval
  <2>1. Interval \in Nat \ {0}
    BY TimeAssumption
  <2>2. x \div Interval \in Nat /\ x = (x \div Interval) * Interval + (x % Interval)
    BY <1>2, <2>1, Quotient
  <2> QED BY <1>2, <2>1, <2>2
<1>4. Interval = Cardinality(keys) * Width(keys)
  BY WidthFacts
<1>5. Rank(k, keys) * Width(keys) \in Nat
  BY WidthFacts, RankFacts
<1>6. d = from + (Rank(k, keys) * Width(keys) + (x \div Interval) * Interval)
  BY <1>1, <1>2, <1>3, <1>5
<1> QED
  BY <1>3, <1>4, <1>6

LEMMA OwnRounds ==
  ASSUME NEW keys \in SUBSET Keys, NEW j \in keys, NEW k \in keys, j < k, NEW from \in Nat,
         NEW d \in Nat, OnGrid(d, j, keys, from), NEW e \in Nat, OnGrid(e, k, keys, from)
  PROVE  d # e
<1> DEFINE c == Cardinality(keys)
           w == Width(keys)
<1>1. c \in Nat \ {0} /\ w \in Nat \ {0}
  BY WidthFacts
<1>2. Rank(j, keys) \in 1..c /\ Rank(k, keys) \in 1..c /\ Rank(j, keys) < Rank(k, keys)
  BY RankFacts
<1>3. PICK p \in Nat : d = from + (Rank(j, keys) * w + p * (c * w))
  BY RoundFacts
<1>4. PICK q \in Nat : e = from + (Rank(k, keys) * w + q * (c * w))
  BY RoundFacts
<1> HIDE DEF c, w
<1>5. Rank(j, keys) * w + p * (c * w) # Rank(k, keys) * w + q * (c * w)
  BY <1>1, <1>2, PlacesApart
<1>6. Rank(j, keys) * w + p * (c * w) \in Nat /\ Rank(k, keys) * w + q * (c * w) \in Nat
  BY <1>1, <1>2
<1> QED
  BY <1>3, <1>4, <1>5, <1>6

------------------------------------------------------------------------------
(* The steps *)

\* What a new layout, a plan that leaves it alone, or a finished sample give to a key.
LEMMA PlanFacts ==
  ASSUME Inv, Apply, NEW k \in listed, ~ pending'[k]
  PROVE  /\ known' = listed /\ order' = listed
         /\ due'[k] \in Nat
         /\ OnGrid(due'[k], k, order', origin')
         /\ due'[k] > landed'[k]
<1> DEFINE gone      == known \ listed
           added     == listed \ known
           recreated == replaced \cap known \cap listed
           changed   == gone \cup added # {}
           asap      == added \cup recreated
<1>1. /\ known' = listed /\ landed' = landed
      /\ order' = IF changed THEN listed ELSE order
      /\ origin' = IF changed THEN now ELSE origin
      /\ pending' = [i \in Keys |-> pending[i] \/ i \in asap]
      /\ due' = [i \in Keys |->
                   IF i \in asap THEN now
                   ELSE IF changed /\ i \in listed /\ Settled(i)
                        THEN NextSlot(i, now, order', origin')
                   ELSE due[i]]
  BY DEF Apply
<1>2. listed \in SUBSET Keys /\ now \in Nat /\ origin \in Nat /\ due \in [Keys -> Nat]
      /\ landed \in [Keys -> Nat]
  BY DEF Inv, TypeOK
<1>3. k \in Keys /\ k \notin asap /\ ~ pending[k]
  BY <1>1, <1>2
<1>4. k \in known /\ order = known
  BY <1>3 DEF Inv, LaidOut
<1>5. k \in tried
  BY <1>3, <1>4 DEF Inv, LaidOut
<1>6. CASE changed
  <2>1. order' = listed /\ origin' = now
    BY <1>1, <1>6
  <2>2. due'[k] = NextSlot(k, now, listed, now)
    BY <1>1, <1>3, <1>5, <1>6, <2>1 DEF Settled
  <2>3. due'[k] \in Nat /\ due'[k] > now /\ OnGrid(due'[k], k, listed, now)
    BY <1>2, <2>2, NextSlotFacts
  <2>4. landed'[k] <= now /\ landed'[k] \in Nat
    BY <1>1, <1>2, <1>3 DEF Inv, Past
  <2> HIDE DEF changed
  <2> QED BY <1>1, <1>2, <2>1, <2>3, <2>4
<1>7. CASE ~ changed
  <2>1. listed = known
    BY <1>7
  <2>2. order' = order /\ origin' = origin /\ due'[k] = due[k]
    BY <1>1, <1>3, <1>7
  <2>3. due[k] \in Nat /\ OnGrid(due[k], k, order, origin) /\ due[k] > landed[k]
    BY <1>2, <1>3, <1>4 DEF Inv, Slotted, NoCatchUp
  <2> QED BY <1>1, <1>4, <2>1, <2>2, <2>3
<1> QED
  BY <1>6, <1>7

LEMMA LandFacts ==
  ASSUME Inv, Land
  PROVE  /\ running \in known /\ running \in Keys
         /\ NextSlot(running, now, order, origin) \in Nat
         /\ NextSlot(running, now, order, origin) > now
         /\ OnGrid(NextSlot(running, now, order, origin), running, order, origin)
<1>1. running \in order /\ order \in SUBSET Keys /\ now \in Nat /\ origin \in Nat
  BY DEF Inv, Land, LaidOut, TypeOK
<1>2. running \in known
  BY DEF Land
<1> QED
  BY <1>1, <1>2, NextSlotFacts

\* The steps that leave the layout, the due times and the pending marks alone.
Idles ==
    \/ Tick \/ HostStalls \/ PlanFails \/ NothingDue \/ Wake \/ LandOutdated \/ LandForgotten
    \/ \E k \in Keys : ServicesChange(k)

\* The steps that mark a key as pending.
Marks ==
    \/ Abandon
    \/ \E k \in Keys : PickForced(k) \/ PickDue(k)
    \/ \E k \in Keys, invalidate \in BOOLEAN : Request(k, invalidate)

LEMMA IdlesFacts ==
  ASSUME Idles
  PROVE  UNCHANGED <<layout, due, entries, landed>>
  BY DEF Idles, Tick, HostStalls, PlanFails, NothingDue, Wake, LandOutdated, LandForgotten,
         ServicesChange, history

LEMMA MarksFacts ==
  ASSUME TypeOK, Marks
  PROVE  /\ UNCHANGED <<layout, due, attempt, tried, landed, now>>
         /\ pending' \in [Keys -> BOOLEAN] /\ \A k \in Keys : pending[k] => pending'[k]
  BY DEF Marks, Abandon, PickForced, PickDue, Begin, Request, history, TypeOK

LEMMA NextCases ==
  ASSUME [Next]_vars
  PROVE  Apply \/ Land \/ Idles \/ Marks \/ UNCHANGED vars
  BY DEF Next, Idles, Marks, Plan, HandlerPlans

LEMMA TypeStep == Inv /\ [Next]_vars => TypeOK'
<1> SUFFICES ASSUME Inv, [Next]_vars PROVE TypeOK'
  OBVIOUS
<1> USE TimeAssumption
<1>0. TypeOK
  BY DEF Inv
<1>1. CASE Tick
  BY <1>0, <1>1 DEF Tick, TypeOK, docker, layout, entries, queue, thread, history
<1>2. CASE HostStalls
  BY <1>0, <1>2 DEF HostStalls, Disturbed, TypeOK, docker, layout, entries, queue, thread, history
<1>3. CASE Plan \/ HandlerPlans
  <2>0. Apply /\ pc' \in {"plan", "pick", "sample", "wait"} /\ requests' \in Nat
    BY <1>0, <1>3 DEF Plan, HandlerPlans, TypeOK
  <2>1. due' \in [Keys -> Nat]
    <3> DEFINE asap(k)    == k \in (listed \ known) \cup (replaced \cap known \cap listed)
               changed    == (known \ listed) \cup (listed \ known) # {}
    <3>1. /\ due' = [k \in Keys |->
                       IF asap(k) THEN now
                       ELSE IF changed /\ k \in listed /\ Settled(k)
                            THEN NextSlot(k, now, order', origin')
                       ELSE due[k]]
          /\ changed => order' = listed /\ origin' = now
      BY <2>0 DEF Apply
    <3>2. listed \in SUBSET Keys /\ now \in Nat /\ due \in [Keys -> Nat]
      BY <1>0 DEF TypeOK
    <3> HIDE DEF asap, changed
    <3>3. \A k \in listed : changed => NextSlot(k, now, order', origin') \in Nat
      BY <3>1, <3>2, NextSlotFacts
    <3> QED BY <3>1, <3>2, <3>3
  <2>2. /\ known' \in SUBSET Keys /\ replaced' = {} /\ tried' \in SUBSET Keys
        /\ order' \in SUBSET Keys /\ origin' \in Nat /\ pending' \in [Keys -> BOOLEAN]
    BY <1>0, <2>0 DEF Apply, TypeOK
  <2>3. forced' \in SUBSET Keys /\ ahead' \in SUBSET (Keys \X Keys)
    BY <1>0, <2>0 DEF Apply, TypeOK, Without
  <2>4. outdated' \in BOOLEAN
    BY <1>0, <2>0 DEF Apply, TypeOK
  <2>5. calm' \in [Keys -> BOOLEAN] /\ load' \in [Keys -> Nat]
    BY <1>0, <2>0 DEF Apply, TypeOK
  <2>6. UNCHANGED <<now, listed, changes, attempt, running, started, wakeat, woken, landed,
                    stalls, fails>>
    BY <2>0 DEF Apply
  <2> QED BY <1>0, <2>0, <2>1, <2>2, <2>3, <2>4, <2>5, <2>6 DEF TypeOK
<1>4. CASE PlanFails
  BY <1>0, <1>4 DEF PlanFails, Waits, Disturbed, TypeOK, docker, layout, entries, queue
<1>5. ASSUME NEW k \in Keys, PickForced(k) \/ PickDue(k) PROVE TypeOK'
  <2>1. forced' \in SUBSET Keys /\ ahead' \in SUBSET (Keys \X Keys)
    BY <1>0, <1>5 DEF PickForced, PickDue, Without, TypeOK, queue
  <2>2. Begin(k)
    BY <1>5 DEF PickForced, PickDue
  <2> QED BY <1>0, <2>1, <2>2 DEF Begin, TypeOK, docker, layout, history
<1>6. CASE NothingDue
  <2>1. wakeat' \in Nat /\ pc' = "wait"
    <3>1. CASE known = {}
      BY <1>0, <1>6, <3>1 DEF NothingDue, Waits, TypeOK
    <3>2. CASE known # {}
      <4>1. PICK k \in known : Waits(Naps(due[k]))
        BY <1>6, <3>2 DEF NothingDue
      <4>2. due[k] \in Nat /\ now \in Nat
        BY <1>0 DEF TypeOK
      <4> QED BY <4>1, <4>2 DEF Waits, Naps
    <3> QED BY <3>1, <3>2
  <2> QED BY <1>0, <1>6, <2>1 DEF NothingDue, TypeOK, docker, layout, entries, queue, history
<1>7. CASE Wake
  BY <1>0, <1>7 DEF Wake, TypeOK, docker, layout, entries, queue, history
<1>8. CASE Land
  <2>1. running \in Keys /\ NextSlot(running, now, order, origin) \in Nat
    BY <1>8, LandFacts
  <2>2. /\ pending' \in [Keys -> BOOLEAN] /\ attempt' \in [Keys -> Nat] /\ tried' \in SUBSET Keys
        /\ due' \in [Keys -> Nat] /\ landed' \in [Keys -> Nat]
        /\ calm' \in [Keys -> BOOLEAN] /\ load' \in [Keys -> Nat]
        /\ pc' = "plan" /\ running' = 0
    BY <1>0, <1>8, <2>1 DEF Land, TypeOK
  <2> QED BY <1>0, <1>8, <2>2 DEF Land, TypeOK, docker, layout, queue
<1>9. CASE LandOutdated
  <2>1. running \in Keys
    BY <1>0, <1>9 DEF LandOutdated, TypeOK
  <2>2. forced' \in SUBSET Keys /\ ahead' \in SUBSET (Keys \X Keys)
    BY <1>0, <1>9, <2>1 DEF LandOutdated, Queue, TypeOK
  <2> QED BY <1>0, <1>9, <2>2 DEF LandOutdated, TypeOK, docker, layout, entries, history
<1>10. CASE Abandon
  <2>1. pending' \in [Keys -> BOOLEAN]
    BY <1>0, <1>10 DEF Abandon, TypeOK
  <2>2. wakeat' \in Nat /\ pc' = "wait" /\ running' = 0 /\ outdated' = FALSE /\ fails' \in Nat
    BY <1>0, <1>10 DEF Abandon, Waits, TypeOK
  <2>3. calm' \in [Keys -> BOOLEAN]
    BY <1>10 DEF Abandon, Disturbed
  <2>4. UNCHANGED <<now, docker, layout, due, attempt, tried, queue, started, woken, landed, load,
                    requests, stalls>>
    BY <1>10 DEF Abandon
  <2> QED BY <1>0, <2>1, <2>2, <2>3, <2>4 DEF TypeOK, docker, layout, queue
<1>11. ASSUME NEW k \in Keys, ServicesChange(k) PROVE TypeOK'
  BY <1>0, <1>11 DEF ServicesChange, TypeOK, layout, entries, queue, thread, history
<1>12. ASSUME NEW k \in Keys, NEW invalidate \in BOOLEAN, Request(k, invalidate) PROVE TypeOK'
  <2>1. forced' \in SUBSET Keys /\ ahead' \in SUBSET (Keys \X Keys)
    BY <1>0, <1>12 DEF Request, Queue, TypeOK, queue
  <2>2. pending' \in [Keys -> BOOLEAN] /\ outdated' \in BOOLEAN /\ woken' \in BOOLEAN
    BY <1>0, <1>12 DEF Request, TypeOK
  <2>3. load' \in [Keys -> Nat]
    BY <1>0, <1>12 DEF Request, TypeOK
  <2> QED BY <1>0, <1>12, <2>1, <2>2, <2>3 DEF Request, TypeOK, docker, layout
<1>13. CASE UNCHANGED vars
  BY <1>0, <1>13 DEF vars, TypeOK, docker, layout, entries, queue, thread, history
<1>14. CASE LandForgotten
  BY <1>0, <1>14 DEF LandForgotten, TypeOK, docker, layout, entries, queue, history
<1> QED
  BY <1>1, <1>2, <1>3, <1>4, <1>5, <1>6, <1>7, <1>8, <1>9, <1>10, <1>11, <1>12, <1>13, <1>14 DEF Next

LEMMA LaidOutStep == Inv /\ [Next]_vars => LaidOut'
<1> SUFFICES ASSUME Inv, [Next]_vars PROVE LaidOut'
  OBVIOUS
<1>1. LaidOut /\ TypeOK
  BY DEF Inv
<1>2. CASE Apply
  <2>1. known' = listed /\ order' = listed
    BY <1>1, <1>2 DEF Apply, LaidOut
  <2>2. \A k \in listed \ tried' : k \in Keys /\ (k \in listed \ known \/ k \in known \ tried)
    BY <1>1, <1>2 DEF Apply, TypeOK
  <2>3. \A k \in listed \ tried' : pending'[k]
    BY <1>1, <1>2, <2>2 DEF Apply, LaidOut, TypeOK
  <2> QED BY <2>1, <2>3 DEF LaidOut
<1>3. CASE Land
  <2>1. /\ UNCHANGED <<known, order>> /\ tried' = tried \cup {running}
        /\ \A k \in known \ tried' : pending'[k] = pending[k]
    BY <1>1, <1>3 DEF Land, layout, TypeOK
  <2> QED BY <1>1, <2>1 DEF LaidOut
<1>4. CASE Idles \/ UNCHANGED vars
  <2>1. UNCHANGED <<layout, entries>>
    BY <1>4, IdlesFacts DEF vars
  <2> QED BY <1>1, <2>1 DEF LaidOut, layout, entries
<1>5. CASE Marks
  <2>1. UNCHANGED <<known, order, tried>> /\ \A k \in Keys : pending[k] => pending'[k]
    BY <1>1, <1>5, MarksFacts DEF layout
  <2> QED BY <1>1, <2>1 DEF LaidOut, TypeOK
<1> QED
  BY <1>2, <1>3, <1>4, <1>5, NextCases

LEMMA OnlyKnownStep == Inv /\ [Next]_vars => OnlyKnown'
<1> SUFFICES ASSUME Inv, [Next]_vars PROVE OnlyKnown'
  OBVIOUS
<1>1. OnlyKnown
  BY DEF Inv
<1>2. CASE Apply
  BY <1>1, <1>2 DEF Apply, OnlyKnown
<1>3. ASSUME NEW k \in Keys, PickForced(k) \/ PickDue(k) PROVE OnlyKnown'
  BY <1>1, <1>3 DEF PickForced, PickDue, Begin, OnlyKnown, layout, queue
<1>4. CASE LandOutdated
  BY <1>1, <1>4 DEF LandOutdated, Queue, OnlyKnown, layout
<1>5. ASSUME NEW k \in Keys, NEW invalidate \in BOOLEAN, Request(k, invalidate) PROVE OnlyKnown'
  BY <1>1, <1>5 DEF Request, Queue, OnlyKnown, layout, queue
<1>6. CASE \/ Tick \/ HostStalls \/ PlanFails \/ NothingDue \/ Wake \/ Land \/ LandForgotten \/ Abandon
           \/ (\E k \in Keys : ServicesChange(k)) \/ UNCHANGED vars
  <2>1. UNCHANGED <<known, forced>>
    BY <1>6 DEF Tick, HostStalls, PlanFails, NothingDue, Wake, Land, LandForgotten, Abandon,
                ServicesChange, layout, queue, vars
  <2> QED BY <1>1, <2>1 DEF OnlyKnown
<1> QED
  BY <1>2, <1>3, <1>4, <1>5, <1>6 DEF Next, Plan, HandlerPlans

\* What a key that is not pending waits for, after each step.
LEMMA WaitsStep ==
  ASSUME Inv, [Next]_vars, NEW k \in known', ~ pending'[k]
  PROVE  OnGrid(due'[k], k, order', origin') /\ due'[k] > landed'[k]
<1>1. TypeOK /\ TypeOK'
  BY TypeStep DEF Inv
<1>2. CASE Apply
  BY <1>2, PlanFacts DEF Apply
<1>3. CASE Land
  <2>1. /\ UNCHANGED <<known, order, origin>>
        /\ due' = [due EXCEPT ![running] = NextSlot(running, now, order, origin)]
        /\ landed' = [landed EXCEPT ![running] = now]
        /\ k # running => (pending'[k] <=> pending[k])
    BY <1>1, <1>3 DEF Land, layout, TypeOK
  <2>2. CASE k = running
    BY <1>1, <1>3, <2>1, <2>2, LandFacts DEF TypeOK
  <2>3. CASE k # running
    <3>1. due'[k] = due[k] /\ landed'[k] = landed[k] /\ ~ pending[k] /\ k \in known
      BY <1>1, <2>1, <2>3 DEF TypeOK
    <3> QED BY <2>1, <3>1 DEF Inv, Slotted, NoCatchUp
  <2> QED BY <2>2, <2>3
<1>4. CASE Idles \/ UNCHANGED vars
  <2>1. UNCHANGED <<known, order, origin, due, pending, landed>>
    BY <1>4, IdlesFacts DEF vars, layout, entries, history
  <2> QED BY <2>1 DEF Inv, Slotted, NoCatchUp
<1>5. CASE Marks
  <2>1. UNCHANGED <<known, order, origin, due, landed>>
    BY <1>1, <1>5, MarksFacts DEF layout
  <2>2. ~ pending[k]
    BY <1>1, <1>5, <2>1, MarksFacts DEF TypeOK
  <2> QED BY <2>1, <2>2 DEF Inv, Slotted, NoCatchUp
<1> QED
  BY <1>2, <1>3, <1>4, <1>5, NextCases

LEMMA PastStep == Inv /\ [Next]_vars => Past'
<1> SUFFICES ASSUME Inv, [Next]_vars PROVE Past'
  OBVIOUS
<1>1. TypeOK /\ Past
  BY DEF Inv
<1>2. CASE Tick \/ HostStalls
  <2>1. landed' = landed /\ now' \in Nat /\ now' >= now
    BY <1>1, <1>2, TimeAssumption DEF Tick, HostStalls, TypeOK, history
  <2> QED BY <1>1, <2>1 DEF Past, TypeOK
<1>3. CASE Land
  BY <1>1, <1>3 DEF Land, Past, TypeOK
<1>4. CASE ~ Tick /\ ~ HostStalls /\ ~ Land
  <2>1. landed' = landed /\ now' = now
    BY <1>4 DEF Next, Plan, HandlerPlans, Apply, PlanFails, PickForced, PickDue, Begin, NothingDue,
                Wake, LandOutdated, LandForgotten, Abandon, ServicesChange, Request, history, vars
  <2> QED BY <1>1, <2>1 DEF Past
<1> QED
  BY <1>2, <1>3, <1>4

LEMMA InitInv == Init => Inv
<1> SUFFICES ASSUME Init PROVE Inv
  OBVIOUS
<1>1. TypeOK
  BY TimeAssumption DEF Init, TypeOK
<1> QED
  BY <1>1 DEF Init, Inv, LaidOut, OnlyKnown, Slotted, Past, NoCatchUp

LEMMA NextInv == Inv /\ [Next]_vars => Inv'
<1> SUFFICES ASSUME Inv, [Next]_vars PROVE Inv'
  OBVIOUS
<1>1. TypeOK' /\ LaidOut' /\ OnlyKnown' /\ Past'
  BY TypeStep, LaidOutStep, OnlyKnownStep, PastStep
<1>2. Slotted' /\ NoCatchUp'
  BY WaitsStep DEF Slotted, NoCatchUp
<1> QED
  BY <1>1, <1>2 DEF Inv

THEOREM Invariant == Spec => []Inv
  BY InitInv, NextInv, PTL DEF Spec

------------------------------------------------------------------------------
(* The properties *)

\* Every variable keeps its type; in particular a slot is always a point in time, since a
\* key is given one only of a layout it is in.
THEOREM TypeTheorem == Spec => []TypeOK
<1>1. Inv => TypeOK
  BY DEF Inv
<1> QED
  BY Invariant, <1>1, PTL

\* No two keys ever wait for the same moment: their slots are less than an interval apart.
THEOREM SlotTheorem == Spec => []SlotKept
<1>1. ASSUME Inv PROVE SlotKept
  <2>1. ASSUME NEW k \in known, NEW j \in known, ~ pending[k], ~ pending[j], j # k
        PROVE  due[j] # due[k]
    <3>1. /\ order = known /\ order \in SUBSET Keys /\ origin \in Nat
          /\ due[j] \in Nat /\ due[k] \in Nat
      BY <1>1 DEF Inv, LaidOut, TypeOK
    <3>2. OnGrid(due[j], j, order, origin) /\ OnGrid(due[k], k, order, origin)
      BY <1>1, <2>1 DEF Inv, Slotted
    <3>3. j < k \/ k < j
      BY <2>1, <3>1, TimeAssumption DEF Keys
    <3> QED BY <3>1, <3>2, <3>3, OwnRounds
  <2> QED BY <1>1, <2>1 DEF Inv, LaidOut, Slotted, OnGrid, SlotKept
<1> QED
  BY Invariant, <1>1, PTL

\* Whatever a sample or a stall takes, the next slot of a key is one still to come when
\* its last sample ended.
THEOREM NoCatchUpTheorem == Spec => []NoCatchUp
<1>1. Inv => NoCatchUp
  BY DEF Inv
<1> QED
  BY Invariant, <1>1, PTL

------------------------------------------------------------------------------
(* No node turns stale *)

\* The thread, and what a history that is calm says of a key.
Busy ==
    /\ running = 0 <=> pc # "sample"
    /\ outdated => pc = "sample"
    /\ \A k \in Keys : calm[k] => k \in known \cap tried

Calm == \E k \in Keys : calm[k]

Clock ==
    /\ origin <= now
    /\ pc = "sample" => started <= now /\ (Calm => now <= started + MaxSample)

\* The thread never waits longer than any key has time.
WakesInTime == pc = "wait" /\ Calm => \A j \in known : wakeat <= due[j]

\* When the next sample of k is due at the latest, if its last one began at attempt[k].
Deadline(k) == attempt[k] + MaxSample + Interval

\* What the schedule gives a key is within an interval of its last sample, or has come.
Rounds == \A k \in Keys : calm[k] => due[k] <= Deadline(k) \/ due[k] <= now

\* The keys the thread may take before k, and k itself; one that is outdated comes again.
NotAfter(j, k) == due[j] < due[k] \/ (due[j] = due[k] /\ j <= k)
Ahead(k) ==
    {j \in known : j \in forced \/ (j = running /\ outdated) \/ (j # running /\ NotAfter(j, k))}

\* So many samples may still end before k's is over: those ahead, and the one under way.
Samples(k) == Cardinality(Ahead(k)) + (IF pc = "sample" THEN 1 ELSE 0)

\* So many of those that may come between two samples of k are over.
Over(k) == (N + 1 + load[k]) - Samples(k)

\* A key that is late is late by the samples that have ended meanwhile, and the one under way.
Elapsed == IF pc = "sample" THEN now - started ELSE 0
Timely  == \A k \in Keys : calm[k] => now <= Deadline(k) + MaxSample * Over(k) + Elapsed

Steady == Busy /\ Clock /\ WakesInTime /\ Rounds

\* The assumption on time without its division, and what it says of the keys.
LEMMA Durations ==
  /\ N \in Nat /\ Interval \in Nat \ {0} /\ Listing \in Nat /\ MaxSample \in Nat /\ Stall \in Nat
  BY TimeAssumption

LEMMA KeyFacts == \A k \in Keys : k \in Nat /\ k # 0
  BY Durations DEF Keys

\* A history that is calm after a step was calm before, or is that of a sample that ends.
LEMMA CalmFacts ==
  ASSUME Inv, Busy, [Next]_vars, NEW k \in Keys, calm'[k]
  PROVE  \/ Land /\ k = running /\ k \in known /\ now <= started + MaxSample
         \/ calm[k] /\ k \in known /\ k \in tried /\ ~ (Land /\ k = running)
<1>1. TypeOK
  BY DEF Inv
<1>2. calm[k] => k \in known /\ k \in tried
  BY DEF Busy
<1>3. CASE HostStalls \/ PlanFails \/ Abandon
  BY <1>3 DEF HostStalls, PlanFails, Abandon, Disturbed
<1>4. CASE Apply
  <2>1. calm[k]
    BY <1>4 DEF Apply
  <2> QED BY <1>2, <1>4, <2>1 DEF Apply, Land
<1>5. CASE Land
  <2>1. calm' = [calm EXCEPT ![running] = now <= started + MaxSample]
        /\ calm \in [Keys -> BOOLEAN] /\ running \in known
    BY <1>1, <1>5 DEF Land, TypeOK
  <2>2. CASE k = running
    BY <1>5, <2>1, <2>2
  <2>3. CASE k # running
    BY <1>2, <2>1, <2>3
  <2> QED BY <2>2, <2>3
<1>6. CASE Idles /\ ~ HostStalls /\ ~ PlanFails
  <2>1. calm' = calm
    BY <1>6 DEF Idles, Tick, NothingDue, Wake, LandOutdated, LandForgotten, ServicesChange, history
  <2> QED BY <1>2, <1>5, <2>1
<1>7. CASE Marks /\ ~ Abandon
  <2>1. calm' = calm
    BY <1>7 DEF Marks, PickForced, PickDue, Begin, Request, history
  <2> QED BY <1>2, <1>5, <2>1
<1>8. CASE UNCHANGED vars
  <2>1. calm' = calm
    BY <1>8 DEF vars, history
  <2> QED BY <1>2, <1>5, <2>1
<1> QED
  BY <1>3, <1>4, <1>5, <1>6, <1>7, <1>8, NextCases

\* What a plan leaves when the history stays calm: no new layout, and no key is made due
\* while the thread sleeps.
LEMMA ApplyFacts ==
  ASSUME Inv, Busy, Apply, NEW k \in Keys, calm'[k]
  PROVE  /\ calm[k] /\ known' = known /\ tried' = tried /\ order' = order /\ origin' = origin
         /\ forced' = forced
         /\ \A j \in known : due'[j] = due[j] \/ due'[j] = now
         /\ pc = "wait" => due' = due
         /\ \/ due' = due /\ outdated' = outdated /\ load'[k] = load[k]
            \/ load'[k] = load[k] + N
<1> DEFINE gone      == known \ listed
           added     == listed \ known
           recreated == replaced \cap known \cap listed
           changed   == gone \cup added # {}
           asap      == added \cup recreated
<1>1. /\ known' = listed /\ tried' = tried \ (gone \cup added) /\ forced' = forced \ gone
      /\ order' = IF changed THEN listed ELSE order
      /\ origin' = IF changed THEN now ELSE origin
      /\ due' = [j \in Keys |->
                   IF j \in asap THEN now
                   ELSE IF changed /\ j \in listed /\ Settled(j)
                        THEN NextSlot(j, now, order', origin')
                   ELSE due[j]]
  BY DEF Apply
<1>2. calm[k] /\ ~ changed /\ ~ (pc = "wait" /\ due' # due)
  BY DEF Apply
<1>3. /\ outdated' \in IF running \in added THEN BOOLEAN
                        ELSE {outdated \/ running \in recreated}
      /\ load'[k] = IF recreated # {} THEN load[k] + N ELSE load[k]
  BY DEF Apply
<1>4. /\ listed \in SUBSET Keys /\ known \in SUBSET Keys /\ due \in [Keys -> Nat]
      /\ outdated \in BOOLEAN
  BY DEF Inv, TypeOK
<1>5. listed = known /\ gone = {} /\ added = {}
  BY <1>2
<1>6. due' = [j \in Keys |-> IF j \in recreated THEN now ELSE due[j]]
  BY <1>1, <1>2, <1>5
<1>7. \A j \in known : due'[j] = due[j] \/ due'[j] = now
  BY <1>4, <1>6
<1>8. CASE recreated = {}
  <2>1. due' = due
    BY <1>4, <1>6, <1>8
  <2>2. outdated' = outdated /\ load'[k] = load[k]
    BY <1>3, <1>4, <1>5, <1>8
  <2> QED BY <1>1, <1>2, <1>5, <1>7, <2>1, <2>2
<1>9. CASE recreated # {}
  BY <1>1, <1>2, <1>3, <1>5, <1>7, <1>9
<1> QED
  BY <1>8, <1>9

LEMMA BusyStep == Inv /\ Busy /\ [Next]_vars => Busy'
<1> SUFFICES ASSUME Inv, Busy, [Next]_vars PROVE Busy'
  OBVIOUS
<1>1. TypeOK /\ \A k \in Keys : k # 0
  BY KeyFacts DEF Inv
<1>2. (running = 0 <=> pc # "sample")' /\ (outdated => pc = "sample")'
  <2>1. CASE PlanFails \/ NothingDue \/ Wake \/ Land \/ LandOutdated \/ LandForgotten \/ Abandon
    BY <2>1 DEF Busy, PlanFails, NothingDue, Wake, Land, LandOutdated, LandForgotten, Abandon, Waits
  <2>2. CASE Plan \/ HandlerPlans
    <3>1. running' = running /\ (pc' = "sample" <=> pc = "sample")
      BY <2>2 DEF Plan, HandlerPlans, Apply
    <3>2. outdated' => outdated \/ running # 0
      <4>1. outdated' \in IF running \in listed \ known THEN BOOLEAN
                          ELSE {outdated \/ running \in replaced \cap known \cap listed}
        BY <2>2 DEF Plan, HandlerPlans, Apply
      <4>2. known \in SUBSET Keys /\ listed \in SUBSET Keys
        BY <1>1 DEF TypeOK
      <4> QED BY <1>1, <4>1, <4>2
    <3> QED BY <3>1, <3>2 DEF Busy
  <2>3. CASE Tick \/ HostStalls
    BY <2>3 DEF Busy, Tick, HostStalls, thread
  <2>4. ASSUME NEW k \in Keys, ServicesChange(k)
        PROVE  (running = 0 <=> pc # "sample")' /\ (outdated => pc = "sample")'
    BY <2>4 DEF Busy, ServicesChange, thread
  <2>5. ASSUME NEW k \in Keys, PickForced(k) \/ PickDue(k)
        PROVE  (running = 0 <=> pc # "sample")' /\ (outdated => pc = "sample")'
    BY <1>1, <2>5 DEF Busy, PickForced, PickDue, Begin
  <2>6. ASSUME NEW k \in Keys, NEW invalidate \in BOOLEAN, Request(k, invalidate)
        PROVE  (running = 0 <=> pc # "sample")' /\ (outdated => pc = "sample")'
    BY <1>1, <2>6 DEF Busy, Request
  <2>7. CASE UNCHANGED vars
    BY <2>7 DEF Busy, vars, thread
  <2> QED BY <2>1, <2>2, <2>3, <2>4, <2>5, <2>6, <2>7 DEF Next
<1>3. ASSUME NEW k \in Keys, calm'[k] PROVE k \in known' /\ k \in tried'
  <2>1. CASE Apply
    <3>1. calm[k] /\ known' = known /\ tried' = tried
      BY <1>3, <2>1, ApplyFacts
    <3> QED BY <3>1 DEF Busy
  <2>2. CASE Land
    BY <1>3, <2>2, CalmFacts DEF Land, layout
  <2>3. CASE Idles \/ Marks \/ UNCHANGED vars
    <3>1. known' = known /\ tried' = tried
      BY <1>1, <2>3, IdlesFacts, MarksFacts DEF layout, entries, vars
    <3>2. k \in known /\ (k \in tried \/ Land)
      BY <1>3, CalmFacts
    <3> QED BY <2>2, <3>1, <3>2
  <2> QED BY <2>1, <2>2, <2>3, NextCases
<1> QED
  BY <1>2, <1>3 DEF Busy

\* Calm comes only with the end of a sample.
LEMMA CalmBefore ==
  ASSUME Inv, Busy, [Next]_vars, Calm', ~ Land
  PROVE  Calm
  BY CalmFacts DEF Calm

LEMMA ClockStep == Inv /\ Busy /\ Clock /\ [Next]_vars => Clock'
<1> SUFFICES ASSUME Inv, Busy, Clock, [Next]_vars PROVE Clock'
  OBVIOUS
<1>1. now \in Nat /\ origin \in Nat /\ started \in Nat
  BY DEF Inv, TypeOK
<1> USE <1>1, Durations
<1>2. CASE Tick
  <2>1. Calm' => Calm
    BY <1>2 DEF Tick, history, Calm
  <2> QED BY <1>2, <2>1 DEF Clock, Tick, layout, thread
<1>3. CASE HostStalls
  <2>1. ~ Calm'
    BY <1>3 DEF HostStalls, Disturbed, Calm
  <2> QED BY <1>3, <2>1 DEF Clock, HostStalls, layout, thread
<1>4. CASE Plan \/ HandlerPlans
  <2>1. Calm' => Calm
    BY <1>4, CalmBefore DEF Plan, HandlerPlans, Land
  <2>2. /\ UNCHANGED <<now, started>> /\ (pc' = "sample" => pc = "sample")
        /\ origin' = now \/ origin' = origin
    BY <1>4 DEF Plan, HandlerPlans, Apply
  <2> QED BY <2>1, <2>2 DEF Clock
<1>5. CASE \/ PlanFails \/ NothingDue \/ Wake \/ Land \/ LandOutdated \/ LandForgotten \/ Abandon
  BY <1>5 DEF Clock, PlanFails, NothingDue, Wake, Land, LandOutdated, LandForgotten, Abandon,
              Waits, layout
<1>6. ASSUME NEW k \in Keys, ServicesChange(k) PROVE Clock'
  <2>1. Calm' => Calm
    BY <1>6 DEF ServicesChange, history, Calm
  <2> QED BY <1>6, <2>1 DEF Clock, ServicesChange, layout, thread
<1>7. ASSUME NEW k \in Keys, PickForced(k) \/ PickDue(k) PROVE Clock'
  BY <1>7 DEF Clock, PickForced, PickDue, Begin, layout
<1>8. ASSUME NEW k \in Keys, NEW invalidate \in BOOLEAN, Request(k, invalidate) PROVE Clock'
  <2>1. Calm' => Calm
    BY <1>8 DEF Request, Calm
  <2> QED BY <1>8, <2>1 DEF Clock, Request, layout
<1>9. CASE UNCHANGED vars
  <2>1. Calm' => Calm
    BY <1>9 DEF vars, history, Calm
  <2> QED BY <1>9, <2>1 DEF Clock, vars, layout, thread
<1> QED
  BY <1>2, <1>3, <1>4, <1>5, <1>6, <1>7, <1>8, <1>9 DEF Next

LEMMA WakesStep == Inv /\ Busy /\ WakesInTime /\ [Next]_vars => WakesInTime'
<1> SUFFICES ASSUME Inv, Busy, WakesInTime, [Next]_vars, pc' = "wait", Calm'
             PROVE  \A j \in known' : wakeat' <= due'[j]
  BY DEF WakesInTime
<1>1. /\ now \in Nat /\ known \in SUBSET Keys
      /\ \A k \in known : due[k] \in Nat
  BY DEF Inv, TypeOK
<1>2. ~ HostStalls /\ ~ PlanFails /\ ~ Abandon
  BY DEF HostStalls, PlanFails, Abandon, Disturbed, Calm
<1>3. ~ Plan /\ ~ Wake /\ ~ Land /\ ~ LandOutdated /\ ~ LandForgotten
  BY DEF Plan, Wake, Land, LandOutdated, LandForgotten
<1>4. CASE NothingDue
  <2>1. UNCHANGED <<known, due>>
    BY <1>4 DEF NothingDue, layout
  <2>2. CASE known = {}
    BY <2>1, <2>2
  <2>3. CASE known # {}
    <3>1. PICK k \in known : IsNext(k) /\ Waits(Naps(due[k]))
      BY <1>4, <2>3 DEF NothingDue
    <3>2. wakeat' <= due[k] /\ wakeat' \in Nat
      BY <1>1, <3>1, Durations DEF Waits, Naps
    <3>3. \A j \in known : due[k] <= due[j]
      BY <1>1, <3>1 DEF IsNext
    <3> QED BY <1>1, <2>1, <3>2, <3>3
  <2> QED BY <2>2, <2>3
<1>5. CASE HandlerPlans
  <2>1. Apply /\ pc = "wait" /\ wakeat' = wakeat
    BY <1>5 DEF HandlerPlans, Apply
  <2>2. PICK k \in Keys : calm'[k]
    BY DEF Calm
  <2>3. calm[k] /\ known' = known /\ due' = due
    BY <2>1, <2>2, ApplyFacts
  <2> QED BY <2>1, <2>3 DEF WakesInTime, Calm
<1>6. CASE Tick \/ UNCHANGED vars
  <2>1. UNCHANGED <<known, due, pc, wakeat, calm>>
    BY <1>6 DEF Tick, vars, layout, thread, history
  <2> QED BY <2>1 DEF WakesInTime, Calm
<1>7. ASSUME NEW k \in Keys, ServicesChange(k) PROVE \A j \in known' : wakeat' <= due'[j]
  <2>1. UNCHANGED <<known, due, pc, wakeat, calm>>
    BY <1>7 DEF ServicesChange, layout, thread, history
  <2> QED BY <2>1 DEF WakesInTime, Calm
<1>8. ASSUME NEW k \in Keys, PickForced(k) \/ PickDue(k) PROVE \A j \in known' : wakeat' <= due'[j]
  BY <1>8 DEF PickForced, PickDue, Begin
<1>9. ASSUME NEW k \in Keys, NEW invalidate \in BOOLEAN, Request(k, invalidate)
      PROVE  \A j \in known' : wakeat' <= due'[j]
  <2>1. UNCHANGED <<known, due, pc, wakeat, calm>>
    BY <1>9 DEF Request, layout
  <2> QED BY <2>1 DEF WakesInTime, Calm
<1> QED
  BY <1>2, <1>3, <1>4, <1>5, <1>6, <1>7, <1>8, <1>9 DEF Next

LEMMA KeysFinite ==
  ASSUME NEW S \in SUBSET Keys
  PROVE  IsFiniteSet(S) /\ Cardinality(S) \in 0..N
<1>1. IsFiniteSet(Keys) /\ Cardinality(Keys) = N
  BY FS_Interval, Durations DEF Keys
<1> QED
  BY <1>1, FS_Subset, FS_CardinalityType, Durations

LEMMA Smaller ==
  ASSUME NEW T \in SUBSET Keys, NEW S \in SUBSET T
  PROVE  Cardinality(S) \in Nat /\ Cardinality(T) \in Nat /\ Cardinality(S) <= Cardinality(T)
  BY KeysFinite, FS_Subset

LEMMA OneMore ==
  ASSUME NEW T \in SUBSET Keys, NEW j \in Keys, NEW S \in SUBSET (T \cup {j})
  PROVE  /\ Cardinality(S) \in Nat /\ Cardinality(T) \in Nat
         /\ Cardinality(S) <= Cardinality(T) + 1
<1>1. Cardinality(T \cup {j}) <= Cardinality(T) + 1 /\ Cardinality(T) \in Nat
  BY KeysFinite, FS_AddElement
<1>2. (T \cup {j}) \in SUBSET Keys
  OBVIOUS
<1>3. Cardinality(S) \in Nat /\ Cardinality((T \cup {j})) \in Nat
      /\ Cardinality(S) <= Cardinality((T \cup {j}))
  BY <1>2, Smaller
<1> QED
  BY <1>1, <1>3

LEMMA OneLess ==
  ASSUME NEW T \in SUBSET Keys, NEW j \in T, NEW S \in SUBSET (T \ {j})
  PROVE  /\ Cardinality(S) \in Nat /\ Cardinality(T) \in Nat
         /\ Cardinality(S) + 1 <= Cardinality(T)
<1>1. Cardinality(T \ {j}) = Cardinality(T) - 1 /\ Cardinality(T) \in Nat
  BY KeysFinite, FS_RemoveElement
<1>2. (T \ {j}) \in SUBSET Keys
  OBVIOUS
<1>3. Cardinality(S) \in Nat /\ Cardinality((T \ {j})) \in Nat
      /\ Cardinality(S) <= Cardinality((T \ {j}))
  BY <1>2, Smaller
<1> QED
  BY <1>1, <1>3

\* A larger factor gives a larger product.
LEMMA Products ==
  ASSUME NEW a \in Nat, NEW b \in Nat, NEW c \in Nat, a <= b
  PROVE  c * a \in Nat /\ c * b \in Nat /\ c * a <= c * b
  OBVIOUS

LEMMA NextProduct ==
  ASSUME NEW a \in Nat, NEW c \in Nat
  PROVE  c * (a + 1) = c * a + c
  OBVIOUS

\* The next slot of a key of a layout that has begun is at most an interval away.
LEMMA SoonFacts ==
  ASSUME NEW keys \in SUBSET Keys, NEW k \in keys, NEW t \in Nat, NEW from \in Nat, from <= t
  PROVE  NextSlot(k, t, keys, from) <= t + Interval
<1>1. Interval \in Nat \ {0}
  BY Durations
<1>2. Slot(k, keys, from) = from + Rank(k, keys) * Width(keys) /\ Slot(k, keys, from) \in Nat
  BY SlotFacts
<1>3. Rank(k, keys) * Width(keys) <= Interval /\ Rank(k, keys) * Width(keys) \in Nat
  <2>1. /\ Rank(k, keys) \in Nat /\ Cardinality(keys) \in Nat /\ Rank(k, keys) <= Cardinality(keys)
        /\ Width(keys) \in Nat /\ Interval = Cardinality(keys) * Width(keys)
    BY RankFacts, WidthFacts
  <2>2. Rank(k, keys) * Width(keys) = Width(keys) * Rank(k, keys)
        /\ Cardinality(keys) * Width(keys) = Width(keys) * Cardinality(keys)
    BY <2>1
  <2> QED BY <2>1, <2>2, Products
<1>4. Slot(k, keys, from) <= t + Interval
  BY <1>1, <1>2, <1>3
<1>5. CASE t < Slot(k, keys, from)
  BY <1>4, <1>5 DEF NextSlot, SlotAfter
<1>6. CASE t >= Slot(k, keys, from)
  BY <1>2, <1>6, SlotAfterFacts DEF NextSlot
<1> QED
  BY <1>2, <1>5, <1>6

\* Time only passes, and only a sample, a wait or a stall takes any.
LEMMA StepFacts ==
  ASSUME TypeOK, [Next]_vars
  PROVE  /\ now' \in Nat /\ now' >= now
         /\ Tick => now' = now + 1
         /\ ~ Tick /\ ~ HostStalls => now' = now
<1>1. now \in Nat
  BY DEF TypeOK
<1>2. CASE Tick
  BY <1>1, <1>2 DEF Tick
<1>3. CASE HostStalls
  <2>1. ~ Tick \/ now' = now + 1
    BY DEF Tick
  <2> QED BY <1>1, <1>3, <2>1, Durations DEF HostStalls
<1>4. CASE ~ Tick /\ ~ HostStalls
  <2>1. now' = now
    BY <1>4 DEF Next, Plan, HandlerPlans, Apply, PlanFails, PickForced, PickDue, Begin, NothingDue,
                Wake, Land, LandOutdated, LandForgotten, Abandon, ServicesChange, Request, vars
  <2> QED BY <1>1, <1>4, <2>1
<1> QED
  BY <1>2, <1>3, <1>4

\* What a step that is neither a plan nor the end of k's sample leaves of k.
LEMMA KeyStays ==
  ASSUME TypeOK, [Next]_vars, NEW k \in Keys, ~ Apply, ~ (Land /\ k = running)
  PROVE  due'[k] = due[k] /\ attempt'[k] = attempt[k]
<1>1. CASE Land
  BY <1>1 DEF Land, TypeOK
<1>2. CASE Idles
  BY <1>2, IdlesFacts DEF entries
<1>3. CASE Marks
  BY <1>3, MarksFacts
<1>4. CASE UNCHANGED vars
  BY <1>4 DEF vars, entries
<1> QED
  BY <1>1, <1>2, <1>3, <1>4, NextCases

LEMMA RoundsStep == Inv /\ Busy /\ Clock /\ Rounds /\ [Next]_vars => Rounds'
<1> SUFFICES ASSUME Inv, Busy, Clock, Rounds, [Next]_vars, NEW k \in Keys, calm'[k]
             PROVE  (due[k] <= Deadline(k) \/ due[k] <= now)'
  BY DEF Rounds
<1>1. TypeOK /\ TypeOK'
  BY TypeStep DEF Inv
<1>2. now' >= now
  BY <1>1, StepFacts
<1>3. CASE Apply
  <2>1. calm[k] /\ k \in known /\ (due'[k] = now \/ due'[k] = due[k])
    BY <1>3, ApplyFacts DEF Busy
  <2>2. due[k] <= Deadline(k) \/ due[k] <= now
    BY <2>1 DEF Rounds
  <2>3. UNCHANGED <<now, attempt>>
    BY <1>3 DEF Apply
  <2> QED BY <1>1, <2>1, <2>2, <2>3 DEF Deadline, TypeOK
<1>4. CASE Land /\ k = running
  <2>1. running \in order /\ order \in SUBSET Keys /\ now \in Nat /\ origin \in Nat
    BY <1>1, <1>4 DEF Inv, Land, LaidOut, TypeOK
  <2>2. NextSlot(running, now, order, origin) <= now + Interval
        /\ NextSlot(running, now, order, origin) \in Nat
    BY <2>1, SoonFacts, NextSlotFacts DEF Clock
  <2>3. now <= started + MaxSample
    BY <1>4, CalmFacts
  <2>4. due'[k] = NextSlot(running, now, order, origin) /\ attempt'[k] = started
    BY <1>1, <1>4, <2>1 DEF Land, TypeOK
  <2> QED BY <1>1, <2>1, <2>2, <2>3, <2>4, Durations DEF Deadline, TypeOK
<1>5. CASE ~ Apply /\ ~ (Land /\ k = running)
  <2>1. calm[k] /\ due'[k] = due[k] /\ attempt'[k] = attempt[k]
    BY <1>1, <1>5, CalmFacts, KeyStays
  <2>2. due[k] <= Deadline(k) \/ due[k] <= now
    BY <2>1 DEF Rounds
  <2> QED BY <1>1, <1>2, <2>1, <2>2 DEF Deadline, TypeOK
<1> QED
  BY <1>3, <1>4, <1>5

\* What is left to come is a number of samples, and no more than there can be at all.
Measure ==
    \A k \in Keys : /\ Ahead(k) \in SUBSET Keys /\ Cardinality(Ahead(k)) \in 0..N
                    /\ Samples(k) \in Nat /\ Samples(k) <= N + 1
                    /\ pc = "sample" => Samples(k) = Cardinality(Ahead(k)) + 1
                    /\ pc # "sample" => Samples(k) = Cardinality(Ahead(k))

LEMMA MeasureFacts == TypeOK => Measure
<1> SUFFICES ASSUME TypeOK PROVE Measure
  OBVIOUS
<1>1. \A k \in Keys : Ahead(k) \in SUBSET Keys
  BY DEF Ahead, TypeOK
<1>2. \A k \in Keys : Cardinality(Ahead(k)) \in 0..N
  BY <1>1, KeysFinite
<1> QED
  BY <1>1, <1>2, Durations DEF Samples, Measure

LEMMA MeasureNext == TypeOK' => Measure'
  BY MeasureFacts, PTL

\* What a step does to the samples to come, by what it does to the keys ahead.
LEMMA SamplesMove ==
  ASSUME TypeOK, TypeOK', NEW k \in Keys
  PROVE  LET before == Cardinality(Ahead(k))
             after  == Cardinality(Ahead(k))'
         IN  /\ (pc' = "sample" <=> pc = "sample") /\ after <= before => Samples(k)' <= Samples(k)
             /\ pc' = "sample" /\ pc # "sample" /\ after + 1 <= before =>
                   Samples(k)' <= Samples(k)
             /\ pc' # "sample" /\ pc = "sample" /\ after <= before =>
                   Samples(k)' + 1 <= Samples(k)
<1>1. Measure /\ Measure'
  BY MeasureFacts, MeasureNext
<1> QED
  BY <1>1, Durations DEF Measure

\* What a step may cost a key that is due: time while a sample is under way, the end of it,
\* or samples that its load pays for.
Costs(k) ==
    \/ now' = now + 1 /\ load'[k] = load[k] /\ Samples(k)' <= Samples(k) /\ Elapsed' = Elapsed + 1
    \/ now' = now /\ Samples(k)' + load[k] <= Samples(k) + load'[k] /\ Elapsed' = Elapsed
    \/ /\ now' = now /\ load'[k] = load[k] /\ Samples(k)' + 1 <= Samples(k)
       /\ Elapsed <= MaxSample /\ Elapsed' = 0

\* A plan puts keys ahead only for a service that was recreated, and the load pays for all.
LEMMA PlanSamples ==
  ASSUME Inv, Busy, TypeOK', Plan \/ HandlerPlans, NEW k \in Keys, calm'[k]
  PROVE  Costs(k)
<1>1. TypeOK /\ Apply /\ load \in [Keys -> Nat]
  BY DEF Inv, Plan, HandlerPlans, TypeOK
<1>2. UNCHANGED <<now, running, started>> /\ (pc' = "sample" <=> pc = "sample")
  BY DEF Plan, HandlerPlans, Apply
<1>3. Measure /\ Measure'
  BY <1>1, MeasureFacts, MeasureNext
<1>4. Elapsed' = Elapsed
  BY <1>2 DEF Elapsed
<1>5. known' = known /\ forced' = forced
  BY <1>1, ApplyFacts
<1>6. CASE due' = due /\ outdated' = outdated /\ load'[k] = load[k]
  <2>1. Ahead(k)' = Ahead(k)
    BY <1>2, <1>5, <1>6 DEF Ahead, NotAfter
  <2>2. Samples(k)' = Samples(k)
    BY <1>2, <2>1 DEF Samples
  <2>3. Samples(k)' + load[k] <= Samples(k) + load'[k]
    BY <1>1, <1>3, <1>6, <2>2 DEF Measure
  <2> QED BY <1>2, <1>4, <2>3 DEF Costs
<1>7. CASE load'[k] = load[k] + N
  <2>1. Samples(k)' <= Samples(k) + N
    BY <1>2, <1>3, Durations DEF Measure
  <2>2. Samples(k)' + load[k] <= Samples(k) + load'[k]
    BY <1>1, <1>3, <1>7, <2>1, Durations DEF Measure
  <2> QED BY <1>2, <1>4, <2>2 DEF Costs
<1> QED
  BY <1>1, <1>6, <1>7, ApplyFacts

\* A key that is picked is one of those ahead, and no longer after.
LEMMA PickSamples ==
  ASSUME Inv, Busy, TypeOK', NEW k \in known, due[k] <= now,
         NEW j \in Keys, PickForced(j) \/ PickDue(j)
  PROVE  Costs(k)
<1>1. TypeOK /\ k \in Keys /\ now \in Nat /\ load[k] \in Nat
  BY DEF Inv, TypeOK
<1>2. /\ UNCHANGED <<known, due, now, load>>
      /\ pc = "pick" /\ pc' = "sample" /\ running' = j /\ started' = now /\ outdated' = FALSE
      /\ forced' = forced \ {j}
  BY <1>1 DEF PickForced, PickDue, Begin, layout, history, queue, TypeOK
<1>3. running = 0 /\ ~ outdated
  BY <1>2 DEF Busy
<1>4. \A i \in known : i # running
  BY <1>1, <1>3, KeyFacts DEF TypeOK
<1>5. j \in Ahead(k)
  <2>1. CASE PickForced(j)
    BY <2>1 DEF PickForced, IsFirst, Ahead, Inv, OnlyKnown
  <2>2. CASE PickDue(j)
    <3>1. j \in known /\ (due[k] > due[j] \/ (due[k] = due[j] /\ k >= j))
      BY <2>2 DEF PickDue, IsNext
    <3>2. due[k] \in Nat /\ due[j] \in Nat /\ k \in Nat /\ j \in Nat
      BY <1>1, <3>1, KeyFacts DEF TypeOK
    <3> QED BY <1>4, <3>1, <3>2 DEF Ahead, NotAfter
  <2> QED BY <2>1, <2>2
<1>6. Ahead(k)' \in SUBSET (Ahead(k) \ {j})
  BY <1>2, <1>4 DEF Ahead, NotAfter
<1>7. Cardinality(Ahead(k)') + 1 <= Cardinality(Ahead(k))
  <2>1. Ahead(k) \in SUBSET Keys
    BY <1>1, MeasureFacts DEF Measure
  <2> QED BY <1>5, <1>6, <2>1, OneLess
<1>8. Samples(k)' <= Samples(k)
  BY <1>1, <1>2, <1>7, SamplesMove
<1>9. Samples(k)' + load[k] <= Samples(k) + load'[k]
  <2>1. Samples(k) \in Nat /\ Samples(k)' \in Nat
    BY <1>1, MeasureFacts, MeasureNext DEF Measure
  <2> QED BY <1>1, <1>2, <1>8, <2>1
<1>10. Elapsed = 0 /\ Elapsed' = 0
  BY <1>1, <1>2 DEF Elapsed
<1> QED
  BY <1>2, <1>9, <1>10 DEF Costs

\* A request puts at most its own key ahead, and the load counts it.
LEMMA RequestSamples ==
  ASSUME Inv, TypeOK', NEW k \in known,
         NEW j \in Keys, NEW invalidate \in BOOLEAN, Request(j, invalidate)
  PROVE  Costs(k)
<1>1. TypeOK /\ k \in Keys /\ load[k] \in Nat
  BY DEF Inv, TypeOK
<1>2. /\ UNCHANGED <<known, due, now, running, pc, started>>
      /\ forced' \in SUBSET (forced \cup {j})
      /\ outdated' => outdated \/ running = j
  BY DEF Request, Queue, layout, queue
<1>3. load'[k] = load[k] + 1
  BY <1>1 DEF Request
<1>4. Ahead(k)' \in SUBSET (Ahead(k) \cup {j})
  BY <1>2 DEF Ahead, NotAfter
<1>5. Measure /\ Measure'
  BY <1>1, MeasureFacts, MeasureNext
<1>6. /\ Cardinality(Ahead(k)') <= Cardinality(Ahead(k)) + 1
      /\ Cardinality(Ahead(k)) \in Nat /\ Cardinality(Ahead(k)') \in Nat
  BY <1>1, <1>4, <1>5, OneMore DEF Measure
<1>7. Samples(k)' <= Samples(k) + 1 /\ Samples(k) \in Nat /\ Samples(k)' \in Nat
  BY <1>1, <1>2, <1>5, <1>6 DEF Measure
<1>8. Samples(k)' + load[k] <= Samples(k) + load'[k]
  BY <1>1, <1>3, <1>7
<1>9. Elapsed' = Elapsed
  BY <1>2 DEF Elapsed
<1> QED
  BY <1>2, <1>8, <1>9 DEF Costs

\* The end of a sample is one sample less to come.
LEMMA LandSamples ==
  ASSUME Inv, Busy, Clock, TypeOK', NEW k \in known, calm[k], due[k] <= now,
         (Land /\ running # k) \/ LandOutdated \/ LandForgotten
  PROVE  Costs(k)
<1>1. TypeOK /\ k \in Keys /\ now \in Nat /\ started \in Nat
  BY DEF Inv, TypeOK
<1>2. /\ UNCHANGED <<known, now>> /\ load'[k] = load[k]
      /\ pc = "sample" /\ pc' = "plan" /\ running' = 0
  <2>1. CASE Land /\ running # k
    BY <1>1, <2>1 DEF Land, layout, TypeOK
  <2>2. CASE LandOutdated \/ LandForgotten
    BY <2>2 DEF LandOutdated, LandForgotten, layout, history
  <2> QED BY <2>1, <2>2
<1>3. Ahead(k)' \in SUBSET Ahead(k)
  <2>1. CASE Land /\ running # k
    <3>1. due'[running] > now /\ due'[running] \in Nat /\ running \in known
      BY <1>1, <2>1, LandFacts DEF Land, TypeOK
    <3>2. forced' = forced /\ outdated' = outdated /\ ~ outdated
          /\ \A i \in known : i # running => due'[i] = due[i]
      BY <1>1, <2>1 DEF Land, queue, TypeOK
    <3>3. due'[k] = due[k] /\ due[k] \in Nat
      BY <1>1, <2>1, <3>2 DEF TypeOK
    <3>4. ~ (due'[running] < due'[k] \/ (due'[running] = due'[k] /\ running <= k))
      BY <1>1, <3>1, <3>3
    <3> QED BY <1>2, <3>2, <3>3, <3>4 DEF Ahead, NotAfter
  <2>2. CASE LandOutdated
    <3>1. outdated /\ ~ outdated' /\ forced' = forced \cup {running} /\ due' = due
      BY <2>2 DEF LandOutdated, Queue
    <3> QED BY <1>2, <3>1 DEF Ahead, NotAfter
  <2>3. CASE LandForgotten
    <3>1. running \notin known /\ ~ outdated' /\ forced' = forced /\ due' = due
      BY <2>3 DEF LandForgotten, queue
    <3> QED BY <1>2, <3>1 DEF Ahead, NotAfter
  <2> QED BY <2>1, <2>2, <2>3
<1>4. Cardinality(Ahead(k)') <= Cardinality(Ahead(k))
  <2>1. Ahead(k) \in SUBSET Keys
    BY <1>1, MeasureFacts DEF Measure
  <2> QED BY <1>3, <2>1, Smaller
<1>5. Samples(k)' + 1 <= Samples(k)
  BY <1>1, <1>2, <1>4, SamplesMove
<1>6. Elapsed <= MaxSample /\ Elapsed' = 0
  <2>1. started <= now /\ now <= started + MaxSample
    BY <1>1, <1>2 DEF Clock, Calm
  <2> QED BY <1>1, <1>2, <2>1, Durations DEF Elapsed
<1> QED
  BY <1>2, <1>5, <1>6 DEF Costs

\* The steps that leave the keys ahead as they are; time passes only during a sample.
LEMMA OtherSamples ==
  ASSUME Inv, Busy, Clock, WakesInTime, TypeOK', NEW k \in known, calm[k], due[k] <= now,
         Tick \/ Wake \/ NothingDue \/ (\E j \in Keys : ServicesChange(j)) \/ UNCHANGED vars
  PROVE  Costs(k)
<1>1. TypeOK /\ k \in Keys /\ now \in Nat /\ started \in Nat /\ due[k] \in Nat /\ load[k] \in Nat
  BY DEF Inv, TypeOK
<1>2. ~ NothingDue
  BY <1>1 DEF NothingDue
<1>3. UNCHANGED <<known, due, forced, running, started, outdated, load>>
  BY <1>2 DEF Tick, Wake, ServicesChange, vars, layout, queue, thread, history
<1>4. Ahead(k)' = Ahead(k)
  BY <1>3 DEF Ahead, NotAfter
<1>5. pc' = "sample" <=> pc = "sample"
  BY <1>2 DEF Tick, Wake, ServicesChange, vars, thread
<1>6. Samples(k)' = Samples(k) /\ Samples(k) \in Nat
  BY <1>1, <1>4, <1>5, MeasureFacts DEF Samples, Measure
<1>7. Samples(k)' <= Samples(k) /\ Samples(k)' + load[k] <= Samples(k) + load'[k]
  BY <1>1, <1>3, <1>6
<1>8. CASE Tick
  <2>1. pc = "sample"
    <3>1. pc = "wait" => wakeat <= due[k] /\ wakeat \in Nat
      BY <1>1 DEF WakesInTime, Calm, Inv, TypeOK
    <3> QED BY <1>1, <1>8, <3>1 DEF Tick
  <2>2. now' = now + 1
    BY <1>8 DEF Tick
  <2>3. Elapsed' = Elapsed + 1
    BY <1>1, <1>3, <1>5, <2>1, <2>2 DEF Elapsed, Clock
  <2> QED BY <1>3, <1>7, <2>2, <2>3 DEF Costs
<1>9. CASE ~ Tick
  <2>1. now' = now
    BY <1>2, <1>9 DEF Wake, ServicesChange, vars
  <2>2. Elapsed' = Elapsed
    BY <1>3, <1>5, <2>1 DEF Elapsed
  <2> QED BY <1>7, <2>1, <2>2 DEF Costs
<1> QED
  BY <1>8, <1>9

\* No step costs a calm key that is due more than it can pay.
LEMMA DueStep ==
  ASSUME Inv, Steady, [Next]_vars, TypeOK',
         NEW k \in Keys, calm[k], calm'[k], due[k] <= now, ~ (Land /\ running = k)
  PROVE  Costs(k)
<1>0. Busy /\ Clock /\ WakesInTime /\ k \in known
  BY DEF Steady, Busy
<1>1. CASE Plan \/ HandlerPlans
  BY <1>0, <1>1, PlanSamples
<1>2. CASE Land \/ LandOutdated \/ LandForgotten
  BY <1>0, <1>2, LandSamples
<1>3. CASE Tick \/ Wake \/ NothingDue \/ (\E j \in Keys : ServicesChange(j)) \/ UNCHANGED vars
  BY <1>0, <1>3, OtherSamples
<1>4. ASSUME NEW j \in Keys, PickForced(j) \/ PickDue(j) PROVE Costs(k)
  BY <1>0, <1>4, PickSamples
<1>5. ASSUME NEW j \in Keys, NEW invalidate \in BOOLEAN, Request(j, invalidate) PROVE Costs(k)
  BY <1>0, <1>5, RequestSamples
<1>6. ~ HostStalls /\ ~ PlanFails /\ ~ Abandon
  BY DEF HostStalls, PlanFails, Abandon, Disturbed
<1> QED
  BY <1>1, <1>2, <1>3, <1>4, <1>5, <1>6 DEF Next

\* What a step costs is paid from the samples that are over.
LEMMA Pays ==
  ASSUME NEW t \in Nat, NEW d \in Nat, NEW x \in Nat, NEW e \in Nat, t <= d + MaxSample * x + e,
         NEW t1 \in Nat, NEW y \in Nat, NEW e1 \in Nat,
         \/ t1 = t + 1 /\ x <= y /\ e1 = e + 1
         \/ t1 = t /\ x <= y /\ e1 = e
         \/ t1 = t /\ x + 1 <= y /\ e <= MaxSample /\ e1 = 0
  PROVE  t1 <= d + MaxSample * y + e1
<1>1. MaxSample \in Nat /\ x + 1 \in Nat
  BY Durations
<1>2. CASE t1 = t /\ x + 1 <= y /\ e <= MaxSample /\ e1 = 0
  <2>1. MaxSample * (x + 1) <= MaxSample * y /\ MaxSample * (x + 1) = MaxSample * x + MaxSample
        /\ MaxSample * x \in Nat /\ MaxSample * y \in Nat
    BY <1>1, <1>2, Products, NextProduct
  <2> QED BY <1>1, <1>2, <2>1
<1>3. CASE (t1 = t + 1 /\ x <= y /\ e1 = e + 1) \/ (t1 = t /\ x <= y /\ e1 = e)
  <2>1. MaxSample * x <= MaxSample * y /\ MaxSample * x \in Nat /\ MaxSample * y \in Nat
    BY <1>1, <1>3, Products
  <2> QED BY <1>3, <2>1
<1> QED
  BY <1>2, <1>3

\* A key that has time left is no later than that.
LEMMA EarlyFacts ==
  ASSUME NEW t \in Nat, NEW d \in Nat, t <= d, NEW x \in Nat, NEW e \in Nat
  PROVE  t <= d + MaxSample * x + e
<1>1. MaxSample * x \in Nat
  BY Products, Durations
<1> QED
  BY <1>1

LEMMA ElapsedFacts == TypeOK /\ Clock => Elapsed \in Nat
  BY DEF Elapsed, TypeOK, Clock

LEMMA ElapsedNext == TypeOK' /\ Clock' => Elapsed' \in Nat
<1> SUFFICES ASSUME TypeOK', Clock' PROVE Elapsed' \in Nat
  OBVIOUS
<1>1. now' \in Nat /\ started' \in Nat
  BY DEF TypeOK
<1>2. \A a, b \in Nat : b <= a => a - b \in Nat
  OBVIOUS
<1>3. CASE pc' = "sample"
  <2>1. started' <= now'
    BY <1>3 DEF Clock
  <2>2. now' - started' \in Nat
    BY <1>1, <1>2, <2>1
  <2> QED BY <1>3, <2>2 DEF Elapsed
<1>4. CASE pc' # "sample"
  BY <1>4 DEF Elapsed
<1> QED
  BY <1>3, <1>4

\* What is over is a number of samples.
LEMMA OverFacts ==
  ASSUME NEW l \in Nat, NEW s \in Nat, s <= N + 1
  PROVE  (N + 1 + l) - s \in Nat /\ (N + 1 + l) - s <= N + 1 + l
  BY Durations

LEMMA TimelyStep == Inv /\ Steady /\ Timely /\ Inv' /\ Steady' /\ [Next]_vars => Timely'
<1> SUFFICES ASSUME Inv, Steady, Timely, Inv', Steady', [Next]_vars, NEW k \in Keys, calm'[k]
             PROVE  (now <= Deadline(k) + MaxSample * Over(k) + Elapsed)'
  BY DEF Timely
<1>1. TypeOK /\ TypeOK' /\ Busy /\ Clock /\ Clock'
  BY DEF Inv, Steady
<1>2. /\ now \in Nat /\ now' \in Nat /\ Elapsed \in Nat /\ Elapsed' \in Nat /\ due[k] \in Nat
      /\ attempt[k] \in Nat /\ attempt'[k] \in Nat /\ started \in Nat
      /\ load[k] \in Nat /\ load'[k] \in Nat
  BY <1>1, ElapsedFacts, ElapsedNext DEF TypeOK
<1>3. Samples(k) \in Nat /\ Samples(k) <= N + 1 /\ Samples(k)' \in Nat /\ Samples(k)' <= N + 1
  BY <1>1, MeasureFacts, MeasureNext DEF Measure
<1> DEFINE d  == attempt[k] + MaxSample + Interval
           d1 == attempt'[k] + MaxSample + Interval
           s  == Samples(k)
           s1 == Samples(k)'
           x  == (N + 1 + load[k]) - s
           y  == (N + 1 + load'[k]) - s1
           e  == Elapsed
           e1 == Elapsed'
<1>4. d \in Nat /\ d1 \in Nat /\ x \in Nat /\ y \in Nat /\ e \in Nat /\ e1 \in Nat
  BY <1>2, <1>3, Durations, OverFacts
<1>5. SUFFICES now' <= d1 + MaxSample * y + e1
  BY DEF Deadline, Over
<1>6. CASE Land /\ running = k
  <2>1. attempt'[k] = started /\ now' = now
    BY <1>1, <1>6 DEF Land, TypeOK
  <2>2. now <= started + MaxSample
    BY <1>1, <1>6, CalmFacts
  <2>3. now' <= d1
    BY <1>2, <2>1, <2>2, Durations
  <2> HIDE DEF d1, y, e1
  <2> QED BY <1>2, <1>4, <2>3, EarlyFacts
<1>7. CASE ~ (Land /\ running = k)
  <2>1. calm[k]
    BY <1>1, <1>7, CalmFacts
  <2>2. attempt'[k] = attempt[k]
    BY <1>1, <1>7, KeyStays DEF Apply
  <2>3. now <= d + MaxSample * x + e /\ d1 = d
    BY <2>1, <2>2 DEF Timely, Deadline, Over
  <2>4. due[k] <= d \/ due[k] <= now
    BY <2>1 DEF Steady, Rounds, Deadline
  <2>5. CASE due[k] <= now
    <3>1. Costs(k)
      BY <1>1, <1>7, <2>1, <2>5, DueStep
    <3>2. \/ now' = now + 1 /\ load'[k] = load[k] /\ s1 <= s /\ e1 = e + 1
          \/ now' = now /\ s1 + load[k] <= s + load'[k] /\ e1 = e
          \/ now' = now /\ load'[k] = load[k] /\ s1 + 1 <= s /\ e <= MaxSample /\ e1 = 0
      BY <3>1 DEF Costs
    <3>3. s \in Nat /\ s1 \in Nat
      BY <1>3
    <3> HIDE DEF s, s1, e, e1
    <3>4. \/ now' = now + 1 /\ x <= y /\ e1 = e + 1
          \/ now' = now /\ x <= y /\ e1 = e
          \/ now' = now /\ x + 1 <= y /\ e <= MaxSample /\ e1 = 0
      BY <1>2, <3>2, <3>3, Durations
    <3> HIDE DEF d, d1, x, y
    <3>5. now' <= d + MaxSample * y + e1
      BY <1>2, <1>4, <2>3, <3>4, Pays
    <3> QED BY <2>3, <3>5
  <2>6. CASE due[k] > now
    <3>1. now' <= now + 1
      <4>1. ~ HostStalls
        BY DEF HostStalls, Disturbed
      <4> QED BY <1>1, <1>2, <4>1, StepFacts
    <3>2. now' <= d1
      BY <1>2, <1>4, <2>3, <2>4, <2>6, <3>1
    <3> HIDE DEF d, d1, y, e1
    <3> QED BY <1>2, <1>4, <3>2, EarlyFacts
  <2> QED
    BY <1>2, <2>5, <2>6
<1> QED
  BY <1>6, <1>7

LEMMA InitSteady == Init => Steady /\ Timely
  BY DEF Init, Steady, Busy, Calm, Clock, WakesInTime, Rounds, Timely

LEMMA SteadyStep == Inv /\ Steady /\ Timely /\ [Next]_vars => Steady' /\ Timely'
<1> SUFFICES ASSUME Inv, Steady, Timely, [Next]_vars PROVE Steady' /\ Timely'
  OBVIOUS
<1>1. Steady'
  BY BusyStep, ClockStep, WakesStep, RoundsStep DEF Steady
<1>2. Inv'
  BY NextInv
<1> QED
  BY <1>1, <1>2, TimelyStep

\* The samples that came, and the one under way, fit into what is left of two intervals.
LEMMA StaleBound ==
  ASSUME Inv, Steady, Timely PROVE NeverStaleWhileQuiet
<1> SUFFICES ASSUME NEW k \in known, calm[k], (N + 2 + load[k]) * MaxSample < Interval
             PROVE  now - attempt[k] < 2 * Interval
  BY DEF NeverStaleWhileQuiet
<1>1. /\ TypeOK /\ Clock /\ k \in Keys /\ load[k] \in Nat
      /\ now \in Nat /\ attempt[k] \in Nat /\ started \in Nat
  BY DEF Inv, Steady, TypeOK
<1>2. Measure
  BY <1>1, MeasureFacts
<1> DEFINE m == N + 1 + load[k]
           x == Over(k)
           e == Elapsed
<1>3. m \in Nat /\ x \in Nat /\ x <= m
  BY <1>1, <1>2, Durations, OverFacts DEF Over, Measure
<1>4. now <= attempt[k] + MaxSample + Interval + MaxSample * x + e
  BY <1>1 DEF Timely, Deadline
<1>5. e \in Nat /\ (e = 0 \/ (x + 1 <= m /\ e <= MaxSample))
  <2>1. CASE pc = "sample"
    <3>1. Samples(k) >= 1 /\ Samples(k) \in Nat
      BY <1>1, <1>2, <2>1, Durations DEF Measure
    <3>2. x + 1 <= m
      BY <1>1, <3>1, Durations DEF Over
    <3>3. e \in Nat /\ e <= MaxSample
      BY <1>1, <2>1, Durations DEF Elapsed, Clock, Calm
    <3> HIDE DEF e, x
    <3> QED BY <3>2, <3>3
  <2>2. CASE pc # "sample"
    BY <2>2 DEF Elapsed
  <2> QED BY <2>1, <2>2
<1>6. (m + 1) * MaxSample < Interval
  <2>1. m + 1 = N + 2 + load[k]
    BY <1>1, Durations
  <2> QED BY <2>1
<1> HIDE DEF x, e, m
<1>7. MaxSample \in Nat /\ Interval \in Nat
  BY Durations
<1>8. MaxSample * x \in Nat /\ MaxSample * m \in Nat /\ MaxSample * x <= MaxSample * m
  BY <1>3, <1>7, Products
<1>9. MaxSample * x + e <= MaxSample * m
  <2>1. CASE e = 0
    BY <1>8, <2>1
  <2>2. CASE x + 1 <= m /\ e <= MaxSample
    <3>1. x + 1 \in Nat
      BY <1>3
    <3>2. MaxSample * (x + 1) <= MaxSample * m /\ MaxSample * (x + 1) = MaxSample * x + MaxSample
      BY <1>3, <1>7, <2>2, <3>1, Products, NextProduct
    <3> QED BY <1>5, <1>7, <1>8, <2>2, <3>2
  <2> QED BY <1>5, <2>1, <2>2
<1>10. MaxSample * m + MaxSample < Interval
  <2>1. (m + 1) * MaxSample = MaxSample * (m + 1)
    BY <1>3, <1>7
  <2>2. MaxSample * (m + 1) = MaxSample * m + MaxSample
    BY <1>3, <1>7, NextProduct
  <2> QED BY <1>6, <2>1, <2>2
<1>11. now < attempt[k] + Interval + Interval
  BY <1>1, <1>4, <1>5, <1>7, <1>8, <1>9, <1>10
<1> QED
  BY <1>1, <1>7, <1>11

\* A service whose rounds nothing has disturbed since its last sample never turns stale
\* (manager.py:478-492, 528-578), as long as the samples that may have come since then, one
\* for each request and one of each service for a plan that found one recreated, fit into
\* an interval.
THEOREM StaleTheorem == Spec => []NeverStaleWhileQuiet
<1>1. Spec => [](Steady /\ Timely)
  BY Invariant, InitSteady, SteadyStep, PTL DEF Spec
<1>2. Inv /\ Steady /\ Timely => NeverStaleWhileQuiet
  BY StaleBound
<1> QED
  BY <1>1, <1>2, Invariant, PTL
==============================================================================
