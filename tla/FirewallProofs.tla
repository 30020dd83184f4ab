---------------------------- MODULE FirewallProofs ----------------------------
(***************************************************************************)
(* The firewall transaction, proved of Firewall for any number of rules,   *)
(* failures and interrupts, and any changes of the administrator.          *)
(***************************************************************************)
EXTENDS Firewall, SequenceTheorems, FiniteSetTheorems, TLAPS

------------------------------------------------------------------------------
(* Sequences *)

\* RemoveAt closes the gap.
LEMMA RemoveFacts ==
  ASSUME NEW S, NEW rs \in Seq(S), NEW i \in 1..Len(rs)
  PROVE  /\ RemoveAt(rs, i) \in Seq(S)
         /\ Len(RemoveAt(rs, i)) = Len(rs) - 1
         /\ \A k \in 1..(Len(rs) - 1) :
               RemoveAt(rs, i)[k] = IF k < i THEN rs[k] ELSE rs[k + 1]
<1> DEFINE a == SubSeq(rs, 1, i - 1)
           b == SubSeq(rs, i + 1, Len(rs))
<1>1. Len(rs) \in Nat /\ \A k \in 1..Len(rs) : rs[k] \in S
  BY ElementOfSeq, LenProperties
<1>2. /\ a \in Seq(S) /\ Len(a) = i - 1
      /\ \A k \in 1..(i - 1) : a[k] = rs[k]
  BY <1>1, SubSeqProperties
<1>3. /\ b \in Seq(S) /\ Len(b) = Len(rs) - i
      /\ \A k \in 1..(Len(rs) - i) : b[k] = rs[i + k]
  <2>1. \A k \in (i + 1)..Len(rs) : rs[k] \in S
    BY <1>1
  <2>2. /\ b \in Seq(S)
        /\ Len(b) = IF i + 1 <= Len(rs) THEN Len(rs) - (i + 1) + 1 ELSE 0
        /\ \A k \in 1..(Len(rs) - (i + 1) + 1) : b[k] = rs[(i + 1) + k - 1]
    BY <1>1, <2>1, SubSeqProperties
  <2>3. Len(b) = Len(rs) - i
    BY <1>1, <2>2
  <2>4. \A k \in 1..(Len(rs) - i) : b[k] = rs[i + k]
    BY <1>1, <2>2
  <2> QED BY <2>2, <2>3, <2>4
<1> HIDE DEF a, b
<1>4. /\ a \o b \in Seq(S) /\ Len(a \o b) = Len(a) + Len(b)
      /\ \A k \in 1..(Len(a) + Len(b)) : (a \o b)[k] = IF k <= Len(a) THEN a[k] ELSE b[k - Len(a)]
  BY <1>2, <1>3, ConcatProperties
<1>5. RemoveAt(rs, i) = a \o b
  BY DEF RemoveAt, a, b
<1>6. Len(a \o b) = Len(rs) - 1
  BY <1>1, <1>2, <1>3, <1>4
<1>7. ASSUME NEW k \in 1..(Len(rs) - 1) PROVE (a \o b)[k] = IF k < i THEN rs[k] ELSE rs[k + 1]
  <2>1. k \in 1..(Len(a) + Len(b))
    BY <1>1, <1>2, <1>3
  <2>2. CASE k < i
    BY <1>1, <1>2, <1>4, <2>1, <2>2
  <2>3. CASE k >= i
    <3>1. (a \o b)[k] = b[k - (i - 1)] /\ k - (i - 1) \in 1..(Len(rs) - i)
      BY <1>1, <1>2, <1>4, <2>1, <2>3
    <3>2. b[k - (i - 1)] = rs[i + (k - (i - 1))] /\ i + (k - (i - 1)) = k + 1
      BY <1>1, <1>3, <3>1
    <3> QED BY <2>3, <3>1, <3>2, <1>1
  <2>4. k < i \/ k >= i
    BY <1>1
  <2> QED BY <2>2, <2>3, <2>4
<1> QED
  BY <1>4, <1>5, <1>6, <1>7

\* InsertAt makes room.
LEMMA InsertFacts ==
  ASSUME NEW S, NEW rs \in Seq(S), NEW e \in S, NEW p \in 1..(Len(rs) + 1)
  PROVE  /\ InsertAt(rs, p, e) \in Seq(S)
         /\ Len(InsertAt(rs, p, e)) = Len(rs) + 1
         /\ \A k \in 1..(Len(rs) + 1) :
               InsertAt(rs, p, e)[k] = IF k < p THEN rs[k] ELSE IF k = p THEN e ELSE rs[k - 1]
<1> DEFINE a == SubSeq(rs, 1, p - 1)
           b == SubSeq(rs, p, Len(rs))
           c == a \o <<e>>
<1>1. Len(rs) \in Nat /\ \A k \in 1..Len(rs) : rs[k] \in S
  BY ElementOfSeq, LenProperties
<1>2. /\ a \in Seq(S) /\ Len(a) = p - 1
      /\ \A k \in 1..(p - 1) : a[k] = rs[k]
  BY <1>1, SubSeqProperties
<1>3. /\ b \in Seq(S) /\ Len(b) = Len(rs) - p + 1
      /\ \A k \in 1..(Len(rs) - p + 1) : b[k] = rs[p + k - 1]
  <2>1. \A k \in p..Len(rs) : rs[k] \in S
    BY <1>1
  <2>2. /\ b \in Seq(S)
        /\ Len(b) = IF p <= Len(rs) THEN Len(rs) - p + 1 ELSE 0
        /\ \A k \in 1..(Len(rs) - p + 1) : b[k] = rs[p + k - 1]
    BY <1>1, <2>1, SubSeqProperties
  <2> QED BY <1>1, <2>2
<1>4. <<e>> \in Seq(S) /\ Len(<<e>>) = 1 /\ <<e>>[1] = e
  OBVIOUS
<1> HIDE DEF a, b
<1>5. /\ c \in Seq(S) /\ Len(c) = p
      /\ \A k \in 1..p : c[k] = IF k <= p - 1 THEN a[k] ELSE <<e>>[k - (p - 1)]
  BY <1>1, <1>2, <1>4, ConcatProperties
<1>6. \A k \in 1..p : c[k] = IF k < p THEN rs[k] ELSE e
  BY <1>1, <1>2, <1>4, <1>5
<1> HIDE DEF c
<1>7. /\ c \o b \in Seq(S) /\ Len(c \o b) = Len(c) + Len(b)
      /\ \A k \in 1..(Len(c) + Len(b)) : (c \o b)[k] = IF k <= Len(c) THEN c[k] ELSE b[k - Len(c)]
  BY <1>3, <1>5, ConcatProperties
<1>8. InsertAt(rs, p, e) = c \o b
  BY DEF InsertAt, a, b, c
<1>9. Len(c \o b) = Len(rs) + 1
  BY <1>1, <1>3, <1>5, <1>7
<1>10. ASSUME NEW k \in 1..(Len(rs) + 1)
       PROVE  (c \o b)[k] = IF k < p THEN rs[k] ELSE IF k = p THEN e ELSE rs[k - 1]
  <2>1. k \in 1..(Len(c) + Len(b))
    BY <1>1, <1>3, <1>5
  <2>2. CASE k <= p
    BY <1>1, <1>5, <1>6, <1>7, <2>1, <2>2
  <2>3. CASE k > p
    <3>1. (c \o b)[k] = b[k - p] /\ k - p \in 1..(Len(rs) - p + 1)
      BY <1>1, <1>5, <1>7, <2>1, <2>3
    <3>2. b[k - p] = rs[p + (k - p) - 1] /\ p + (k - p) - 1 = k - 1
      BY <1>1, <1>3, <3>1
    <3> QED BY <2>3, <3>1, <3>2, <1>1
  <2>4. k <= p \/ k > p
    BY <1>1
  <2> QED BY <2>2, <2>3, <2>4
<1> QED
  BY <1>7, <1>8, <1>9, <1>10

------------------------------------------------------------------------------
(* UFW *)

List(rs) == rs \in Seq(Rule) /\ IsRuleList(rs)

\* A rule that may stand in a list: what the helper writes is allowed.
Writable(r) == r \in Rule /\ (r.owner = "node" => r = Mine(r.id))

LEMMA ListFacts ==
  ASSUME NEW rs, List(rs)
  PROVE  /\ Len(rs) \in Nat /\ DOMAIN rs = 1..Len(rs)
         /\ \A i \in 1..Len(rs) : Writable(rs[i]) /\ rs[i] \in ToSet(rs)
         /\ \A r \in ToSet(rs) : Writable(r)
         /\ \A r, x \in ToSet(rs) : r.id = x.id => r = x
         /\ \A id : With(rs, id) = {} <=> \A r \in ToSet(rs) : r.id # id
<1>1. Len(rs) \in Nat /\ DOMAIN rs = 1..Len(rs) /\ \A i \in 1..Len(rs) : rs[i] \in Rule
  BY ElementOfSeq, LenProperties DEF List
<1> QED
  BY <1>1 DEF List, IsRuleList, ToSet, With, Writable

LEMMA PlaceFacts ==
  ASSUME NEW rs, List(rs), NEW r \in ToSet(rs)
  PROVE  Place(rs, r) \in 1..Len(rs) /\ rs[Place(rs, r)] = r
<1>1. DOMAIN rs = 1..Len(rs)
  BY ListFacts
<1> QED
  BY <1>1 DEF Place, ToSet

\* A sequence of writable rules that does not name an identity twice is a list.
LEMMA MakesList ==
  ASSUME NEW rs \in Seq(Rule), \A i \in 1..Len(rs) : Writable(rs[i]),
         \A i, j \in 1..Len(rs) : rs[i].id = rs[j].id => i = j
  PROVE  List(rs)
<1>1. DOMAIN rs = 1..Len(rs)
  BY LenProperties
<1> QED
  BY <1>1 DEF List, IsRuleList, Writable

LEMMA DropFacts ==
  ASSUME NEW rs, List(rs), NEW i \in 1..Len(rs)
  PROVE  List(RemoveAt(rs, i)) /\ ToSet(RemoveAt(rs, i)) = ToSet(rs) \ {rs[i]}
<1> DEFINE new == RemoveAt(rs, i)
           n   == Len(rs)
<1>1. /\ n \in Nat /\ DOMAIN rs = 1..n /\ rs \in Seq(Rule)
      /\ \A k \in 1..n : Writable(rs[k])
      /\ \A j, k \in 1..n : rs[j].id = rs[k].id => j = k
  BY ListFacts DEF List, IsRuleList
<1>2. /\ new \in Seq(Rule) /\ Len(new) = n - 1
      /\ \A k \in 1..(n - 1) : new[k] = IF k < i THEN rs[k] ELSE rs[k + 1]
  BY <1>1, RemoveFacts
<1>3. DOMAIN new = 1..(n - 1)
  BY <1>2, LenProperties
<1> HIDE DEF new, n
<1>4. \A k \in 1..(n - 1) : Writable(new[k])
  BY <1>1, <1>2
<1>5. \A j, k \in 1..(n - 1) : new[j].id = new[k].id => j = k
  <2> SUFFICES ASSUME NEW j \in 1..(n - 1), NEW k \in 1..(n - 1), new[j].id = new[k].id PROVE j = k
    OBVIOUS
  <2> DEFINE at(m) == IF m < i THEN m ELSE m + 1
  <2>1. at(j) \in 1..n /\ at(k) \in 1..n /\ new[j] = rs[at(j)] /\ new[k] = rs[at(k)]
    BY <1>1, <1>2
  <2>2. at(j) = at(k)
    BY <1>1, <2>1
  <2> QED BY <1>1, <2>2
<1>6. List(new)
  BY <1>2, <1>4, <1>5, MakesList
<1>7. ASSUME NEW k \in 1..(n - 1) PROVE new[k] \in ToSet(rs) \ {rs[i]}
  <2>1. PICK m \in 1..n : m # i /\ new[k] = rs[m]
    BY <1>1, <1>2 DEF n
  <2> QED BY <1>1, <2>1 DEF ToSet, n
<1>8. ASSUME NEW k \in 1..n, k # i PROVE rs[k] \in ToSet(new)
  <2>1. CASE k < i
    BY <1>1, <1>2, <1>3, <2>1 DEF ToSet, n
  <2>2. CASE k > i
    <3>1. k - 1 \in 1..(n - 1) /\ new[k - 1] = rs[k]
      BY <1>1, <1>2, <2>2 DEF n
    <3> QED BY <1>3, <3>1 DEF ToSet
  <2> QED BY <1>8, <2>1, <2>2, <1>1 DEF n
<1>9. ToSet(new) = ToSet(rs) \ {rs[i]}
  BY <1>1, <1>3, <1>7, <1>8 DEF ToSet
<1> QED
  BY <1>6, <1>9 DEF new

\* ufw delete takes the one rule out of force.
LEMMA DeleteFacts ==
  ASSUME NEW rs, List(rs), NEW r
  PROVE  List(UfwDelete(rs, r)) /\ ToSet(UfwDelete(rs, r)) = ToSet(rs) \ {r}
<1>1. CASE r \in ToSet(rs)
  BY <1>1, PlaceFacts, DropFacts DEF UfwDelete
<1>2. CASE r \notin ToSet(rs)
  BY <1>2 DEF UfwDelete
<1> QED
  BY <1>1, <1>2

\* ufw allow puts the one rule in force, in the stead of any other of that identity.
LEMMA AllowFacts ==
  ASSUME NEW rs, List(rs), NEW r, Writable(r)
  PROVE  /\ List(UfwAllow(rs, r))
         /\ ToSet(UfwAllow(rs, r)) = {x \in ToSet(rs) : x.id # r.id} \cup {r}
<1> DEFINE n == Len(rs)
<1>1. /\ n \in Nat /\ DOMAIN rs = 1..n /\ rs \in Seq(Rule) /\ r \in Rule
      /\ \A k \in 1..n : Writable(rs[k])
      /\ \A j, k \in 1..n : rs[j].id = rs[k].id => j = k
  BY ListFacts DEF List, IsRuleList, Writable
<1>2. CASE With(rs, r.id) = {}
  <2> DEFINE new == Append(rs, r)
  <2>1. /\ new \in Seq(Rule) /\ Len(new) = n + 1
        /\ \A k \in 1..n : new[k] = rs[k]
        /\ new[n + 1] = r
    BY <1>1, AppendProperties
  <2>2. DOMAIN new = 1..(n + 1) /\ UfwAllow(rs, r) = new
    BY <2>1, <1>2, LenProperties DEF UfwAllow
  <2>3. \A k \in 1..n : rs[k].id # r.id
    BY <1>1, <1>2 DEF With
  <2> HIDE DEF new, n
  <2>4. \A k \in 1..(n + 1) : Writable(new[k])
    <3> SUFFICES ASSUME NEW k \in 1..(n + 1) PROVE Writable(new[k])
      OBVIOUS
    <3>1. k \in 1..n \/ k = n + 1
      BY <1>1
    <3> QED BY <1>1, <2>1, <3>1
  <2>5. \A j, k \in 1..(n + 1) : new[j].id = new[k].id => j = k
    <3> SUFFICES ASSUME NEW j \in 1..(n + 1), NEW k \in 1..(n + 1), new[j].id = new[k].id
                 PROVE  j = k
      OBVIOUS
    <3>1. (j \in 1..n \/ j = n + 1) /\ (k \in 1..n \/ k = n + 1)
      BY <1>1
    <3> QED BY <1>1, <2>1, <2>3, <3>1
  <2>6. List(new)
    BY <2>1, <2>4, <2>5, MakesList
  <2>7. ToSet(new) = ToSet(rs) \cup {r}
    <3>1. ASSUME NEW k \in 1..(n + 1) PROVE new[k] \in ToSet(rs) \cup {r}
      <4>1. k \in 1..n \/ k = n + 1
        BY <1>1
      <4> QED BY <1>1, <2>1, <4>1 DEF ToSet
    <3>2. \A k \in 1..n : k \in 1..(n + 1) /\ new[k] = rs[k]
      BY <1>1, <2>1
    <3>3. n + 1 \in 1..(n + 1) /\ new[n + 1] = r
      BY <1>1, <2>1
    <3> QED BY <1>1, <2>2, <3>1, <3>2, <3>3 DEF ToSet
  <2>8. {x \in ToSet(rs) : x.id # r.id} = ToSet(rs)
    BY <1>1, <2>3 DEF ToSet
  <2> QED BY <2>2, <2>6, <2>7, <2>8
<1>3. CASE With(rs, r.id) # {}
  <2> DEFINE new == [k \in DOMAIN rs |-> IF rs[k].id = r.id THEN r ELSE rs[k]]
  <2>1. UfwAllow(rs, r) = new
    BY <1>3 DEF UfwAllow
  <2>2. \A k \in 1..n : new[k] = IF rs[k].id = r.id THEN r ELSE rs[k]
    BY <1>1
  <2>3. DOMAIN new = 1..n
    BY <1>1
  <2>4. \A k \in 1..n : Writable(new[k]) /\ new[k].id = rs[k].id
    BY <1>1, <2>2
  <2>5. new \in [1..n -> Rule]
    BY <1>1, <2>2
  <2> HIDE DEF new, n
  <2>6. new \in Seq(Rule) /\ Len(new) = n
    BY <1>1, <2>3, <2>5, LenProperties
  <2>7. List(new)
    BY <1>1, <2>4, <2>6, MakesList
  <2>8. ASSUME NEW x \in ToSet(new) PROVE x \in {y \in ToSet(rs) : y.id # r.id} \cup {r}
    BY <1>1, <2>2, <2>3 DEF ToSet
  <2>9. ASSUME NEW x \in ToSet(rs), x.id # r.id PROVE x \in ToSet(new)
    BY <1>1, <2>2, <2>3, <2>9 DEF ToSet
  <2>10. r \in ToSet(new)
    BY <1>1, <1>3, <2>2, <2>3 DEF ToSet, With
  <2> QED BY <2>1, <2>7, <2>8, <2>9, <2>10
<1> QED
  BY <1>2, <1>3

\* ufw insert adds the one rule, unless there is one of that identity.
LEMMA InsertedFacts ==
  ASSUME NEW rs, List(rs), NEW r, Writable(r), NEW p \in 1..(Len(rs) + 1)
  PROVE  /\ List(UfwInsert(rs, r, p))
         /\ ToSet(UfwInsert(rs, r, p)) = IF With(rs, r.id) = {} THEN ToSet(rs) \cup {r} ELSE ToSet(rs)
<1> DEFINE n == Len(rs)
           new == InsertAt(rs, p, r)
<1>1. /\ n \in Nat /\ DOMAIN rs = 1..n /\ rs \in Seq(Rule) /\ r \in Rule
      /\ \A k \in 1..n : Writable(rs[k])
      /\ \A j, k \in 1..n : rs[j].id = rs[k].id => j = k
  BY ListFacts DEF List, IsRuleList, Writable
<1>2. CASE With(rs, r.id) # {}
  BY <1>2 DEF UfwInsert
<1>3. CASE With(rs, r.id) = {}
  <2>1. UfwInsert(rs, r, p) = new
    BY <1>3 DEF UfwInsert
  <2>2. \A k \in 1..n : rs[k].id # r.id
    BY <1>1, <1>3 DEF With
  <2>3. /\ new \in Seq(Rule) /\ Len(new) = n + 1
        /\ \A k \in 1..(n + 1) : new[k] = IF k < p THEN rs[k] ELSE IF k = p THEN r ELSE rs[k - 1]
    BY <1>1, InsertFacts
  <2>4. DOMAIN new = 1..(n + 1) /\ p \in 1..(n + 1)
    BY <2>3, LenProperties
  <2> HIDE DEF new, n
  <2>5. ASSUME NEW k \in 1..(n + 1), k # p
        PROVE  \E m \in 1..n : new[k] = rs[m] /\ m = IF k < p THEN k ELSE k - 1
    BY <1>1, <2>3, <2>4, <2>5
  <2>6. new[p] = r
    BY <2>3, <2>4
  <2>7. \A k \in 1..(n + 1) : Writable(new[k])
    BY <1>1, <2>5, <2>6
  <2>8. \A j, k \in 1..(n + 1) : new[j].id = new[k].id => j = k
    <3> SUFFICES ASSUME NEW j \in 1..(n + 1), NEW k \in 1..(n + 1), new[j].id = new[k].id
                 PROVE  j = k
      OBVIOUS
    <3>1. CASE j = p \/ k = p
      BY <2>2, <2>5, <2>6, <3>1
    <3>2. CASE j # p /\ k # p
      <4>1. PICK a \in 1..n : new[j] = rs[a] /\ a = IF j < p THEN j ELSE j - 1
        BY <2>5, <3>2
      <4>2. PICK b \in 1..n : new[k] = rs[b] /\ b = IF k < p THEN k ELSE k - 1
        BY <2>5, <3>2
      <4>3. a = b
        BY <1>1, <4>1, <4>2
      <4> QED BY <1>1, <2>4, <3>2, <4>1, <4>2, <4>3
    <3> QED BY <3>1, <3>2
  <2>9. List(new)
    BY <2>3, <2>7, <2>8, MakesList
  <2>10. ASSUME NEW x \in ToSet(new) PROVE x \in ToSet(rs) \cup {r}
    BY <1>1, <2>4, <2>5, <2>6 DEF ToSet
  <2>11. ASSUME NEW k \in 1..n PROVE rs[k] \in ToSet(new)
    <3>1. CASE k < p
      <4>1. k \in 1..(n + 1) /\ new[k] = rs[k]
        BY <1>1, <2>3, <3>1
      <4> QED BY <2>4, <4>1 DEF ToSet
    <3>2. CASE k >= p
      <4>1. k + 1 \in 1..(n + 1) /\ new[k + 1] = rs[k]
        BY <1>1, <2>3, <2>4, <3>2
      <4> QED BY <2>4, <4>1 DEF ToSet
    <3>3. k < p \/ k >= p
      BY <1>1, <2>4
    <3> QED BY <3>1, <3>2, <3>3
  <2>12. r \in ToSet(new)
    BY <2>4, <2>6 DEF ToSet
  <2>13. ToSet(new) = ToSet(rs) \cup {r}
    BY <1>1, <2>10, <2>11, <2>12 DEF ToSet
  <2> QED BY <1>3, <2>1, <2>9, <2>13
<1> QED
  BY <1>2, <1>3

------------------------------------------------------------------------------
(* Counting: how far a rule moves up when others before it are gone *)

Count(G, i) == Cardinality({j \in G : j < i})

LEMMA GapsFinite ==
  ASSUME NEW n \in Nat, NEW G \in SUBSET (1..n)
  PROVE  IsFiniteSet(G) /\ \A j \in G : j \in Int /\ j >= 1 /\ j <= n
<1>1. IsFiniteSet(1..n)
  <2>1. 1 \in Int /\ n \in Int
    OBVIOUS
  <2> QED BY <2>1, FS_Interval
<1>2. IsFiniteSet(G)
  BY <1>1, FS_Subset
<1> QED
  BY <1>2

LEMMA CountFacts ==
  ASSUME NEW n \in Nat, NEW G \in SUBSET (1..n)
  PROVE  /\ Cardinality(G) \in Nat
         /\ \A i \in 1..(n + 1) : Count(G, i) \in Nat
<1>1. IsFiniteSet(G) /\ \A j \in G : j \in Int /\ j >= 1 /\ j <= n
  BY GapsFinite
<1>2. \A i \in 1..(n + 1) : IsFiniteSet({j \in G : j < i})
  BY <1>1, FS_Subset
<1> QED
  BY <1>1, <1>2, FS_CardinalityType DEF Count

\* From one place to a later one there are no more gaps than places, and one less when
\* the first is not a gap.
LEMMA CountGrows ==
  ASSUME NEW n \in Nat, NEW G \in SUBSET (1..n), NEW i \in 1..(n + 1), NEW k \in i..(n + 1)
  PROVE  /\ Count(G, i) <= Count(G, k)
         /\ Count(G, k) <= Count(G, i) + (k - i)
         /\ i < k /\ i \notin G => Count(G, k) < Count(G, i) + (k - i)
<1> DEFINE A == {j \in G : j < i}
           B == {j \in G : i <= j /\ j < k}
           C == {j \in G : j < k}
<1>1. IsFiniteSet(G) /\ \A j \in G : j \in Int /\ j >= 1 /\ j <= n
  BY GapsFinite
<1>2. IsFiniteSet(A) /\ IsFiniteSet(B) /\ IsFiniteSet(C)
  BY <1>1, FS_Subset
<1>0. i \in Int /\ k \in Int /\ i <= k
  OBVIOUS
<1>3. C = A \cup B /\ A \cap B = {}
  <2>1. \A j \in G : (j < k <=> j < i \/ (i <= j /\ j < k)) /\ ~ (j < i /\ i <= j)
    BY <1>0, <1>1
  <2> QED BY <2>1
<1>4. B \subseteq i..(k - 1) /\ (i \notin G => B \subseteq (i + 1)..(k - 1))
  <2>1. \A j \in G : i <= j /\ j < k => j \in i..(k - 1) /\ (j # i => j \in (i + 1)..(k - 1))
    BY <1>0, <1>1
  <2> QED BY <2>1
<1>5. /\ IsFiniteSet(i..(k - 1)) /\ Cardinality(i..(k - 1)) = k - i
      /\ i < k => IsFiniteSet((i + 1)..(k - 1)) /\ Cardinality((i + 1)..(k - 1)) = k - i - 1
  <2>1. i \in Int /\ k - 1 \in Int /\ i + 1 \in Int /\ k \in Int /\ i <= k
    OBVIOUS
  <2>2. IsFiniteSet(i..(k - 1)) /\ Cardinality(i..(k - 1)) = IF i > k - 1 THEN 0 ELSE (k - 1) - i + 1
    BY <2>1, FS_Interval
  <2>3. /\ IsFiniteSet((i + 1)..(k - 1))
        /\ Cardinality((i + 1)..(k - 1)) = IF i + 1 > k - 1 THEN 0 ELSE (k - 1) - (i + 1) + 1
    BY <2>1, FS_Interval
  <2> QED BY <2>1, <2>2, <2>3
<1> HIDE DEF A, B, C
<1>6. Cardinality(A) \in Nat /\ Cardinality(B) \in Nat /\ Cardinality(C) \in Nat
  BY <1>2, FS_CardinalityType
<1>7. Cardinality(A \cap B) = 0
  BY <1>3, FS_EmptySet
<1>8. Cardinality(C) = Cardinality(A) + Cardinality(B)
  <2>1. Cardinality(A \cup B) = Cardinality(A) + Cardinality(B) - Cardinality(A \cap B)
    BY <1>2, FS_Union
  <2> QED BY <1>3, <1>6, <1>7, <2>1
<1>9. Cardinality(B) <= k - i
  BY <1>4, <1>5, FS_Subset
<1>10. ASSUME i < k, i \notin G PROVE Cardinality(B) <= k - i - 1
  <2>1. IsFiniteSet((i + 1)..(k - 1)) /\ B \subseteq (i + 1)..(k - 1)
    BY <1>4, <1>5, <1>10
  <2>2. Cardinality(B) <= Cardinality((i + 1)..(k - 1))
    BY <2>1, FS_Subset
  <2> QED BY <1>5, <1>10, <2>2
<1>11. Count(G, i) = Cardinality(A) /\ Count(G, k) = Cardinality(C)
  BY DEF Count, A, C
<1> QED
  BY <1>6, <1>8, <1>9, <1>10, <1>11

\* Before everything there are no gaps, after everything all.
LEMMA CountEnds ==
  ASSUME NEW n \in Nat, NEW G \in SUBSET (1..n)
  PROVE  Count(G, 1) = 0 /\ Count(G, n + 1) = Cardinality(G)
<1>0. \A j \in G : j \in Int /\ j >= 1 /\ j <= n
  BY GapsFinite
<1>1. {j \in G : j < 1} = {} /\ {j \in G : j < n + 1} = G
  <2>1. \A j \in G : ~ (j < 1) /\ j < n + 1
    BY <1>0
  <2> QED BY <2>1
<1> QED
  BY <1>1, FS_EmptySet DEF Count

\* What is left has its place among the first ones.
LEMMA CountBounds ==
  ASSUME NEW n \in Nat, NEW G \in SUBSET (1..n), NEW i \in (1..n) \ G
  PROVE  i - Count(G, i) \in 1..(n - Cardinality(G))
<1>1. /\ Count(G, 1) <= Count(G, i) /\ Count(G, i) <= Count(G, 1) + (i - 1)
      /\ Count(G, n + 1) < Count(G, i) + ((n + 1) - i)
  BY CountGrows
<1>2. Count(G, i) \in Nat /\ Cardinality(G) \in Nat
  BY CountFacts
<1> QED
  BY <1>1, <1>2, CountEnds

\* One more gap moves up by one what comes after it.
LEMMA CountMore ==
  ASSUME NEW n \in Nat, NEW G \in SUBSET (1..n), NEW p \in (1..n) \ G
  PROVE  /\ Cardinality(G \cup {p}) = Cardinality(G) + 1
         /\ \A i \in 1..n : Count(G \cup {p}, i) = IF p < i THEN Count(G, i) + 1 ELSE Count(G, i)
<1>1. IsFiniteSet(G) /\ \A j \in G : j \in Int /\ j >= 1 /\ j <= n
  BY GapsFinite
<1>2. ASSUME NEW i \in 1..n
      PROVE  Count(G \cup {p}, i) = IF p < i THEN Count(G, i) + 1 ELSE Count(G, i)
  <2>1. IsFiniteSet({j \in G : j < i}) /\ p \notin {j \in G : j < i}
    BY <1>1, FS_Subset
  <2>2. CASE p < i
    <3>1. {j \in G \cup {p} : j < i} = {j \in G : j < i} \cup {p}
      BY <2>2
    <3> QED BY <2>1, <2>2, <3>1, FS_AddElement DEF Count
  <2>3. CASE ~ p < i
    <3>1. {j \in G \cup {p} : j < i} = {j \in G : j < i}
      BY <2>3
    <3> QED BY <2>3, <3>1 DEF Count
  <2> QED BY <2>2, <2>3
<1> QED
  BY <1>1, <1>2, FS_AddElement

------------------------------------------------------------------------------
(* How the rules rs stem from the rules bs of before: some of those in rm are gone, the *)
(* others are there in their order, and behind them only rules that were added for ad.  *)

Gone(rs, bs) == {i \in DOMAIN bs : bs[i] \notin ToSet(rs)}
Left(rs, bs) == Len(bs) - Cardinality(Gone(rs, bs))

Shape(rs, bs, ad, rm) ==
    /\ \A i \in Gone(rs, bs) : bs[i] \in rm
    /\ \A i \in (1..Len(bs)) \ Gone(rs, bs) : rs[i - Count(Gone(rs, bs), i)] = bs[i]
    /\ Left(rs, bs) <= Len(rs)
    /\ \A k \in 1..Left(rs, bs) : rs[k] \in ToSet(bs)
    /\ \A k \in (Left(rs, bs) + 1)..Len(rs) : \E a \in ad : rs[k] = Mine(a)
    /\ \A a \in ad : \A r \in ToSet(bs) : r.id # a

LEMMA GoneFacts ==
  ASSUME NEW rs, List(rs), NEW bs, List(bs)
  PROVE  /\ Len(rs) \in Nat /\ Len(bs) \in Nat
         /\ DOMAIN rs = 1..Len(rs) /\ DOMAIN bs = 1..Len(bs)
         /\ Gone(rs, bs) \in SUBSET (1..Len(bs)) /\ Cardinality(Gone(rs, bs)) \in Nat
         /\ Left(rs, bs) \in Nat
         /\ \A i \in 1..(Len(bs) + 1) : Count(Gone(rs, bs), i) \in Nat
         /\ \A i \in (1..Len(bs)) \ Gone(rs, bs) :
               i - Count(Gone(rs, bs), i) \in 1..Left(rs, bs)
<1> DEFINE n == Len(bs)
           G == Gone(rs, bs)
<1>1. /\ Len(rs) \in Nat /\ n \in Nat /\ DOMAIN rs = 1..Len(rs) /\ DOMAIN bs = 1..n
  BY ListFacts
<1>2. G \in SUBSET (1..n)
  BY <1>1 DEF Gone
<1> HIDE DEF G, n
<1>3. Cardinality(G) \in Nat /\ \A i \in 1..(n + 1) : Count(G, i) \in Nat
  BY <1>1, <1>2, CountFacts
<1>4. \A i \in (1..n) \ G : i - Count(G, i) \in 1..(n - Cardinality(G))
  BY <1>1, <1>2, CountBounds
<1>5. n - Cardinality(G) \in Nat
  <2>1. n + 1 \in 1..(n + 1) /\ 1 \in 1..(n + 1) /\ n + 1 \in 1..(n + 1)
    BY <1>1
  <2>2. Count(G, n + 1) <= Count(G, 1) + ((n + 1) - 1)
    BY <1>1, <1>2, <2>1, CountGrows
  <2>3. Count(G, 1) = 0 /\ Count(G, n + 1) = Cardinality(G)
    BY <1>1, <1>2, CountEnds
  <2> QED BY <1>1, <1>3, <2>2, <2>3
<1> QED
  BY <1>1, <1>2, <1>3, <1>4, <1>5 DEF Left, G, n

\* It begins with the rules themselves.
LEMMA ShapeStart ==
  ASSUME NEW bs, List(bs)
  PROVE  Shape(bs, bs, {}, {})
<1>1. Len(bs) \in Nat /\ DOMAIN bs = 1..Len(bs) /\ \A i \in 1..Len(bs) : bs[i] \in ToSet(bs)
  BY ListFacts
<1>2. Gone(bs, bs) = {}
  BY <1>1 DEF Gone
<1>3. Cardinality({}) = 0
  BY FS_EmptySet
<1>4. \A i \in 1..Len(bs) : Count({}, i) = 0
  <2>1. \A i \in 1..Len(bs) : {j \in {} : j < i} = {}
    OBVIOUS
  <2> QED BY <1>3, <2>1 DEF Count
<1>5. Left(bs, bs) = Len(bs)
  BY <1>1, <1>2, <1>3 DEF Left
<1> QED
  BY <1>1, <1>2, <1>4, <1>5 DEF Shape

\* And if nothing is gone and nothing added, it ends with them.
LEMMA ShapeEnd ==
  ASSUME NEW rs, List(rs), NEW bs, List(bs), Shape(rs, bs, {}, {})
  PROVE  rs = bs
<1>1. Gone(rs, bs) = {}
  BY DEF Shape
<1>2. Cardinality({}) = 0 /\ \A i \in 1..Len(bs) : Count({}, i) = 0
  <2>1. \A i \in 1..Len(bs) : {j \in {} : j < i} = {}
    OBVIOUS
  <2> QED BY <2>1, FS_EmptySet DEF Count
<1>3. Len(rs) \in Nat /\ Len(bs) \in Nat
  BY GoneFacts
<1>4. Left(rs, bs) = Len(bs)
  BY <1>1, <1>2, <1>3 DEF Left
<1>5. Len(bs) <= Len(rs) /\ ~ \E k \in (Len(bs) + 1)..Len(rs) : TRUE
  BY <1>4 DEF Shape
<1>6. Len(rs) = Len(bs)
  <2>1. Len(bs) < Len(rs) => Len(rs) \in (Len(bs) + 1)..Len(rs)
    BY <1>3
  <2> QED BY <1>3, <1>5, <2>1
<1>7. \A i \in 1..Len(bs) : rs[i] = bs[i]
  <2> SUFFICES ASSUME NEW i \in 1..Len(bs) PROVE rs[i] = bs[i]
    OBVIOUS
  <2>1. rs[i - 0] = bs[i]
    BY <1>1, <1>2 DEF Shape
  <2> QED BY <1>3, <2>1
<1> QED
  BY <1>6, <1>7, SeqEqual DEF List

\* More may be marked as added or removed.
LEMMA ShapeMore ==
  ASSUME NEW rs, NEW bs, NEW ad, NEW rm, Shape(rs, bs, ad, rm),
         NEW more, \A a \in more : \A r \in ToSet(bs) : r.id # a, NEW removes
  PROVE  Shape(rs, bs, ad \cup more, rm \cup removes)
  BY DEF Shape

\* A rule that is added comes last.
LEMMA ShapeAppend ==
  ASSUME NEW rs, List(rs), NEW bs, List(bs), NEW ad, NEW rm, Shape(rs, bs, ad, rm),
         NEW a \in ad, a \in Ids, With(rs, a) = {}
  PROVE  Shape(UfwAllow(rs, Mine(a)), bs, ad, rm)
<1> DEFINE new == Append(rs, Mine(a))
           n   == Len(rs)
<1>1. Mine(a).id = a /\ Mine(a) \in Rule /\ Writable(Mine(a))
  BY DEF Mine, Rule, Writable
<1>2. UfwAllow(rs, Mine(a)) = new
  BY <1>1 DEF UfwAllow
<1>3. /\ n \in Nat /\ rs \in Seq(Rule)
      /\ Len(new) = n + 1 /\ (\A k \in 1..n : new[k] = rs[k]) /\ new[n + 1] = Mine(a)
  BY <1>1, GoneFacts, AppendProperties DEF List
<1>4. ToSet(new) = {x \in ToSet(rs) : x.id # a} \cup {Mine(a)}
  <2>1. ToSet(UfwAllow(rs, Mine(a))) = {x \in ToSet(rs) : x.id # Mine(a).id} \cup {Mine(a)}
    BY <1>1, AllowFacts
  <2> QED BY <1>1, <1>2, <2>1
<1>5. \A r \in ToSet(rs) : r.id # a
  BY ListFacts
<1>6. \A r \in ToSet(bs) : r # Mine(a)
  BY <1>1 DEF Shape
<1>7. Gone(new, bs) = Gone(rs, bs)
  <2>1. \A i \in DOMAIN bs : bs[i] \in ToSet(bs)
    BY DEF ToSet
  <2> QED BY <1>4, <1>5, <1>6, <2>1 DEF Gone
<1> DEFINE l == Left(rs, bs)
<1>8. Left(new, bs) = l /\ l \in Nat /\ l <= n
  BY <1>7, GoneFacts DEF Left, Shape
<1> HIDE DEF new, l, n
<1>9. \A i \in (1..Len(bs)) \ Gone(rs, bs) : new[i - Count(Gone(rs, bs), i)] = bs[i]
  <2> SUFFICES ASSUME NEW i \in (1..Len(bs)) \ Gone(rs, bs)
               PROVE  new[i - Count(Gone(rs, bs), i)] = bs[i]
    OBVIOUS
  <2>1. i - Count(Gone(rs, bs), i) \in 1..l /\ rs[i - Count(Gone(rs, bs), i)] = bs[i]
    BY GoneFacts DEF Shape, l
  <2> QED BY <1>3, <1>8, <2>1
<1>10. \A k \in 1..l : new[k] \in ToSet(bs)
  <2>1. \A k \in 1..l : rs[k] \in ToSet(bs) /\ k \in 1..n
    BY <1>3, <1>8 DEF Shape, l
  <2> QED BY <1>3, <2>1
<1>11. ASSUME NEW k \in (l + 1)..(n + 1) PROVE \E b \in ad : new[k] = Mine(b)
  <2>1. CASE k = n + 1
    BY <1>3, <2>1
  <2>2. CASE k # n + 1
    <3>1. k \in (l + 1)..n /\ k \in 1..n
      BY <1>3, <1>8, <2>2
    <3> QED BY <1>3, <3>1 DEF Shape, l, n
  <2> QED BY <2>1, <2>2
<1>12. l <= Len(new)
  BY <1>3, <1>8
<1> QED
  BY <1>2, <1>3, <1>7, <1>8, <1>9, <1>10, <1>11, <1>12 DEF Shape

\* A removed rule is gone, and those after it move up.
LEMMA ShapeDelete ==
  ASSUME NEW rs, List(rs), NEW bs, List(bs), NEW ad, NEW rm, Shape(rs, bs, ad, rm),
         NEW r \in ToSet(bs)
  PROVE  Shape(UfwDelete(rs, r), bs, ad, rm \cup {r})
<1>1. CASE r \notin ToSet(rs)
  <2>1. UfwDelete(rs, r) = rs
    BY <1>1 DEF UfwDelete
  <2> QED BY <2>1 DEF Shape
<1>2. CASE r \in ToSet(rs)
  <2> DEFINE new == UfwDelete(rs, r)
             n   == Len(rs)
             b   == Len(bs)
             l   == Left(rs, bs)
             G   == Gone(rs, bs)
             at(i) == i - Count(G, i)
             p   == Place(bs, r)
             m   == at(p)
  <2>1. /\ n \in Nat /\ b \in Nat /\ DOMAIN rs = 1..n /\ DOMAIN bs = 1..b
        /\ G \in SUBSET (1..b) /\ l \in Nat /\ l <= n /\ l = b - Cardinality(G)
        /\ Cardinality(G) \in Nat
    BY GoneFacts DEF Shape, Left
  <2>2. /\ \A i \in 1..b : Count(G, i) \in Nat
        /\ \A i \in (1..b) \ G : at(i) \in 1..l /\ rs[at(i)] = bs[i]
    <3>1. \A i \in 1..b : i \in 1..(b + 1)
      BY <2>1
    <3> QED BY <3>1, GoneFacts DEF Shape
  <2>3. p \in (1..b) \ G /\ bs[p] = r
    BY <1>2, PlaceFacts DEF Gone
  <2>4. m \in 1..l /\ rs[m] = r /\ m \in 1..n
    BY <2>1, <2>2, <2>3
  <2>5. Place(rs, r) = m
    <3>1. Place(rs, r) \in 1..n /\ rs[Place(rs, r)] = r
      BY <1>2, PlaceFacts
    <3> QED BY <2>1, <2>4, <3>1 DEF List, IsRuleList
  <2>6. /\ Len(new) = n - 1
        /\ \A k \in 1..(n - 1) : new[k] = IF k < m THEN rs[k] ELSE rs[k + 1]
    <3>1. rs \in Seq(Rule) /\ new = RemoveAt(rs, m)
      BY <1>2, <2>5 DEF UfwDelete, List
    <3>2. m \in 1..Len(rs)
      BY <2>4
    <3> HIDE DEF m
    <3> QED BY <3>1, <3>2, RemoveFacts
  <2>7. Gone(new, bs) = G \cup {p}
    <3>1. ToSet(new) = ToSet(rs) \ {r}
      BY DeleteFacts
    <3>2. \A i \in 1..b : bs[i] = r <=> i = p
      BY <2>1, <2>3 DEF List, IsRuleList
    <3> HIDE DEF p, new
    <3>3. \A i \in 1..b : bs[i] \notin ToSet(new) <=> bs[i] \notin ToSet(rs) \/ i = p
      BY <3>1, <3>2
    <3> QED BY <2>1, <2>3, <3>3 DEF Gone
  <2> HIDE DEF p, G, n, b, new, l
  <2>8. /\ Cardinality(G \cup {p}) = Cardinality(G) + 1
        /\ \A i \in 1..b : Count(G \cup {p}, i) = IF p < i THEN Count(G, i) + 1 ELSE Count(G, i)
    BY <2>1, <2>3, CountMore
  <2>9. Left(new, bs) = l - 1
    BY <2>1, <2>7, <2>8 DEF Left, b
  <2>10. ASSUME NEW i \in (1..b) \ (G \cup {p})
         PROVE  new[i - Count(G \cup {p}, i)] = bs[i]
    <3>1. at(i) \in 1..l /\ rs[at(i)] = bs[i] /\ i \in 1..b /\ p \in 1..b /\ i # p
      BY <2>2, <2>3
    <3>2. CASE i < p
      <4>1. i \in 1..(b + 1) /\ p \in i..(b + 1) /\ i \notin G
        BY <2>1, <3>1, <3>2
      <4>2. Count(G, p) < Count(G, i) + (p - i)
        BY <2>1, <3>2, <4>1, CountGrows
      <4>3. Count(G, i) \in Nat /\ Count(G, p) \in Nat
        BY <2>2, <3>1
      <4>4. at(i) < m /\ at(i) \in 1..(n - 1)
        BY <2>1, <2>4, <3>1, <4>2, <4>3
      <4>5. i - Count(G \cup {p}, i) = at(i)
        BY <2>8, <3>1, <3>2
      <4> HIDE DEF at, m
      <4>6. new[at(i)] = rs[at(i)]
        BY <2>6, <4>4
      <4> QED BY <3>1, <4>5, <4>6
    <3>3. CASE i > p
      <4>1. p \in 1..(b + 1) /\ i \in p..(b + 1) /\ p \notin G
        BY <2>1, <2>3, <3>1, <3>3
      <4>2. Count(G, i) < Count(G, p) + (i - p)
        BY <2>1, <3>3, <4>1, CountGrows
      <4>3. Count(G, i) \in Nat /\ Count(G, p) \in Nat
        BY <2>2, <3>1
      <4>4. at(i) - 1 >= m /\ at(i) - 1 \in 1..(n - 1) /\ (at(i) - 1) + 1 = at(i)
        BY <2>1, <2>4, <3>1, <4>2, <4>3
      <4>5. i - Count(G \cup {p}, i) = at(i) - 1
        BY <2>8, <3>1, <3>3, <4>3
      <4> HIDE DEF at, m
      <4>6. ~ (at(i) - 1 < m)
        BY <2>4, <4>4
      <4>7. new[at(i) - 1] = rs[at(i)]
        BY <2>6, <4>4, <4>6
      <4> QED BY <3>1, <4>5, <4>7
    <3>4. i < p \/ i > p
      BY <3>1, <2>1
    <3> QED BY <3>2, <3>3, <3>4
  <2> HIDE DEF m
  <2>11. ASSUME NEW k \in 1..(l - 1) PROVE new[k] \in ToSet(bs)
    <3>1. k \in 1..(n - 1) /\ k \in 1..l /\ k + 1 \in 1..l
      BY <2>1
    <3>2. rs[k] \in ToSet(bs) /\ rs[k + 1] \in ToSet(bs)
      BY <3>1 DEF Shape, l
    <3> QED BY <2>6, <3>1, <3>2
  <2>12. ASSUME NEW k \in l..(n - 1) PROVE \E a \in ad : new[k] = Mine(a)
    <3>1. k \in 1..(n - 1) /\ ~ (k < m) /\ k + 1 \in (l + 1)..n
      BY <2>1, <2>4
    <3>2. \E a \in ad : rs[k + 1] = Mine(a)
      BY <3>1 DEF Shape, l, n
    <3> QED BY <2>6, <3>1, <3>2
  <2>13. l - 1 <= Len(new) /\ (l - 1) + 1 = l /\ Len(new) = n - 1
    BY <2>1, <2>6
  <2>14. \A i \in G \cup {p} : bs[i] \in rm \cup {r}
    BY <2>3 DEF Shape, G
  <2>15. \A a \in ad : \A x \in ToSet(bs) : x.id # a
    BY DEF Shape
  <2>16. Shape(new, bs, ad, rm \cup {r})
    BY <2>7, <2>9, <2>10, <2>11, <2>12, <2>13, <2>14, <2>15 DEF Shape, b
  <2> QED BY <2>16 DEF new
<1> QED
  BY <1>1, <1>2

\* An added rule is taken back: only those added after it move.
LEMMA ShapeUnadd ==
  ASSUME NEW rs, List(rs), NEW bs, List(bs), NEW ad, NEW rm, Shape(rs, bs, ad, rm),
         NEW a \in ad
  PROVE  Shape(UfwDelete(rs, Mine(a)), bs, ad \ {a}, rm)
<1> DEFINE n == Len(rs)
           b == Len(bs)
           l == Left(rs, bs)
           G == Gone(rs, bs)
           x == Mine(a)
           at(i) == i - Count(G, i)
<1>1. /\ n \in Nat /\ b \in Nat /\ DOMAIN rs = 1..n /\ DOMAIN bs = 1..b
      /\ G \in SUBSET (1..b) /\ l \in Nat /\ l <= n
  BY GoneFacts DEF Shape
<1>2. \A i \in (1..b) \ G : at(i) \in 1..l /\ rs[at(i)] = bs[i]
  BY GoneFacts DEF Shape
<1>3. x \notin ToSet(bs)
  BY DEF Shape, Mine
<1>4. /\ \A i \in G : bs[i] \in rm
      /\ \A k \in 1..l : rs[k] \in ToSet(bs)
      /\ \A k \in (l + 1)..n : \E c \in ad : rs[k] = Mine(c)
      /\ \A c \in ad \ {a} : \A r \in ToSet(bs) : r.id # c
  BY DEF Shape
<1>5. CASE x \notin ToSet(rs)
  <2>1. UfwDelete(rs, x) = rs
    BY <1>5 DEF UfwDelete
  <2>2. ASSUME NEW k \in (l + 1)..n PROVE \E c \in ad \ {a} : rs[k] = Mine(c)
    <3>1. PICK c \in ad : rs[k] = Mine(c)
      BY <1>4
    <3>2. k \in 1..n
      BY <1>1
    <3>3. c # a
      BY <1>1, <1>5, <3>1, <3>2 DEF ToSet
    <3> QED BY <3>1, <3>3
  <2> QED BY <1>2, <1>4, <1>1, <2>1, <2>2 DEF Shape
<1>6. CASE x \in ToSet(rs)
  <2> DEFINE new == UfwDelete(rs, x)
             m   == Place(rs, x)
  <2>1. m \in 1..n /\ rs[m] = x
    BY <1>6, PlaceFacts
  <2>2. m > l
    BY <1>1, <1>3, <1>4, <2>1
  <2>3. /\ Len(new) = n - 1
        /\ \A k \in 1..(n - 1) : new[k] = IF k < m THEN rs[k] ELSE rs[k + 1]
    <3>1. rs \in Seq(Rule) /\ new = RemoveAt(rs, m)
      BY <1>6 DEF UfwDelete, List
    <3>2. m \in 1..Len(rs)
      BY <2>1
    <3> HIDE DEF m
    <3> QED BY <3>1, <3>2, RemoveFacts
  <2>4. Gone(new, bs) = G
    <3>1. ToSet(new) = ToSet(rs) \ {x}
      BY DeleteFacts
    <3>2. \A i \in 1..b : bs[i] # x
      BY <1>1, <1>3 DEF ToSet
    <3> HIDE DEF new, x
    <3>3. \A i \in 1..b : bs[i] \notin ToSet(new) <=> bs[i] \notin ToSet(rs)
      BY <3>1, <3>2
    <3> QED BY <1>1, <3>3 DEF Gone
  <2>5. Left(new, bs) = l
    BY <2>4 DEF Left
  <2> HIDE DEF G, n, b, new, l, m
  <2>6. ASSUME NEW i \in (1..b) \ G PROVE new[i - Count(G, i)] = bs[i]
    <3>1. at(i) \in 1..l /\ rs[at(i)] = bs[i]
      BY <1>2
    <3> HIDE DEF at
    <3>2. at(i) \in 1..(n - 1) /\ at(i) < m
      BY <1>1, <2>1, <2>2, <3>1
    <3>3. new[at(i)] = rs[at(i)]
      BY <2>3, <3>2
    <3> QED BY <3>1, <3>3 DEF at
  <2>7. ASSUME NEW k \in 1..l PROVE new[k] \in ToSet(bs)
    <3>1. k \in 1..(n - 1) /\ k < m
      BY <1>1, <2>1, <2>2
    <3> QED BY <1>4, <2>3, <3>1
  <2>8. ASSUME NEW k \in (l + 1)..(n - 1) PROVE \E c \in ad \ {a} : new[k] = Mine(c)
    <3>1. PICK j \in (l + 1)..n : j # m /\ new[k] = rs[j]
      <4>1. k \in 1..(n - 1) /\ k \in (l + 1)..n /\ k + 1 \in (l + 1)..n
        BY <1>1
      <4>2. CASE k < m
        BY <2>3, <4>1, <4>2
      <4>3. CASE k >= m
        <5>1. ~ (k < m) /\ k + 1 # m
          BY <1>1, <2>1, <4>3
        <5> QED BY <2>3, <4>1, <5>1
      <4>4. k < m \/ k >= m
        BY <1>1, <2>1
      <4> QED BY <4>2, <4>3, <4>4
    <3>2. PICK c \in ad : rs[j] = Mine(c)
      BY <1>4
    <3>3. j \in 1..n
      BY <1>1
    <3>4. c # a
      BY <1>1, <2>1, <3>1, <3>2, <3>3 DEF List, IsRuleList
    <3> QED BY <3>1, <3>2, <3>4
  <2>9. l <= Len(new)
    BY <1>1, <2>1, <2>2, <2>3
  <2>10. Shape(new, bs, ad \ {a}, rm)
    BY <1>4, <2>3, <2>4, <2>5, <2>6, <2>7, <2>8, <2>9 DEF Shape, b
  <2> QED BY <2>10 DEF new
<1> QED
  BY <1>5, <1>6

\* The first of the removed rules finds its place, and the others move back.
LEMMA ShapeRestore ==
  ASSUME NEW rs, List(rs), NEW bs, List(bs), NEW rm, Shape(rs, bs, {}, rm),
         rm \subseteq ToSet(bs), NEW r \in rm,
         \A x \in rm : Place(bs, r) <= Place(bs, x)
  PROVE  /\ Place(bs, r) \in 1..(Len(rs) + 1)
         /\ Shape(UfwInsert(rs, r, Place(bs, r)), bs, {}, rm \ {r})
<1> DEFINE n == Len(rs)
           b == Len(bs)
           l == Left(rs, bs)
           G == Gone(rs, bs)
           q == Place(bs, r)
           at(i) == i - Count(G, i)
           new == UfwInsert(rs, r, q)
<1>1. /\ n \in Nat /\ b \in Nat /\ DOMAIN rs = 1..n /\ DOMAIN bs = 1..b
      /\ G \in SUBSET (1..b) /\ l \in Nat /\ l <= n /\ l = b - Cardinality(G)
      /\ Cardinality(G) \in Nat
  BY GoneFacts DEF Shape, Left
<1>2. /\ \A i \in 1..b : Count(G, i) \in Nat
      /\ \A i \in (1..b) \ G : at(i) \in 1..l /\ rs[at(i)] = bs[i]
  <2>1. \A i \in 1..b : i \in 1..(b + 1)
    BY <1>1
  <2> QED BY <2>1, GoneFacts DEF Shape
<1>3. q \in 1..b /\ bs[q] = r /\ r \in ToSet(bs)
  BY PlaceFacts
<1>4. \A i \in 1..b : bs[i] = r <=> i = q
  BY <1>1, <1>3 DEF List, IsRuleList
<1>5. \A i \in G : bs[i] \in rm /\ q <= i
  <2> SUFFICES ASSUME NEW i \in G PROVE bs[i] \in rm /\ q <= i
    OBVIOUS
  <2>1. bs[i] \in rm /\ bs[i] \in ToSet(bs) /\ i \in 1..b
    BY <1>1 DEF Shape
  <2>2. Place(bs, bs[i]) \in 1..b /\ bs[Place(bs, bs[i])] = bs[i]
    BY <2>1, PlaceFacts
  <2>3. Place(bs, bs[i]) = i
    BY <1>1, <2>1, <2>2 DEF List, IsRuleList
  <2> QED BY <2>1, <2>3
<1>6. n = l /\ \A k \in 1..n : rs[k] \in ToSet(bs)
  <2>1. l < n => n \in (l + 1)..n
    BY <1>1
  <2>2. ~ \E k \in (l + 1)..n : TRUE
    BY DEF Shape
  <2>3. n = l
    BY <1>1, <2>1, <2>2
  <2>4. \A k \in 1..l : rs[k] \in ToSet(bs)
    BY DEF Shape
  <2> QED BY <2>3, <2>4
<1> HIDE DEF q, G, n, b, l
<1>7. Count(G, q) = 0 /\ \A i \in 1..b : i < q => Count(G, i) = 0
  <2>1. \A j \in G : j \in Int /\ q \in Int /\ ~ (j < q)
    BY <1>1, <1>3, <1>5
  <2>2. {j \in G : j < q} = {}
    BY <2>1
  <2>3. \A i \in 1..b : i < q => {j \in G : j < i} = {}
    <3> SUFFICES ASSUME NEW i \in 1..b, i < q, NEW j \in G PROVE ~ (j < i)
      OBVIOUS
    <3> QED BY <2>1
  <2> QED BY <2>2, <2>3, FS_EmptySet DEF Count
<1>8. q \in 1..(n + 1)
  <2>1. q \in 1..(b + 1) /\ b + 1 \in q..(b + 1)
    BY <1>1, <1>3
  <2>2. Count(G, b + 1) <= Count(G, q) + ((b + 1) - q)
    BY <1>1, <2>1, CountGrows
  <2>3. Count(G, b + 1) = Cardinality(G)
    BY <1>1, CountEnds
  <2> QED BY <1>1, <1>3, <1>6, <1>7, <2>2, <2>3
<1>9. CASE r \in ToSet(rs)
  <2>1. With(rs, r.id) # {}
    BY <1>9 DEF With, ToSet
  <2>2. new = rs
    BY <2>1 DEF UfwInsert
  <2>3. \A i \in G : bs[i] \in rm \ {r}
    BY <1>1, <1>5, <1>9 DEF G, Gone
  <2>4. Shape(rs, bs, {}, rm \ {r})
    BY <2>3 DEF Shape, G
  <2> QED BY <1>8, <2>2, <2>4 DEF q, n
<1>10. CASE r \notin ToSet(rs)
  <2> DEFINE H == G \ {q}
  <2>1. q \in G
    BY <1>1, <1>3, <1>10 DEF G, Gone
  <2>2. H \in SUBSET (1..b) /\ q \in (1..b) \ H /\ H \cup {q} = G
    BY <1>1, <2>1
  <2>3. With(rs, r.id) = {}
    <3> SUFFICES ASSUME NEW k \in 1..n, rs[k].id = r.id PROVE FALSE
      BY <1>1 DEF With
    <3>1. rs[k] \in ToSet(bs) /\ rs[k] \in ToSet(rs)
      BY <1>1, <1>6 DEF ToSet
    <3>2. rs[k] = r
      BY <1>3, <3>1, ListFacts
    <3> QED BY <1>10, <3>1, <3>2
  <2>4. rs \in Seq(Rule) /\ r \in Rule /\ Writable(r)
    BY <1>3, ListFacts DEF List, Writable
  <2>5. /\ Len(new) = n + 1
        /\ \A k \in 1..(n + 1) : new[k] = IF k < q THEN rs[k] ELSE IF k = q THEN r ELSE rs[k - 1]
    <3>1. new = InsertAt(rs, q, r)
      BY <2>3 DEF UfwInsert
    <3> QED BY <1>8, <2>4, <3>1, InsertFacts DEF n
  <2>6. ToSet(new) = ToSet(rs) \cup {r}
    BY <1>8, <2>3, <2>4, InsertedFacts DEF n
  <2>7. List(new)
    BY <1>8, <2>4, InsertedFacts DEF n
  <2> HIDE DEF new
  <2>8. Gone(new, bs) = H
    <3>1. \A i \in 1..b : bs[i] \notin ToSet(new) <=> bs[i] \notin ToSet(rs) /\ i # q
      BY <1>4, <2>6
    <3> QED BY <1>1, <3>1 DEF Gone, G
  <2> HIDE DEF H
  <2>9. /\ Cardinality(H \cup {q}) = Cardinality(H) + 1
        /\ \A i \in 1..b : Count(H \cup {q}, i) = IF q < i THEN Count(H, i) + 1 ELSE Count(H, i)
    BY <1>1, <2>2, CountMore
  <2>10. Cardinality(H) \in Nat /\ \A i \in 1..b : Count(H, i) \in Nat
    <3>1. \A i \in 1..b : i \in 1..(b + 1)
      BY <1>1
    <3> QED BY <1>1, <2>2, <3>1, CountFacts
  <2>11. Left(new, bs) = n + 1
    <3>1. Cardinality(G) = Cardinality(H) + 1
      BY <2>2, <2>9
    <3>2. Left(new, bs) = b - Cardinality(H)
      BY <2>8 DEF Left, b
    <3> QED BY <1>1, <1>6, <2>10, <3>1, <3>2
  <2>12. ASSUME NEW i \in (1..b) \ H PROVE new[i - Count(H, i)] = bs[i]
    <3>0. Count(G, i) = IF q < i THEN Count(H, i) + 1 ELSE Count(H, i)
      BY <2>2, <2>9
    <3>1. CASE i = q
      <4>1. i - Count(H, i) = q
        BY <1>3, <1>7, <3>0, <3>1
      <4>2. new[q] = r
        BY <1>8, <2>5, <1>3
      <4> QED BY <1>3, <3>1, <4>1, <4>2
    <3>2. CASE i < q
      <4>1. at(i) = i /\ i - Count(H, i) = i /\ i \notin G
        BY <1>3, <1>7, <2>2, <3>0, <3>2
      <4>2. rs[i] = bs[i] /\ i \in 1..(n + 1)
        <5>1. at(i) \in 1..l /\ rs[at(i)] = bs[i]
          BY <1>2, <4>1
        <5> QED BY <1>1, <1>6, <4>1, <5>1
      <4>3. new[i] = rs[i]
        BY <2>5, <3>2, <4>2
      <4> QED BY <4>1, <4>2, <4>3
    <3>3. CASE i > q
      <4>1. i \notin G /\ i \in q..(b + 1) /\ q \in 1..(b + 1)
        BY <1>1, <1>3, <2>2, <3>3
      <4>2. Count(G, i) <= Count(G, q) + (i - q)
        BY <1>1, <4>1, CountGrows
      <4>3. at(i) \in 1..l /\ rs[at(i)] = bs[i] /\ Count(G, i) \in Nat /\ Count(H, i) \in Nat
        BY <1>2, <2>10, <4>1
      <4>4. i - Count(H, i) = at(i) + 1
        BY <3>0, <3>3, <4>3, <1>3
      <4>5. at(i) >= q /\ at(i) + 1 \in 1..(n + 1) /\ (at(i) + 1) - 1 = at(i)
        BY <1>1, <1>3, <1>6, <1>7, <4>2, <4>3
      <4> HIDE DEF at
      <4>6. ~ (at(i) + 1 < q) /\ at(i) + 1 # q
        BY <1>3, <4>3, <4>5, <1>1
      <4>7. new[at(i) + 1] = rs[at(i)]
        BY <2>5, <4>5, <4>6
      <4> QED BY <4>3, <4>4, <4>7
    <3>4. i = q \/ i < q \/ i > q
      BY <1>1, <1>3
    <3> QED BY <3>1, <3>2, <3>3, <3>4
  <2>13. \A k \in 1..(n + 1) : new[k] \in ToSet(bs)
    <3> SUFFICES ASSUME NEW k \in 1..(n + 1) PROVE new[k] \in ToSet(bs)
      OBVIOUS
    <3>1. CASE k < q
      BY <1>1, <1>3, <1>6, <1>8, <2>5, <3>1
    <3>2. CASE k = q
      BY <1>3, <2>5, <3>2
    <3>3. CASE k > q
      <4>1. k - 1 \in 1..n /\ ~ (k < q) /\ k # q
        BY <1>1, <1>3, <1>8, <3>3
      <4> QED BY <1>6, <2>5, <4>1
    <3>4. k < q \/ k = q \/ k > q
      BY <1>1, <1>3
    <3> QED BY <3>1, <3>2, <3>3, <3>4
  <2>14. \A i \in H : bs[i] \in rm \ {r}
    BY <1>1, <1>4, <1>5, <2>2 DEF H
  <2>15. n + 1 <= Len(new) /\ ~ \E k \in ((n + 1) + 1)..Len(new) : TRUE
    BY <1>1, <2>5
  <2>16. Shape(new, bs, {}, rm \ {r})
    BY <2>8, <2>11, <2>12, <2>13, <2>14, <2>15 DEF Shape, b
  <2> QED BY <1>8, <2>16 DEF new, q, n
<1> QED
  BY <1>9, <1>10

------------------------------------------------------------------------------
(* The invariant *)

\* The changes are under way, or the run ended well.
Changing == pc \in {"add", "allow"}
Succeeded == outcome \in {"updated", "unchanged"}

Allowed(id) == \E r \in ToSet(rules) : r.id = id /\ r.action = "allow"

\* Only the node's own rules are removed.
Own == /\ \A i \in DOMAIN removals : IsObsolete(removals[i])
       /\ \A r \in removed : IsObsolete(r)

\* What is edited since a later look is edited since an earlier one.
Nested == /\ edited.snapshot \subseteq edited.plan
          /\ edited.look \subseteq edited.plan
          /\ pc = "allow" => edited.look \subseteq edited.snapshot

\* The order of the steps, and what is to undo at each.
Steps ==
    /\ pc # "done" => outcome = "none"
    /\ pc = "try" => added = {} /\ removed = {}
    /\ pc = "start" => added = {} /\ removed = {}
    /\ Changing /\ additions # {} => removed = {}
    /\ outcome = "rolledBack" => added = {} /\ removed = {}
    /\ Succeeded => additions = {} /\ DOMAIN removals = {}
    /\ pc \in {"start", "try", "add", "allow"} => ~ incomplete

\* The rule that is about to be added is missing, unless the administrator added it since.
Rechecked ==
    pc = "allow" =>
        \A id \in Ids : IsNextAddition(id) =>
            id \in added /\ (id \notin edited.look => With(rules, id) = {})

\* What the node needs is allowed or still to add; what it does not need is still to remove.
Covered ==
    pc = "try" \/ Changing \/ Succeeded =>
        /\ \A id \in desired : id \in additions \/ id \in edited.plan \/ Allowed(id)
        /\ \A r \in ToSet(rules) :
              r.owner = "node" /\ r.id \notin desired /\ r.id \notin edited.plan =>
                  \E i \in DOMAIN removals : removals[i] = r

\* What is still to remove was there when the changes began.
Planned ==
    \A i \in DOMAIN removals :
        removals[i].id \notin edited.plan =>
            /\ pc = "try" => removals[i] \in ToSet(rules)
            /\ Changing => removals[i] \in ToSet(before)

\* The rollback can restore what was there.
Restorable ==
    (Changing \/ pc = "undo" \/ outcome = "rolledBack") /\ ~ incomplete /\ edited.snapshot = {} =>
        Shape(rules, before, added, removed)

\* What the node had and still needs was never taken away: what is added was not there.
Needed ==
    /\ pc \in {"start", "try"} \/ outcome \in {"refused", "failed"} => before = <<>>
    /\ pc = "done" => outcome # "none"
    /\ pc = "try" => \A id \in additions \ edited.plan : \A r \in ToSet(rules) : r.id # id
    /\ \A id \in (additions \cup added) \ edited.plan : \A r \in ToSet(before) : r.id # id
    /\ \A r \in ToSet(before) : r.id \in desired \ edited.plan => r \in ToSet(rules)

Inv == /\ TypeOK /\ Own /\ Nested /\ Steps /\ Rechecked /\ Covered /\ Planned /\ Restorable
       /\ Needed

LEMMA StartInv == Init => Inv
<1> SUFFICES ASSUME Init PROVE Inv
  OBVIOUS
<1>1. rules \in Seq(Rule) /\ IsRuleList(rules)
  <2>1. rules \in BoundedSeq(Rule, K) /\ IsRuleList(rules)
    BY DEF Init
  <2>2. rules \in UNION {[1..m -> Rule] : m \in 0..K}
    BY <2>1 DEF BoundedSeq, SeqOf
  <2>3. PICK m \in 0..K : rules \in [1..m -> Rule]
    BY <2>2
  <2>4. m \in Nat
    BY FirewallAssumption
  <2> QED BY <2>1, <2>3, <2>4
<1>2. /\ desired \subseteq Ids /\ additions = {} /\ removals = <<>> /\ before = <<>>
      /\ pc = "start" /\ added = {} /\ removed = {} /\ outcome = "none" /\ ~ incomplete
      /\ faults = 0 /\ edits = 0 /\ edited = [plan |-> {}, snapshot |-> {}, look |-> {}]
  BY DEF Init
<1>3. DOMAIN removals = {} /\ DOMAIN before = {} /\ before \in Seq(Rule)
  BY <1>2
<1>4. incomplete \in BOOLEAN
  BY DEF Init
<1>5. TypeOK
  <2>1. edited \in [plan : SUBSET Ids, snapshot : SUBSET Ids, look : SUBSET Ids]
    BY <1>2
  <2>2. IsRuleList(before)
    BY <1>3 DEF IsRuleList
  <2> QED BY <1>1, <1>2, <1>3, <1>4, <2>1, <2>2 DEF TypeOK
<1>6. Own /\ Nested /\ Steps /\ Rechecked
  BY <1>2, <1>3 DEF Own, Nested, Steps, Rechecked, Changing, Succeeded
<1>7. Covered /\ Planned /\ Restorable
  BY <1>2, <1>3 DEF Covered, Planned, Restorable, Changing, Succeeded
<1>8. Needed
  <2>1. ToSet(before) = {}
    BY <1>3 DEF ToSet
  <2> QED BY <1>2, <2>1 DEF Needed
<1> QED
  BY <1>5, <1>6, <1>7, <1>8 DEF Inv

\* What the type invariant says of the two lists.
LEMMA Lists ==
  ASSUME TypeOK
  PROVE  /\ List(rules) /\ List(before)
         /\ \A r \in ToSet(rules) : Writable(r) /\ r.id \in Ids
         /\ \A r \in ToSet(before) : Writable(r) /\ r.id \in Ids
<1>1. List(rules) /\ List(before)
  BY DEF TypeOK, List
<1>2. \A r : Writable(r) => r.id \in Ids
  BY DEF Writable, Rule
<1> QED
  BY <1>1, <1>2, ListFacts

\* The steps that change nothing but how far the run is, and what has failed.
Quiet == UNCHANGED <<rules, plan, added, removed, edited, edits>>

LEMMA QuietFacts ==
  ASSUME Inv, Quiet, faults' \in Nat, incomplete' \in BOOLEAN,
         pc' \in {"add", "undo", "done"},
         outcome' \in {"none", "unchanged", "refused", "failed", "updated", "rolledBack", "aborted"}
  PROVE  TypeOK' /\ Own'
<1>1. UNCHANGED <<rules, desired, additions, removals, before, added, removed, edited, edits>>
  BY DEF Quiet, plan
<1>2. TypeOK'
  BY <1>1 DEF Inv, TypeOK
<1>3. Own'
  BY <1>1 DEF Inv, Own, IsObsolete
<1> QED
  BY <1>2, <1>3

LEMMA ByRefuse == Inv /\ Refuse => Inv'
<1> SUFFICES ASSUME Inv, Refuse PROVE Inv'
  OBVIOUS
<1>1. /\ UNCHANGED <<rules, desired, additions, removals, before, added, removed, incomplete, edited>>
      /\ Quiet /\ UNCHANGED faults /\ pc = "start" /\ pc' = "done" /\ outcome' = "refused"
  BY DEF Refuse, Ends, Quiet, plan, undo
<1>2. TypeOK' /\ Own'
  <2>1. faults' \in Nat /\ incomplete' \in BOOLEAN
    BY <1>1 DEF Inv, TypeOK
  <2> QED BY <1>1, <2>1, QuietFacts
<1>3. Nested' /\ Steps' /\ Rechecked'
  BY <1>1 DEF Inv, Nested, Steps, Rechecked, Changing, Succeeded
<1>4. Covered' /\ Planned' /\ Restorable'
  BY <1>1 DEF Covered, Planned, Restorable, Changing, Succeeded
<1>5. Needed'
  BY <1>1 DEF Inv, Needed
<1> QED
  BY <1>2, <1>3, <1>4, <1>5 DEF Inv

LEMMA ByTryFails == Inv /\ TryFails => Inv'
<1> SUFFICES ASSUME Inv, TryFails PROVE Inv'
  OBVIOUS
<1>1. /\ UNCHANGED <<rules, desired, additions, removals, before, added, removed, incomplete, edited>>
      /\ Quiet /\ faults' = faults + 1 /\ pc = "try" /\ pc' = "done" /\ outcome' = "failed"
  BY DEF TryFails, Ends, Quiet, plan, undo
<1>2. TypeOK' /\ Own'
  <2>1. faults' \in Nat /\ incomplete' \in BOOLEAN
    BY <1>1 DEF Inv, TypeOK
  <2> QED BY <1>1, <2>1, QuietFacts
<1>3. Nested' /\ Steps' /\ Rechecked'
  BY <1>1 DEF Inv, Nested, Steps, Rechecked, Changing, Succeeded
<1>4. Covered' /\ Planned' /\ Restorable'
  BY <1>1 DEF Covered, Planned, Restorable, Changing, Succeeded
<1>5. Needed'
  BY <1>1 DEF Inv, Needed
<1> QED
  BY <1>2, <1>3, <1>4, <1>5 DEF Inv

LEMMA ByUpdated == Inv /\ Updated => Inv'
<1> SUFFICES ASSUME Inv, Updated PROVE Inv'
  OBVIOUS
<1>1. /\ UNCHANGED <<rules, desired, additions, removals, before, added, removed, incomplete, edited>>
      /\ Quiet /\ UNCHANGED faults /\ pc = "add" /\ additions = {} /\ DOMAIN removals = {}
      /\ pc' = "done" /\ outcome' = "updated"
  BY DEF Updated, Ends, Quiet, plan, undo
<1>2. TypeOK' /\ Own'
  <2>1. faults' \in Nat /\ incomplete' \in BOOLEAN
    BY <1>1 DEF Inv, TypeOK
  <2> QED BY <1>1, <2>1, QuietFacts
<1>3. Nested' /\ Steps' /\ Rechecked'
  BY <1>1 DEF Inv, Nested, Steps, Rechecked, Changing, Succeeded
<1>4. Covered'
  BY <1>1 DEF Inv, Covered, Changing, Succeeded, Allowed
<1>5. Planned' /\ Restorable'
  BY <1>1 DEF Planned, Restorable, Changing
<1>6. Needed'
  BY <1>1 DEF Inv, Needed
<1> QED
  BY <1>2, <1>3, <1>4, <1>5, <1>6 DEF Inv

LEMMA ByRolledBack == Inv /\ RolledBack => Inv'
<1> SUFFICES ASSUME Inv, RolledBack PROVE Inv'
  OBVIOUS
<1>1. /\ UNCHANGED <<rules, desired, additions, removals, before, added, removed, incomplete, edited>>
      /\ Quiet /\ UNCHANGED faults /\ pc = "undo" /\ added = {} /\ removed = {}
      /\ pc' = "done" /\ outcome' = "rolledBack"
  BY DEF RolledBack, Ends, Quiet, plan, undo
<1>2. TypeOK' /\ Own'
  <2>1. faults' \in Nat /\ incomplete' \in BOOLEAN
    BY <1>1 DEF Inv, TypeOK
  <2> QED BY <1>1, <2>1, QuietFacts
<1>3. Nested' /\ Steps' /\ Rechecked'
  BY <1>1 DEF Inv, Nested, Steps, Rechecked, Changing, Succeeded
<1>4. Covered' /\ Planned'
  BY <1>1 DEF Covered, Planned, Changing, Succeeded
<1>5. Restorable'
  <2>1. ~ incomplete /\ edited.snapshot = {} => Shape(rules, before, added, removed)
    BY <1>1 DEF Inv, Restorable
  <2>2. ~ incomplete' /\ edited'.snapshot = {} => Shape(rules', before', added', removed')
    BY <1>1, <2>1
  <2> QED BY <2>2 DEF Restorable
<1>6. Needed'
  BY <1>1 DEF Inv, Needed
<1> QED
  BY <1>2, <1>3, <1>4, <1>5, <1>6 DEF Inv

LEMMA ByAborted == Inv /\ Aborted => Inv'
<1> SUFFICES ASSUME Inv, Aborted PROVE Inv'
  OBVIOUS
<1>1. /\ UNCHANGED <<rules, desired, additions, removals, before, added, removed, incomplete, edited>>
      /\ Quiet /\ faults' = faults + 1 /\ pc = "undo" /\ pc' = "done" /\ outcome' = "aborted"
  BY DEF Aborted, Ends, Quiet, plan, undo
<1>2. TypeOK' /\ Own'
  <2>1. faults' \in Nat /\ incomplete' \in BOOLEAN
    BY <1>1 DEF Inv, TypeOK
  <2> QED BY <1>1, <2>1, QuietFacts
<1>3. Nested' /\ Steps' /\ Rechecked'
  BY <1>1 DEF Inv, Nested, Steps, Rechecked, Changing, Succeeded
<1>4. Covered' /\ Planned' /\ Restorable'
  BY <1>1 DEF Covered, Planned, Restorable, Changing, Succeeded
<1>5. Needed'
  BY <1>1 DEF Inv, Needed
<1> QED
  BY <1>2, <1>3, <1>4, <1>5 DEF Inv

LEMMA ByConflict == Inv /\ (\E id \in Ids : Conflict(id)) => Inv'
<1> SUFFICES ASSUME Inv, NEW id \in Ids, Conflict(id) PROVE Inv'
  OBVIOUS
<1>1. /\ UNCHANGED <<rules, desired, additions, removals, before, added, removed, incomplete, edited>>
      /\ Quiet /\ UNCHANGED <<faults, outcome>> /\ pc = "add" /\ pc' = "undo"
  BY DEF Conflict, Quiet, plan, undo
<1>2. TypeOK' /\ Own'
  <2>1. faults' \in Nat /\ incomplete' \in BOOLEAN
    BY <1>1 DEF Inv, TypeOK
  <2>2. outcome' \in {"none", "unchanged", "refused", "failed", "updated", "rolledBack", "aborted"}
    BY <1>1 DEF Inv, TypeOK
  <2> QED BY <1>1, <2>1, <2>2, QuietFacts
<1>3. Nested' /\ Steps' /\ Rechecked'
  BY <1>1 DEF Inv, Nested, Steps, Rechecked, Changing, Succeeded
<1>4. Covered' /\ Planned'
  BY <1>1 DEF Inv, Steps, Covered, Planned, Changing, Succeeded
<1>5. Restorable'
  <2>1. ~ incomplete /\ edited.snapshot = {} => Shape(rules, before, added, removed)
    BY <1>1 DEF Inv, Restorable, Changing
  <2>2. ~ incomplete' /\ edited'.snapshot = {} => Shape(rules', before', added', removed')
    BY <1>1, <2>1
  <2> QED BY <2>2 DEF Restorable
<1>6. Needed'
  BY <1>1 DEF Inv, Needed
<1> QED
  BY <1>2, <1>3, <1>4, <1>5, <1>6 DEF Inv

LEMMA ByPlan == Inv /\ Plan => Inv'
<1> SUFFICES ASSUME Inv, Plan PROVE Inv'
  OBVIOUS
<1>1. /\ UNCHANGED <<rules, desired, before, added, removed, incomplete, faults, edits>>
      /\ pc = "start" /\ ~ Conflicts(desired)
      /\ additions' = Missing(desired) /\ removals' = Obsolete
      /\ edited' = [since \in DOMAIN edited |-> {}]
  BY DEF Plan, undo
<1>2. \/ pc' = "done" /\ outcome' = "unchanged" /\ additions' = {} /\ DOMAIN removals' = {}
      \/ pc' = "try" /\ outcome' = outcome
  BY DEF Plan, Ends
<1>3. /\ edited'.plan = {} /\ edited'.snapshot = {} /\ edited'.look = {}
      /\ edited' \in [plan : SUBSET Ids, snapshot : SUBSET Ids, look : SUBSET Ids]
  <2>1. edited \in [plan : SUBSET Ids, snapshot : SUBSET Ids, look : SUBSET Ids]
    BY DEF Inv, TypeOK
  <2>2. edited' = [plan |-> {}, snapshot |-> {}, look |-> {}]
    BY <1>1, <2>1
  <2> QED BY <2>2
<1>4. /\ DOMAIN removals' = {i \in DOMAIN rules : IsObsolete(rules[i])}
      /\ \A i \in DOMAIN removals' : removals'[i] = rules[i]
  BY <1>1 DEF Obsolete, Restrict
<1>5. \A i \in DOMAIN rules : rules[i] \in Rule /\ rules[i] \in ToSet(rules)
  BY Lists, ListFacts DEF Inv, Writable
<1>6. TypeOK'
  <2>1. Missing(desired) \subseteq desired
    BY DEF Missing
  <2>2. \A i \in DOMAIN removals' : removals'[i] \in Rule
    BY <1>4, <1>5
  <2>3. outcome' \in {"none", "unchanged", "refused", "failed", "updated", "rolledBack", "aborted"}
    BY <1>2 DEF Inv, TypeOK
  <2>4. pc' \in {"start", "try", "add", "allow", "undo", "done"}
    BY <1>2
  <2>5. UNCHANGED incomplete
    BY <1>1
  <2> QED BY <1>1, <1>3, <2>1, <2>2, <2>3, <2>4, <2>5 DEF Inv, TypeOK
<1>7. Own'
  BY <1>1, <1>4 DEF Inv, Own, IsObsolete
<1>8. Nested' /\ Rechecked'
  BY <1>2, <1>3 DEF Nested, Rechecked
<1>9. Steps'
  BY <1>1, <1>2 DEF Inv, Steps, Changing, Succeeded
<1>10. Covered'
  <2>1. ASSUME NEW id \in desired, id \notin Missing(desired) PROVE Allowed(id)
    <3>1. PICK r \in Matches(id) : r.action = "allow"
      BY <1>1, <2>1 DEF Missing, Conflicts
    <3>2. PICK i \in DOMAIN rules : rules[i].id = id /\ rules[i] = r
      BY <3>1 DEF Matches, With
    <3> QED BY <1>5, <3>1, <3>2 DEF Allowed
  <2>2. ASSUME NEW r \in ToSet(rules), r.owner = "node", r.id \notin desired
        PROVE  \E i \in DOMAIN removals' : removals'[i] = r
    <3>1. PICK i \in DOMAIN rules : rules[i] = r
      BY DEF ToSet
    <3> QED BY <1>4, <2>2, <3>1 DEF IsObsolete
  <2>3. \A id \in desired' : id \in additions' \/ Allowed(id)'
    BY <1>1, <2>1 DEF Allowed
  <2> QED BY <1>1, <2>2, <2>3 DEF Covered
<1>11. Planned'
  BY <1>1, <1>2, <1>4, <1>5 DEF Planned, Changing
<1>12. Restorable'
  BY <1>1, <1>2 DEF Inv, Steps, Restorable, Changing
<1>13. Needed'
  <2>1. before = <<>> /\ before' = <<>>
    BY <1>1 DEF Inv, Needed
  <2>2. ToSet(before') = {}
    BY <2>1 DEF ToSet
  <2>3. \A id \in additions' : \A r \in ToSet(rules) : r.id # id
    BY <1>1 DEF Missing, Matches, With, ToSet
  <2> QED BY <1>1, <1>2, <2>1, <2>2, <2>3 DEF Needed
<1> QED
  BY <1>6, <1>7, <1>8, <1>9, <1>10, <1>11, <1>12, <1>13 DEF Inv

LEMMA BySnapshot == Inv /\ Snapshot => Inv'
<1> SUFFICES ASSUME Inv, Snapshot PROVE Inv'
  OBVIOUS
<1>1. /\ UNCHANGED <<rules, desired, additions, removals, added, removed, incomplete, outcome,
                     faults, edits>>
      /\ pc = "try" /\ pc' = "add" /\ before' = rules
      /\ edited' = [edited EXCEPT !.snapshot = {}]
  BY DEF Snapshot, undo
<1>2. added = {} /\ removed = {} /\ outcome = "none"
  BY <1>1 DEF Inv, Steps
<1>3. /\ edited'.plan = edited.plan /\ edited'.snapshot = {} /\ edited'.look = edited.look
      /\ edited' \in [plan : SUBSET Ids, snapshot : SUBSET Ids, look : SUBSET Ids]
  BY <1>1 DEF Inv, TypeOK
<1>4. TypeOK'
  <2>1. UNCHANGED incomplete
    BY <1>1
  <2> QED BY <1>1, <1>2, <1>3, <2>1 DEF Inv, TypeOK
<1>5. Own'
  BY <1>1 DEF Inv, Own, IsObsolete
<1>6. Nested' /\ Rechecked'
  BY <1>1, <1>3 DEF Inv, Nested, Rechecked
<1>7. Steps'
  BY <1>1, <1>2 DEF Inv, Steps, Changing, Succeeded
<1>8. Covered'
  BY <1>1, <1>3 DEF Inv, Covered, Changing, Succeeded, Allowed
<1>9. Planned'
  BY <1>1, <1>3 DEF Inv, Planned, Changing
<1>10. Restorable'
  <2>1. Shape(rules, rules, {}, {})
    BY Lists, ShapeStart DEF Inv
  <2>2. Shape(rules', before', added', removed')
    BY <1>1, <1>2, <2>1
  <2> QED BY <2>2 DEF Restorable
<1>11. Needed'
  <2>1. \A id \in additions \ edited.plan : \A r \in ToSet(rules) : r.id # id
    BY <1>1 DEF Inv, Needed
  <2> QED BY <1>1, <1>2, <1>3, <2>1 DEF Needed
<1> QED
  BY <1>4, <1>5, <1>6, <1>7, <1>8, <1>9, <1>10, <1>11 DEF Inv

LEMMA ByRecheck == Inv /\ (\E id \in Ids : Recheck(id)) => Inv'
<1> SUFFICES ASSUME Inv, NEW id \in Ids, Recheck(id) PROVE Inv'
  OBVIOUS
<1>1. /\ UNCHANGED <<rules, desired, removals, before, removed, incomplete, outcome, faults, edits>>
      /\ pc = "add" /\ IsNextAddition(id) /\ ~ Conflicts({id})
      /\ edited' = [edited EXCEPT !.look = {}]
  BY DEF Recheck
<1>2. \/ /\ Pending(id) /\ pc' = "allow" /\ added' = added \cup {id} /\ additions' = additions
      \/ /\ ~ Pending(id) /\ pc' = "add" /\ added' = added /\ additions' = additions \ {id}
  BY <1>1 DEF Recheck
<1>3. /\ edited'.plan = edited.plan /\ edited'.snapshot = edited.snapshot /\ edited'.look = {}
      /\ edited' \in [plan : SUBSET Ids, snapshot : SUBSET Ids, look : SUBSET Ids]
  BY <1>1 DEF Inv, TypeOK
<1>4. id \in additions /\ id \in desired /\ removed = {} /\ outcome = "none" /\ ~ incomplete
  BY <1>1 DEF IsNextAddition, Inv, TypeOK, Steps, Changing
<1>5. Pending(id) => With(rules, id) = {}
  BY DEF Pending, Missing, Matches
<1>6. TypeOK'
  <2>1. UNCHANGED incomplete
    BY <1>1
  <2>2. additions' \subseteq desired' /\ added' \subseteq desired'
    BY <1>1, <1>2, <1>4 DEF Inv, TypeOK
  <2>3. pc' \in {"start", "try", "add", "allow", "undo", "done"}
    BY <1>2
  <2> QED BY <1>1, <1>3, <2>1, <2>2, <2>3 DEF Inv, TypeOK
<1>7. Own' /\ Nested'
  BY <1>1, <1>3 DEF Inv, Own, IsObsolete, Nested
<1>8. Steps'
  BY <1>1, <1>2, <1>4 DEF Inv, Steps, Changing, Succeeded
<1>9. Rechecked'
  <2> SUFFICES ASSUME pc' = "allow", NEW x \in Ids, IsNextAddition(x)'
               PROVE  x \in added' /\ With(rules', x) = {}
    BY DEF Rechecked
  <2>1. x = id
    <3>1. additions' = additions /\ x \in additions /\ \A y \in additions : x <= y
      BY <1>2 DEF IsNextAddition
    <3>2. id \in additions /\ \A y \in additions : id <= y
      BY <1>1 DEF IsNextAddition
    <3>3. x <= id /\ id <= x /\ x \in Nat /\ id \in Nat
      BY <3>1, <3>2 DEF Ids
    <3> QED BY <3>3
  <2> QED BY <1>1, <1>2, <1>5, <2>1
<1>10. Covered'
  <2>1. ASSUME ~ Pending(id) PROVE Allowed(id)
    <3>1. PICK r \in Matches(id) : r.action = "allow"
      BY <1>1, <2>1 DEF Pending, Missing, Conflicts
    <3>2. PICK i \in DOMAIN rules : rules[i].id = id /\ rules[i] = r
      BY <3>1 DEF Matches, With
    <3> QED BY <3>1, <3>2 DEF Allowed, ToSet
  <2>2. ASSUME NEW x \in desired PROVE x \in additions' \/ x \in edited'.plan \/ Allowed(x)'
    <3>1. x \in additions \/ x \in edited.plan \/ Allowed(x)
      BY <1>1 DEF Inv, Covered, Changing
    <3>2. Allowed(x)' <=> Allowed(x)
      BY <1>1 DEF Allowed
    <3> QED BY <1>2, <1>3, <2>1, <3>1, <3>2
  <2>3. \A r \in ToSet(rules) :
           r.owner = "node" /\ r.id \notin desired /\ r.id \notin edited.plan =>
               \E i \in DOMAIN removals : removals[i] = r
    BY <1>1 DEF Inv, Covered, Changing
  <2> QED BY <1>1, <1>3, <2>2, <2>3 DEF Covered
<1>11. Planned'
  BY <1>1, <1>2, <1>3 DEF Inv, Planned, Changing
<1>12. Restorable'
  <2> SUFFICES ASSUME edited'.snapshot = {} PROVE Shape(rules', before', added', removed')
    BY DEF Restorable
  <2>1. Shape(rules, before, added, removed)
    BY <1>1, <1>3, <1>4 DEF Inv, Restorable, Changing
  <2>2. CASE ~ Pending(id)
    BY <1>1, <1>2, <2>1, <2>2
  <2>3. CASE Pending(id)
    <3>1. \A r \in ToSet(before) : r.id # id
      <4>1. List(rules) /\ List(before)
        BY Lists DEF Inv
      <4>2. ASSUME NEW r \in ToSet(before) PROVE r \in ToSet(rules)
        BY <1>4, <2>1 DEF Shape, Gone, ToSet
      <4> QED BY <1>5, <2>3, <4>1, <4>2, ListFacts
    <3>2. \A a \in {id} : \A r \in ToSet(before) : r.id # a
      BY <3>1
    <3>3. Shape(rules, before, added \cup {id}, removed \cup {})
      BY <2>1, <3>2, ShapeMore
    <3>4. removed \cup {} = removed
      OBVIOUS
    <3> QED BY <1>1, <1>2, <2>3, <3>3, <3>4
  <2> QED BY <2>2, <2>3
<1>13. Needed'
  <2>1. additions' \cup added' \subseteq additions \cup added
    BY <1>2, <1>4
  <2>2. \A x \in (additions \cup added) \ edited.plan : \A r \in ToSet(before) : r.id # x
    BY DEF Inv, Needed
  <2>3. \A r \in ToSet(before) : r.id \in desired \ edited.plan => r \in ToSet(rules)
    BY DEF Inv, Needed
  <2> QED BY <1>1, <1>2, <1>3, <1>4, <2>1, <2>2, <2>3 DEF Needed
<1> QED
  BY <1>6, <1>7, <1>8, <1>9, <1>10, <1>11, <1>12, <1>13 DEF Inv

\* What "ufw allow" of the next addition does.
LEMMA AllowStep ==
  ASSUME Inv, pc = "allow", NEW id \in Ids, IsNextAddition(id),
         NEW new, new = UfwAllow(rules, Mine(id))
  PROVE  /\ List(new) /\ ToSet(new) = {x \in ToSet(rules) : x.id # id} \cup {Mine(id)}
         /\ id \in added /\ id \in desired
         /\ edited.snapshot = {} => Shape(new, before, added, removed)
<1>1. List(rules) /\ List(before)
  BY Lists DEF Inv
<1>2. Mine(id).id = id /\ Writable(Mine(id))
  BY DEF Mine, Writable, Rule
<1>3. List(new) /\ ToSet(new) = {x \in ToSet(rules) : x.id # Mine(id).id} \cup {Mine(id)}
  BY <1>1, <1>2, AllowFacts
<1>4. id \in added /\ (id \notin edited.look => With(rules, id) = {})
  BY DEF Inv, Rechecked
<1>5. id \in desired
  BY DEF Inv, TypeOK, IsNextAddition
<1>6. ASSUME edited.snapshot = {} PROVE Shape(new, before, added, removed)
  <2>1. With(rules, id) = {}
    BY <1>4, <1>6 DEF Inv, Nested
  <2>2. Shape(rules, before, added, removed)
    BY <1>6 DEF Inv, Restorable, Changing, Steps
  <2> QED BY <1>1, <1>4, <2>1, <2>2, ShapeAppend
<1> QED
  BY <1>2, <1>3, <1>4, <1>5, <1>6

LEMMA ByAllow == Inv /\ (\E id \in Ids : Allow(id)) => Inv'
<1> SUFFICES ASSUME Inv, NEW id \in Ids, Allow(id) PROVE Inv'
  OBVIOUS
<1>1. /\ UNCHANGED <<desired, removals, before, added, removed, incomplete, outcome, edited,
                     faults, edits>>
      /\ pc = "allow" /\ IsNextAddition(id) /\ pc' = "add"
      /\ rules' = UfwAllow(rules, Mine(id)) /\ additions' = additions \ {id}
  BY DEF Allow, undo
<1>2. /\ List(rules') /\ ToSet(rules') = {x \in ToSet(rules) : x.id # id} \cup {Mine(id)}
      /\ id \in added /\ id \in desired
      /\ edited.snapshot = {} => Shape(rules', before, added, removed)
  BY <1>1, AllowStep
<1>3. TypeOK'
  <2>1. rules' \in Seq(Rule) /\ IsRuleList(rules)'
    BY <1>2 DEF List, IsRuleList
  <2>2. UNCHANGED incomplete
    BY <1>1
  <2> QED BY <1>1, <2>1, <2>2 DEF Inv, TypeOK
<1>4. Own' /\ Nested' /\ Rechecked'
  BY <1>1 DEF Inv, Own, IsObsolete, Nested, Rechecked
<1>5. Steps'
  BY <1>1 DEF Inv, Steps, Changing, Succeeded, IsNextAddition
<1>6. Covered'
  <2>1. Mine(id).id = id /\ Mine(id).action = "allow" /\ Mine(id).owner = "node"
    BY DEF Mine
  <2>2. ASSUME NEW x \in desired PROVE x \in additions' \/ x \in edited.plan \/ Allowed(x)'
    <3>1. x \in additions \/ x \in edited.plan \/ Allowed(x)
      BY <1>1 DEF Inv, Covered, Changing
    <3>2. CASE x = id
      BY <1>2, <2>1, <3>2 DEF Allowed
    <3>3. CASE x # id
      <4>1. Allowed(x) => Allowed(x)'
        BY <1>2, <3>3 DEF Allowed
      <4> QED BY <1>1, <3>1, <3>3, <4>1
    <3> QED BY <3>2, <3>3
  <2>3. ASSUME NEW r \in ToSet(rules'), r.owner = "node", r.id \notin desired,
               r.id \notin edited.plan
        PROVE  \E i \in DOMAIN removals : removals[i] = r
    <3>1. r \in ToSet(rules)
      BY <1>2, <2>1, <2>3
    <3> QED BY <1>1, <2>3, <3>1 DEF Inv, Covered, Changing
  <2>4. \A r \in ToSet(rules') :
           r.owner = "node" /\ r.id \notin desired' /\ r.id \notin edited'.plan =>
               \E i \in DOMAIN removals' : removals'[i] = r
    BY <1>1, <2>3
  <2> QED BY <1>1, <2>2, <2>4 DEF Covered
<1>7. Planned'
  BY <1>1 DEF Inv, Planned, Changing
<1>8. Restorable'
  BY <1>1, <1>2 DEF Restorable
<1>9. Needed'
  <2>1. id \notin edited.plan => \A r \in ToSet(before) : r.id # id
    BY <1>1 DEF Inv, Needed, IsNextAddition
  <2>2. \A r \in ToSet(before) : r.id \in desired \ edited.plan => r \in ToSet(rules')
    BY <1>2, <2>1 DEF Inv, Needed
  <2> QED BY <1>1, <2>2 DEF Inv, Needed
<1> QED
  BY <1>3, <1>4, <1>5, <1>6, <1>7, <1>8, <1>9 DEF Inv

LEMMA ByDelete == Inv /\ (\E i \in DOMAIN removals : Delete(i)) => Inv'
<1> SUFFICES ASSUME Inv, NEW i \in DOMAIN removals, Delete(i) PROVE Inv'
  OBVIOUS
<1> DEFINE r == removals[i]
<1>1. /\ UNCHANGED <<desired, additions, before, pc, added, incomplete, outcome, edited,
                     faults, edits>>
      /\ pc = "add" /\ additions = {}
      /\ removals' = Restrict(removals, DOMAIN removals \ {i})
  BY DEF Delete, AllAdded
<1>2. \/ /\ r \in ToSet(before) /\ removed' = removed \cup {r} /\ rules' = UfwDelete(rules, r)
      \/ /\ r \notin ToSet(before) /\ removed' = removed /\ rules' = rules
  BY DEF Delete, HasPosition
<1>3. /\ DOMAIN removals' = DOMAIN removals \ {i}
      /\ \A j \in DOMAIN removals' : removals'[j] = removals[j]
  BY <1>1 DEF Restrict
<1>4. List(rules) /\ List(before)
  BY Lists DEF Inv
<1>5. r.owner = "node" /\ r.id \notin desired
  BY DEF Inv, Own, IsObsolete
<1>6. outcome = "none" /\ ~ incomplete
  BY <1>1 DEF Inv, Steps
<1> HIDE DEF r
<1>7. List(rules') /\ (r \in ToSet(before) => ToSet(rules') = ToSet(rules) \ {r})
  BY <1>2, <1>4, DeleteFacts
<1>8. TypeOK'
  <2>1. rules' \in Seq(Rule) /\ IsRuleList(rules)'
    BY <1>7 DEF List, IsRuleList
  <2>2. UNCHANGED incomplete
    BY <1>1
  <2>3. \A j \in DOMAIN removals' : removals'[j] \in Rule
    BY <1>3 DEF Inv, TypeOK
  <2>4. removed' \subseteq ToSet(before')
    BY <1>1, <1>2 DEF Inv, TypeOK
  <2> QED BY <1>1, <2>1, <2>2, <2>3, <2>4 DEF Inv, TypeOK
<1>9. Own'
  BY <1>1, <1>2, <1>3, <1>5 DEF Inv, Own, IsObsolete
<1>10. Nested' /\ Rechecked'
  BY <1>1 DEF Inv, Nested, Rechecked
<1>11. Steps'
  BY <1>1, <1>6 DEF Inv, Steps, Changing, Succeeded
<1>12. Covered'
  <2>1. ASSUME NEW x \in desired PROVE x \in additions \/ x \in edited.plan \/ Allowed(x)'
    <3>1. x \in additions \/ x \in edited.plan \/ Allowed(x)
      BY <1>1 DEF Inv, Covered, Changing
    <3>2. Allowed(x) => Allowed(x)'
      BY <1>2, <1>5, <1>7 DEF Allowed
    <3> QED BY <3>1, <3>2
  <2>2. ASSUME NEW x \in ToSet(rules'), x.owner = "node", x.id \notin desired,
               x.id \notin edited.plan
        PROVE  \E j \in DOMAIN removals' : removals'[j] = x
    <3>1. x \in ToSet(rules)
      BY <1>2, <1>7
    <3>2. PICK j \in DOMAIN removals : removals[j] = x
      BY <1>1, <2>2, <3>1 DEF Inv, Covered, Changing
    <3>3. x \in ToSet(before)
      BY <1>1, <2>2, <3>2 DEF Inv, Planned, Changing
    <3>4. j # i
      BY <1>7, <2>2, <3>2, <3>3 DEF r
    <3> QED BY <1>3, <3>2, <3>4
  <2>3. \A x \in ToSet(rules') :
           x.owner = "node" /\ x.id \notin desired' /\ x.id \notin edited'.plan =>
               \E j \in DOMAIN removals' : removals'[j] = x
    BY <1>1, <2>2
  <2> QED BY <1>1, <2>1, <2>3 DEF Covered
<1>13. Planned'
  BY <1>1, <1>3 DEF Inv, Planned, Changing
<1>14. Restorable'
  <2> SUFFICES ASSUME edited.snapshot = {} PROVE Shape(rules', before', added', removed')
    BY <1>1 DEF Restorable
  <2>1. Shape(rules, before, added, removed)
    BY <1>1, <1>6 DEF Inv, Restorable, Changing
  <2>2. r \in ToSet(before) => Shape(UfwDelete(rules, r), before, added, removed \cup {r})
    BY <1>4, <2>1, ShapeDelete
  <2> QED BY <1>1, <1>2, <2>1, <2>2
<1>15. Needed'
  <2>1. \A x \in ToSet(before) : x.id \in desired \ edited.plan => x \in ToSet(rules)
    BY DEF Inv, Needed
  <2>2. \A x \in ToSet(before) : x.id \in desired \ edited.plan => x \in ToSet(rules')
    BY <1>2, <1>5, <1>7, <2>1
  <2> QED BY <1>1, <1>6, <2>2 DEF Inv, Needed
<1> QED
  BY <1>8, <1>9, <1>10, <1>11, <1>12, <1>13, <1>14, <1>15 DEF Inv

LEMMA ByFails == Inv /\ Fails => Inv'
<1> SUFFICES ASSUME Inv, Fails PROVE Inv'
  OBVIOUS
<1>1. /\ UNCHANGED <<desired, additions, removals, before, added, incomplete, outcome, edited, edits>>
      /\ pc \in {"add", "allow"} /\ pc' = "undo" /\ faults' = faults + 1
  BY DEF Fails, plan
<1>2. List(rules) /\ List(before) /\ outcome = "none" /\ ~ incomplete
  BY <1>1, Lists DEF Inv, Steps
<1>3. /\ List(rules') /\ removed' \subseteq ToSet(before)
      /\ \A r \in removed' : IsObsolete(r)
      /\ edited.snapshot = {} => Shape(rules', before, added, removed')
  <2>1. edited.snapshot = {} => Shape(rules, before, added, removed)
    BY <1>1, <1>2 DEF Inv, Restorable, Changing
  <2>2. removed \subseteq ToSet(before) /\ \A r \in removed : IsObsolete(r)
    BY DEF Inv, TypeOK, Own
  <2>3. CASE UNCHANGED <<rules, removed>>
    BY <1>2, <2>1, <2>2, <2>3
  <2>4. CASE /\ pc = "allow" /\ UNCHANGED removed
             /\ \E id \in Ids : IsNextAddition(id) /\ rules' = UfwAllow(rules, Mine(id))
    <3>1. PICK id \in Ids : IsNextAddition(id) /\ rules' = UfwAllow(rules, Mine(id))
      BY <2>4
    <3>2. List(rules') /\ (edited.snapshot = {} => Shape(rules', before, added, removed))
      BY <2>4, <3>1, AllowStep
    <3> QED BY <2>2, <2>4, <3>2
  <2>5. CASE /\ pc = "add" /\ AllAdded
             /\ \E i \in DOMAIN removals :
                   /\ IsNextRemoval(i) /\ HasPosition(removals[i])
                   /\ removed' = removed \cup {removals[i]}
                   /\ rules' \in {rules, UfwDelete(rules, removals[i])}
    <3>1. PICK i \in DOMAIN removals :
             /\ HasPosition(removals[i]) /\ removed' = removed \cup {removals[i]}
             /\ rules' \in {rules, UfwDelete(rules, removals[i])}
      BY <2>5
    <3> DEFINE r == removals[i]
    <3>2. r \in ToSet(before) /\ IsObsolete(r)
      BY <3>1 DEF HasPosition, Inv, Own
    <3> HIDE DEF r
    <3>3. removed' = removed \cup {r} /\ rules' \in {rules, UfwDelete(rules, r)}
      BY <3>1 DEF r
    <3>4. List(rules')
      BY <1>2, <3>3, DeleteFacts
    <3>5. ASSUME edited.snapshot = {} PROVE Shape(rules', before, added, removed')
      <4>1. Shape(UfwDelete(rules, r), before, added, removed \cup {r})
        BY <1>2, <2>1, <3>2, <3>5, ShapeDelete
      <4>2. Shape(rules, before, added \cup {}, removed \cup {r})
        BY <2>1, <3>5, ShapeMore
      <4>3. added \cup {} = added
        OBVIOUS
      <4> QED BY <3>3, <4>1, <4>2, <4>3
    <3> QED BY <2>2, <3>2, <3>3, <3>4, <3>5
  <2> QED BY <2>3, <2>4, <2>5 DEF Fails
<1>4. TypeOK'
  <2>1. rules' \in Seq(Rule) /\ IsRuleList(rules)'
    BY <1>3 DEF List, IsRuleList
  <2>2. UNCHANGED incomplete
    BY <1>1
  <2> QED BY <1>1, <1>3, <2>1, <2>2 DEF Inv, TypeOK
<1>5. Own'
  BY <1>1, <1>3 DEF Inv, Own, IsObsolete
<1>6. Nested' /\ Rechecked'
  BY <1>1 DEF Inv, Nested, Rechecked
<1>7. Steps'
  BY <1>1, <1>2 DEF Steps, Changing, Succeeded
<1>8. Covered' /\ Planned'
  BY <1>1, <1>2 DEF Covered, Planned, Changing, Succeeded
<1>9. Restorable'
  BY <1>1, <1>3 DEF Restorable
<1>10. Needed'
  <2>1. \A x \in ToSet(before) : x.id \in desired \ edited.plan => x \in ToSet(rules)
    BY DEF Inv, Needed
  <2>2. ASSUME NEW x \in ToSet(before), x.id \in desired \ edited.plan
        PROVE  x \in ToSet(rules')
    <3>1. CASE UNCHANGED rules
      BY <2>1, <2>2, <3>1
    <3>2. CASE pc = "allow" /\ \E id \in Ids : IsNextAddition(id) /\ rules' = UfwAllow(rules, Mine(id))
      <4>1. PICK id \in Ids : IsNextAddition(id) /\ rules' = UfwAllow(rules, Mine(id))
        BY <3>2
      <4>2. ToSet(rules') = {y \in ToSet(rules) : y.id # id} \cup {Mine(id)}
        BY <3>2, <4>1, AllowStep
      <4>3. x.id # id
        BY <2>2, <4>1 DEF Inv, Needed, IsNextAddition
      <4> QED BY <2>1, <2>2, <4>2, <4>3
    <3>3. CASE \E i \in DOMAIN removals : rules' \in {rules, UfwDelete(rules, removals[i])}
      <4>1. PICK i \in DOMAIN removals : rules' \in {rules, UfwDelete(rules, removals[i])}
        BY <3>3
      <4>2. ToSet(UfwDelete(rules, removals[i])) = ToSet(rules) \ {removals[i]}
        BY <1>2, DeleteFacts
      <4>3. removals[i].id \notin desired
        BY DEF Inv, Own, IsObsolete
      <4> QED BY <2>1, <2>2, <4>1, <4>2, <4>3
    <3> QED BY <3>1, <3>2, <3>3 DEF Fails
  <2> QED BY <1>1, <1>2, <2>2 DEF Inv, Needed
<1> QED
  BY <1>4, <1>5, <1>6, <1>7, <1>8, <1>9, <1>10 DEF Inv

LEMMA ByUnadd == Inv /\ (\E id \in Ids : Unadd(id)) => Inv'
<1> SUFFICES ASSUME Inv, NEW id \in Ids, Unadd(id) PROVE Inv'
  OBVIOUS
<1>1. /\ UNCHANGED <<desired, additions, removals, before, pc, removed, outcome, edited, edits>>
      /\ pc = "undo" /\ id \in added /\ added' = added \ {id}
  BY DEF Unadd, plan
<1>2. /\ rules' \in {rules, UfwDelete(rules, Mine(id))}
      /\ faults' \in Nat /\ incomplete' \in BOOLEAN
      /\ ~ incomplete' => ~ incomplete /\ rules' = UfwDelete(rules, Mine(id))
  <2>1. faults \in Nat /\ incomplete \in BOOLEAN
    BY DEF Inv, TypeOK
  <2>2. CASE rules' = UfwDelete(rules, Mine(id)) /\ UNCHANGED <<faults, incomplete>>
    BY <2>1, <2>2
  <2>3. CASE /\ faults' = faults + 1 /\ incomplete' = TRUE
             /\ rules' \in {rules, UfwDelete(rules, Mine(id))}
    BY <2>1, <2>3
  <2> QED BY <2>2, <2>3 DEF Unadd
<1>3. List(rules) /\ List(before) /\ outcome = "none"
  BY <1>1, Lists DEF Inv, Steps
<1>4. List(rules')
  BY <1>2, <1>3, DeleteFacts
<1>5. TypeOK'
  <2>1. rules' \in Seq(Rule) /\ IsRuleList(rules)'
    BY <1>4 DEF List, IsRuleList
  <2>2. added' \subseteq desired
    BY <1>1 DEF Inv, TypeOK
  <2> QED BY <1>1, <1>2, <2>1, <2>2 DEF Inv, TypeOK
<1>6. Own' /\ Nested' /\ Rechecked'
  BY <1>1 DEF Inv, Own, IsObsolete, Nested, Rechecked
<1>7. Steps'
  BY <1>1, <1>3 DEF Steps, Changing, Succeeded
<1>8. Covered' /\ Planned'
  BY <1>1, <1>3 DEF Covered, Planned, Changing, Succeeded
<1>9. Restorable'
  <2> SUFFICES ASSUME ~ incomplete', edited.snapshot = {}
               PROVE  Shape(rules', before', added', removed')
    BY <1>1 DEF Restorable
  <2>1. ~ incomplete /\ rules' = UfwDelete(rules, Mine(id))
    BY <1>2
  <2>2. Shape(rules, before, added, removed)
    BY <1>1, <2>1 DEF Inv, Restorable
  <2>3. Shape(UfwDelete(rules, Mine(id)), before, added \ {id}, removed)
    BY <1>1, <1>3, <2>2, ShapeUnadd
  <2> QED BY <1>1, <2>1, <2>3
<1>10. Needed'
  <2>1. id \notin edited.plan => \A x \in ToSet(before) : x.id # id
    BY <1>1 DEF Inv, Needed
  <2>2. ToSet(UfwDelete(rules, Mine(id))) = ToSet(rules) \ {Mine(id)} /\ Mine(id).id = id
    BY <1>3, DeleteFacts DEF Mine
  <2>3. \A x \in ToSet(before) : x.id \in desired \ edited.plan => x \in ToSet(rules')
    BY <1>2, <2>1, <2>2 DEF Inv, Needed
  <2>4. (additions \cup added') \subseteq (additions \cup added)
    BY <1>1
  <2> QED BY <1>1, <1>3, <2>3, <2>4 DEF Inv, Needed
<1> QED
  BY <1>5, <1>6, <1>7, <1>8, <1>9, <1>10 DEF Inv

LEMMA ByUnremove == Inv /\ Unremove => Inv'
<1> SUFFICES ASSUME Inv, Unremove PROVE Inv'
  OBVIOUS
<1>1. /\ UNCHANGED <<desired, additions, removals, before, pc, added, outcome, edited, edits>>
      /\ pc = "undo" /\ added = {}
  BY DEF Unremove, plan
<1>2. PICK r \in removed :
         /\ IsNext(r) /\ removed' = removed \ {r}
         /\ \/ /\ Position(r) <= Len(rules) + 1 /\ rules' = UfwInsert(rules, r, Position(r))
               /\ UNCHANGED <<faults, incomplete>>
            \/ /\ Position(r) > Len(rules) /\ incomplete' = TRUE
               /\ UNCHANGED <<rules, faults>>
            \/ /\ faults < MaxFaults /\ faults' = faults + 1 /\ incomplete' = TRUE
               /\ rules' \in {rules} \cup IF Position(r) <= Len(rules) + 1
                                          THEN {UfwInsert(rules, r, Position(r))} ELSE {}
  BY DEF Unremove
<1> DEFINE q == Place(before, r)
           new == UfwInsert(rules, r, q)
<1>3. List(rules) /\ List(before) /\ outcome = "none" /\ Len(rules) \in Nat /\ Len(before) \in Nat
  BY <1>1, Lists, ListFacts DEF Inv, Steps
<1>4. r \in ToSet(before) /\ Writable(r) /\ q \in 1..Len(before) /\ removed \subseteq ToSet(before)
  BY <1>3, Lists, PlaceFacts DEF Inv, TypeOK
<1>5. q <= Len(rules) + 1 => List(new)
  BY <1>3, <1>4, InsertedFacts
<1>6. \A x \in removed : q <= Place(before, x)
  BY <1>2 DEF IsNext, Position
<1>7. /\ rules' = rules \/ (rules' = new /\ q <= Len(rules) + 1)
      /\ faults' \in Nat /\ incomplete' \in BOOLEAN
      /\ ~ incomplete' => ~ incomplete /\ rules' = new
  <2>1. faults \in Nat /\ incomplete \in BOOLEAN
    BY DEF Inv, TypeOK
  <2>2. CASE q <= Len(rules) + 1 /\ rules' = new /\ UNCHANGED <<faults, incomplete>>
    BY <2>1, <2>2
  <2>3. CASE incomplete' = TRUE /\ UNCHANGED <<rules, faults>>
    BY <2>1, <2>3
  <2>4. CASE /\ faults' = faults + 1 /\ incomplete' = TRUE
             /\ rules' \in {rules} \cup IF q <= Len(rules) + 1 THEN {new} ELSE {}
    BY <2>1, <2>4
  <2> QED BY <1>2, <2>2, <2>3, <2>4 DEF Position
<1>8. List(rules')
  BY <1>3, <1>5, <1>7
<1>9. TypeOK'
  <2>1. rules' \in Seq(Rule) /\ IsRuleList(rules)'
    BY <1>8 DEF List, IsRuleList
  <2>2. removed' \subseteq ToSet(before)
    BY <1>2, <1>4
  <2> QED BY <1>1, <1>7, <2>1, <2>2 DEF Inv, TypeOK
<1>10. Own' /\ Nested' /\ Rechecked'
  <2>1. \A x \in removed' : IsObsolete(x)'
    BY <1>1, <1>2 DEF Inv, Own, IsObsolete
  <2> QED BY <1>1, <2>1 DEF Inv, Own, IsObsolete, Nested, Rechecked
<1>11. Steps'
  BY <1>1, <1>3 DEF Steps, Changing, Succeeded
<1>12. Covered' /\ Planned'
  BY <1>1, <1>3 DEF Covered, Planned, Changing, Succeeded
<1>13. Restorable'
  <2> SUFFICES ASSUME ~ incomplete', edited.snapshot = {}
               PROVE  Shape(rules', before', added', removed')
    BY <1>1 DEF Restorable
  <2>1. ~ incomplete /\ rules' = new
    BY <1>7
  <2>2. Shape(rules, before, {}, removed)
    <3>1. Shape(rules, before, added, removed)
      BY <1>1, <2>1 DEF Inv, Restorable
    <3> QED BY <1>1, <3>1
  <2>3. Shape(new, before, {}, removed \ {r})
    BY <1>3, <1>4, <1>6, <2>2, ShapeRestore
  <2> QED BY <1>1, <1>2, <2>1, <2>3
<1>14. Needed'
  <2>1. ToSet(rules) \subseteq ToSet(rules')
    <3>1. CASE rules' = rules
      BY <3>1
    <3>2. CASE rules' = new /\ q <= Len(rules) + 1
      <4>1. q \in 1..(Len(rules) + 1)
        BY <1>3, <1>4, <3>2
      <4> QED BY <1>3, <1>4, <3>2, <4>1, InsertedFacts
    <3> QED BY <1>7, <3>1, <3>2
  <2> QED BY <1>1, <1>3, <2>1 DEF Inv, Needed
<1> QED
  BY <1>9, <1>10, <1>11, <1>12, <1>13, <1>14 DEF Inv

LEMMA ByAdmin == Inv /\ AdminEdits => Inv'
<1> SUFFICES ASSUME Inv, AdminEdits PROVE Inv'
  OBVIOUS
<1>1. /\ UNCHANGED <<desired, additions, removals, before, pc, added, removed, incomplete, outcome,
                     faults>>
      /\ pc # "done" /\ edits' = edits + 1
  BY DEF AdminEdits, plan, undo
<1>2. List(rules) /\ List(before) /\ outcome = "none"
  BY <1>1, Lists DEF Inv, Steps
<1>3. PICK id \in Ids :
         /\ \/ \E a \in {"allow", "deny"} :
                  rules' = UfwAllow(rules, [id |-> id, action |-> a, owner |-> "other"])
            \/ \E i \in With(rules, id) : rules' = RemoveAt(rules, i)
         /\ edited' = [since \in DOMAIN edited |-> edited[since] \cup {id}]
  BY DEF AdminEdits
<1>4. List(rules') /\ \A x : x.id # id => (x \in ToSet(rules) <=> x \in ToSet(rules'))
  <2>1. CASE \E a \in {"allow", "deny"} :
                rules' = UfwAllow(rules, [id |-> id, action |-> a, owner |-> "other"])
    <3>1. PICK a \in {"allow", "deny"} :
             rules' = UfwAllow(rules, [id |-> id, action |-> a, owner |-> "other"])
      BY <2>1
    <3> DEFINE r == [id |-> id, action |-> a, owner |-> "other"]
    <3>2. r.id = id /\ Writable(r)
      BY DEF Writable, Rule
    <3> HIDE DEF r
    <3>3. /\ List(UfwAllow(rules, r))
          /\ ToSet(UfwAllow(rules, r)) = {x \in ToSet(rules) : x.id # r.id} \cup {r}
      BY <1>2, <3>2, AllowFacts
    <3>4. rules' = UfwAllow(rules, r)
      BY <3>1 DEF r
    <3> QED BY <3>2, <3>3, <3>4
  <2>2. CASE \E i \in With(rules, id) : rules' = RemoveAt(rules, i)
    <3>1. PICK i \in With(rules, id) : rules' = RemoveAt(rules, i)
      BY <2>2
    <3>2. i \in 1..Len(rules) /\ rules[i].id = id
      BY <1>2, ListFacts DEF With
    <3>3. List(RemoveAt(rules, i)) /\ ToSet(RemoveAt(rules, i)) = ToSet(rules) \ {rules[i]}
      BY <1>2, <3>2, DropFacts
    <3> QED BY <3>1, <3>2, <3>3
  <2> QED BY <1>3, <2>1, <2>2
<1>5. /\ edited'.plan = edited.plan \cup {id} /\ edited'.snapshot = edited.snapshot \cup {id}
      /\ edited'.look = edited.look \cup {id}
      /\ edited' \in [plan : SUBSET Ids, snapshot : SUBSET Ids, look : SUBSET Ids]
  <2>1. edited \in [plan : SUBSET Ids, snapshot : SUBSET Ids, look : SUBSET Ids]
    BY DEF Inv, TypeOK
  <2>2. edited' = [plan |-> edited.plan \cup {id}, snapshot |-> edited.snapshot \cup {id},
                   look |-> edited.look \cup {id}]
    BY <1>3, <2>1
  <2> QED BY <2>1, <2>2
<1>6. TypeOK'
  <2>1. rules' \in Seq(Rule) /\ IsRuleList(rules)'
    BY <1>4 DEF List, IsRuleList
  <2>2. UNCHANGED incomplete
    BY <1>1
  <2> QED BY <1>1, <1>5, <2>1, <2>2 DEF Inv, TypeOK
<1>7. Own' /\ Nested'
  BY <1>1, <1>5 DEF Inv, Own, IsObsolete, Nested
<1>8. Steps'
  BY <1>1 DEF Inv, Steps, Changing, Succeeded
<1>9. Rechecked'
  <2>1. \A y \in Ids : IsNextAddition(y)' <=> IsNextAddition(y)
    BY <1>1 DEF IsNextAddition
  <2> SUFFICES ASSUME pc = "allow", NEW x \in Ids, IsNextAddition(x)
               PROVE  x \in added /\ (x \notin edited'.look => With(rules', x) = {})
    BY <1>1, <2>1 DEF Rechecked
  <2>2. x \in added /\ (x \notin edited.look => With(rules, x) = {})
    BY DEF Inv, Rechecked
  <2>3. ASSUME x \notin edited'.look PROVE With(rules', x) = {}
    <3>1. x # id /\ With(rules, x) = {}
      BY <1>5, <2>2, <2>3
    <3>2. \A r \in ToSet(rules) : r.id # x
      BY <1>2, <3>1, ListFacts
    <3>3. \A r \in ToSet(rules') : r.id # x
      BY <1>4, <3>1, <3>2
    <3> QED BY <1>4, <3>3, ListFacts
  <2> QED BY <2>2, <2>3
<1>10. Covered'
  <2> SUFFICES ASSUME pc = "try" \/ Changing
               PROVE  /\ \A x \in desired : x \in additions \/ x \in edited'.plan \/ Allowed(x)'
                      /\ \A r \in ToSet(rules') :
                            r.owner = "node" /\ r.id \notin desired /\ r.id \notin edited'.plan =>
                                \E i \in DOMAIN removals : removals[i] = r
    BY <1>1, <1>2 DEF Covered, Changing, Succeeded
  <2>1. /\ \A x \in desired : x \in additions \/ x \in edited.plan \/ Allowed(x)
        /\ \A r \in ToSet(rules) :
              r.owner = "node" /\ r.id \notin desired /\ r.id \notin edited.plan =>
                  \E i \in DOMAIN removals : removals[i] = r
    BY DEF Inv, Covered
  <2>2. ASSUME NEW x \in desired PROVE x \in additions \/ x \in edited'.plan \/ Allowed(x)'
    <3>1. Allowed(x) /\ x # id => Allowed(x)'
      BY <1>4 DEF Allowed
    <3> QED BY <1>5, <2>1, <3>1
  <2> QED BY <1>4, <1>5, <2>1, <2>2
<1>11. Planned'
  <2> SUFFICES ASSUME NEW i \in DOMAIN removals, removals[i].id \notin edited'.plan
               PROVE  /\ pc = "try" => removals[i] \in ToSet(rules')
                      /\ Changing => removals[i] \in ToSet(before)
    BY <1>1 DEF Planned, Changing
  <2>1. removals[i].id \notin edited.plan /\ removals[i].id # id
    BY <1>5
  <2> QED BY <1>4, <2>1 DEF Inv, Planned
<1>12. Restorable'
  BY <1>5 DEF Restorable
<1>13. Needed'
  <2>1. \A x \in ToSet(before) : x.id \in desired \ edited'.plan => x \in ToSet(rules')
    BY <1>4, <1>5 DEF Inv, Needed
  <2>2. pc = "try" =>
            \A x \in additions \ edited'.plan : \A y \in ToSet(rules') : y.id # x
    BY <1>4, <1>5 DEF Inv, Needed
  <2>3. \A x \in (additions \cup added) \ edited'.plan : \A y \in ToSet(before) : y.id # x
    BY <1>5 DEF Inv, Needed
  <2> QED BY <1>1, <1>2, <2>1, <2>2, <2>3 DEF Inv, Needed
<1> QED
  BY <1>6, <1>7, <1>8, <1>9, <1>10, <1>11, <1>12, <1>13 DEF Inv

LEMMA StutterInv == Inv /\ UNCHANGED vars => Inv'
<1> SUFFICES ASSUME Inv, UNCHANGED vars PROVE Inv'
  OBVIOUS
<1>1. /\ UNCHANGED <<rules, desired, additions, removals, before, pc, added, removed, incomplete,
                     outcome, edited, faults, edits>>
  BY DEF vars, plan, undo
<1>2. TypeOK' /\ Own'
  BY <1>1 DEF Inv, TypeOK, Own, IsObsolete
<1>3. Nested' /\ Steps' /\ Rechecked'
  BY <1>1 DEF Inv, Nested, Steps, Rechecked, Changing, Succeeded, IsNextAddition
<1>4. Covered' /\ Planned'
  BY <1>1 DEF Inv, Covered, Planned, Changing, Succeeded, Allowed
<1>5. Restorable'
  BY <1>1 DEF Inv, Restorable, Changing
<1>6. Needed'
  BY <1>1 DEF Inv, Needed
<1> QED
  BY <1>2, <1>3, <1>4, <1>5, <1>6 DEF Inv

LEMMA StepInv == Inv /\ [Next]_vars => Inv'
<1>1. Inv /\ Helper => Inv'
  BY ByRefuse, ByPlan, BySnapshot, ByTryFails, ByUpdated, ByFails, ByUnremove, ByRolledBack,
     ByAborted, ByRecheck, ByAllow, ByConflict, ByUnadd, ByDelete DEF Helper
<1> QED
  BY <1>1, ByAdmin, StutterInv DEF Next

------------------------------------------------------------------------------
(* The theorems *)

\* The invariant of the transaction.
THEOREM Invariant == Spec => []Inv
  BY StartInv, StepInv, PTL DEF Spec

\* The state is of its type.
THEOREM TypeTheorem == Spec => []TypeOK
<1>1. Inv => TypeOK
  BY DEF Inv
<1> QED
  BY <1>1, Invariant, PTL

\* A rollback that does not report itself incomplete leaves the rules as they were, each at
\* its place, wherever the transaction failed (node_firewall.py:216-217).
THEOREM RollbackTheorem == Spec => []RollbackRestores
<1>1. Inv => RollbackRestores
  <2> SUFFICES ASSUME Inv, outcome = "rolledBack", ~ incomplete, edited.snapshot = {}
               PROVE  rules = before
    BY DEF RollbackRestores
  <2>1. Shape(rules, before, added, removed) /\ added = {} /\ removed = {}
    BY DEF Inv, Restorable, Steps
  <2>2. Shape(rules, before, {}, {})
    BY <2>1
  <2> QED BY <2>2, Lists, ShapeEnd DEF Inv
<1> QED
  BY <1>1, Invariant, PTL

\* A run that reports success has allowed every rule the node needs, and has left no other
\* rule of the node (changes, node_firewall.py:185-197, and the loops of apply, :225-235).
THEOREM CompleteTheorem == Spec => []UpdateIsComplete
<1>1. Inv => UpdateIsComplete
  <2> SUFFICES ASSUME Inv, Succeeded
               PROVE  /\ \A id \in desired \ edited.plan :
                            \E r \in ToSet(rules) : r.id = id /\ r.action = "allow"
                      /\ \A r \in ToSet(rules) :
                            r.owner = "node" /\ r.id \notin edited.plan => r.id \in desired
    BY DEF UpdateIsComplete, Succeeded
  <2>1. additions = {} /\ DOMAIN removals = {}
    BY DEF Inv, Steps
  <2> QED BY <2>1 DEF Inv, Covered, Allowed
<1> QED
  BY <1>1, Invariant, PTL

\* A rule the node has and still needs is in force at every moment, whatever fails.  Of those
\* that are replaced, all the old ones or all the new ones are in force, but for a rollback
\* that takes the new ones away before it puts the old ones back, and for what an incomplete
\* or an interrupted rollback leaves (node_firewall.py:225-248).
THEOREM GapTheorem == Spec => []NoGap
<1>1. Inv => NoGap
  <2> SUFFICES ASSUME Inv, edited.plan = {}, ~ (pc = "undo" /\ removed # {}), ~ incomplete,
                      outcome # "aborted", ~ NewInForce
               PROVE  OldInForce
    BY DEF NoGap, Inv, Needed
  <2>1. ToSet(before) \subseteq ToSet(rules) => OldInForce
    BY DEF OldInForce
  <2>2. CASE before = <<>>
    BY <2>1, <2>2 DEF ToSet
  <2>3. CASE (Changing \/ pc = "undo" \/ outcome = "rolledBack") /\ removed = {}
    <3>1. edited.snapshot = {}
      BY DEF Inv, Nested
    <3>2. Shape(rules, before, added, removed)
      BY <2>3, <3>1 DEF Inv, Restorable
    <3>3. ToSet(before) \subseteq ToSet(rules)
      BY <2>3, <3>2 DEF Shape, Gone, ToSet
    <3> QED BY <2>1, <3>3
  <2>4. ~ ((Changing \/ Succeeded) /\ additions = {})
    BY DEF Inv, Covered, NewInForce, Allowed
  <2>5. CASE Changing
    BY <2>3, <2>4, <2>5 DEF Inv, Steps
  <2>6. CASE pc \in {"start", "try"} \/ outcome \in {"refused", "failed"}
    BY <2>2, <2>6 DEF Inv, Needed
  <2>7. CASE pc = "undo" \/ outcome = "rolledBack"
    BY <2>3, <2>7 DEF Inv, Steps
  <2>8. ~ Succeeded
    BY <2>4 DEF Inv, Steps
  <2>9. Changing \/ pc \in {"start", "try", "undo"} \/ outcome \in {"refused", "failed", "rolledBack"}
    BY <2>8 DEF Inv, TypeOK, Needed, Changing, Succeeded
  <2> QED BY <2>5, <2>6, <2>7, <2>9
<1> QED
  BY <1>1, Invariant, PTL

\* No command of the helper removes or replaces a rule of anybody else that was there when
\* it last looked (node_firewall.py:227 and :135-136).
THEOREM OthersTheorem == Spec => OthersKept
<1> DEFINE Keeps == \A r \in ToSet(rules) :
                        r.owner = "other" /\ r.id \notin edited'.look => r \in ToSet(rules')
<1>1. ASSUME Inv, Helper, NEW r \in ToSet(rules), r.owner = "other", r.id \notin edited'.look
      PROVE  r \in ToSet(rules')
  <2>0. List(rules) /\ List(before)
    BY <1>1, Lists DEF Inv
  <2>1. ASSUME NEW id \in Ids, pc = "allow", IsNextAddition(id), UNCHANGED edited,
               rules' = UfwAllow(rules, Mine(id))
        PROVE  r \in ToSet(rules')
    <3>1. ToSet(rules') = {x \in ToSet(rules) : x.id # id} \cup {Mine(id)}
      BY <1>1, <2>1, AllowStep
    <3>2. r.id # id
      <4>1. id \notin edited.look => \A x \in ToSet(rules) : x.id # id
        BY <1>1, <2>0, <2>1, ListFacts DEF Inv, Rechecked
      <4> QED BY <1>1, <2>1, <4>1
    <3> QED BY <3>1, <3>2
  <2>2. ASSUME NEW x, x.owner = "node", rules' = UfwDelete(rules, x)
        PROVE  r \in ToSet(rules')
    <3>1. ToSet(rules') = ToSet(rules) \ {x}
      BY <2>0, <2>2, DeleteFacts
    <3> QED BY <1>1, <2>2, <3>1
  <2>3. \A i \in DOMAIN removals : removals[i].owner = "node"
    BY <1>1 DEF Inv, Own, IsObsolete
  <2>4. CASE Fails
    <3>1. CASE UNCHANGED rules
      BY <3>1
    <3>2. CASE pc = "allow" /\ \E id \in Ids : IsNextAddition(id) /\ rules' = UfwAllow(rules, Mine(id))
      BY <2>1, <2>4, <3>2 DEF Fails
    <3>3. CASE \E i \in DOMAIN removals : rules' \in {rules, UfwDelete(rules, removals[i])}
      BY <2>2, <2>3, <3>3
    <3> QED BY <2>4, <3>1, <3>2, <3>3 DEF Fails
  <2>5. CASE Unremove
    <3>1. PICK x \in removed :
             \/ rules' = rules
             \/ rules' = UfwInsert(rules, x, Position(x)) /\ Position(x) <= Len(rules) + 1
      BY <2>5 DEF Unremove
    <3>2. CASE rules' = UfwInsert(rules, x, Position(x)) /\ Position(x) <= Len(rules) + 1
      <4>1. x \in ToSet(before) /\ Writable(x)
        BY <1>1, <2>0, Lists DEF Inv, TypeOK
      <4>2. Position(x) \in 1..(Len(rules) + 1)
        <5>1. Place(before, x) \in 1..Len(before) /\ Len(rules) \in Nat /\ Len(before) \in Nat
          BY <2>0, <4>1, PlaceFacts, ListFacts
        <5> QED BY <3>2, <5>1 DEF Position
      <4>3. ToSet(rules) \subseteq ToSet(UfwInsert(rules, x, Position(x)))
        BY <2>0, <4>1, <4>2, InsertedFacts
      <4> QED BY <1>1, <3>2, <4>3
    <3> QED BY <1>1, <3>1, <3>2
  <2>6. CASE \E id \in Ids : Recheck(id) \/ Allow(id) \/ Conflict(id) \/ Unadd(id)
    <3>1. PICK id \in Ids : Recheck(id) \/ Allow(id) \/ Conflict(id) \/ Unadd(id)
      BY <2>6
    <3>2. CASE Allow(id)
      BY <2>1, <3>2 DEF Allow
    <3>3. CASE Unadd(id)
      <4>1. Mine(id).owner = "node"
        BY DEF Mine
      <4>2. rules' = rules \/ rules' = UfwDelete(rules, Mine(id))
        BY <3>3 DEF Unadd
      <4> QED BY <1>1, <2>2, <4>1, <4>2
    <3>4. CASE Recheck(id) \/ Conflict(id)
      BY <1>1, <3>4 DEF Recheck, Conflict
    <3> QED BY <3>1, <3>2, <3>3, <3>4
  <2>7. CASE \E i \in DOMAIN removals : Delete(i)
    BY <1>1, <2>2, <2>3, <2>7 DEF Delete
  <2>8. CASE Refuse \/ Plan \/ Snapshot \/ TryFails \/ Updated \/ RolledBack \/ Aborted
    BY <1>1, <2>8 DEF Refuse, Plan, Snapshot, TryFails, Updated, RolledBack, Aborted
  <2> QED BY <1>1, <2>4, <2>5, <2>6, <2>7, <2>8 DEF Helper
<1>2. Inv /\ [Next]_vars => [Helper => Keeps]_vars
  BY <1>1
<1>3. Spec => [][Helper => Keeps]_vars
  BY <1>2, Invariant, PTL DEF Spec
<1> QED
  BY <1>3 DEF OthersKept
==============================================================================
