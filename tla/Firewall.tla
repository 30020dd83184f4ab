------------------------------- MODULE Firewall -------------------------------
(***************************************************************************)
(* scripts/node_firewall.py --apply: the transaction that reconciles the   *)
(* UFW rules of one node, and its rollback.                                *)
(*                                                                         *)
(* A rule is its identity (rule_identity: everything but action, logging   *)
(* and comment), its action and its owner, which the comment tells: the    *)
(* node, or anybody else.  UFW keeps one rule per identity.  Calls for     *)
(* other nodes wait for the lock (node_firewall.py:272-273), so that one   *)
(* helper runs at a time; the administrator does not take it.  A helper    *)
(* that is killed leaves rules that are some initial state of the next.    *)
(***************************************************************************)
EXTENDS Naturals, Sequences, SequencesExt

CONSTANTS K,         \* identities 1..K, in the order of desired_rules
          MaxFaults, \* bound: commands that fail, and interrupts
          MaxEdits   \* bound: changes of the administrator while the helper runs

ASSUME FirewallAssumption == K \in Nat /\ MaxFaults \in Nat /\ MaxEdits \in Nat

VARIABLES
    rules,      \* the rules of UFW, in their order
    desired,    \* the identities of the rules the node needs
    pc,
    additions,  \* identities still to add; they are added in their order
    removals,   \* managed rules still to remove, by their places in the plan's listing
    before,     \* the rules when positions was taken
    added, removed,     \* what the rollback has to undo
    outcome,    \* "none", "unchanged", "refused", "failed", "updated", "rolledBack", "aborted"
    incomplete, \* rollback_failed
    edited,     \* history: identities the administrator changed since the plan, since
                \* positions was taken, since the helper last looked at the rules
    faults, edits

plan == <<desired, additions, removals, before>>
undo == <<added, removed, incomplete>>
vars == <<rules, plan, pc, undo, outcome, edited, faults, edits>>

Ids    == 1..K
Rule   == [id: Ids, action: {"allow", "deny"}, owner: {"node", "other"}]
Mine(i) == [id |-> i, action |-> "allow", owner |-> "node"]

\* What the helper writes is allowed; a deny of the node's own does not exist.
IsRuleList(rs) == \A i, j \in DOMAIN rs : /\ rs[i].id = rs[j].id => i = j
                                          /\ rs[i].owner = "node" => rs[i] = Mine(rs[i].id)

Init ==
    /\ rules \in {rs \in BoundedSeq(Rule, K) : IsRuleList(rs)}
    /\ desired \in SUBSET Ids \ {{}}
    /\ pc = "start" /\ additions = {} /\ removals = <<>> /\ before = <<>>
    /\ added = {} /\ removed = {} /\ outcome = "none" /\ incomplete = FALSE
    /\ edited = [plan |-> {}, snapshot |-> {}, look |-> {}]
    /\ faults = 0 /\ edits = 0

------------------------------------------------------------------------------
(* UFW *)

With(rs, id) == {i \in DOMAIN rs : rs[i].id = id}
Place(rs, r) == CHOOSE i \in DOMAIN rs : rs[i] = r

\* ufw allow: a rule of the same identity is replaced in its place.
UfwAllow(rs, r) ==
    IF With(rs, r.id) = {} THEN Append(rs, r)
    ELSE [i \in DOMAIN rs |-> IF rs[i].id = r.id THEN r ELSE rs[i]]

\* ufw delete: the very rule, comment included, or nothing.
UfwDelete(rs, r) == IF r \in ToSet(rs) THEN RemoveAt(rs, Place(rs, r)) ELSE rs

\* ufw insert: at a position, unless there is a rule of that identity.
UfwInsert(rs, r, pos) ==
    IF With(rs, r.id) = {} THEN InsertAt(rs, pos, r) ELSE rs

\* The administrator adds, replaces or deletes a rule.
AdminEdits ==
    /\ pc # "done" /\ edits < MaxEdits
    /\ \E id \in Ids :
          /\ \/ \E a \in {"allow", "deny"} :
                   rules' = UfwAllow(rules, [id |-> id, action |-> a, owner |-> "other"])
             \/ \E i \in With(rules, id) : rules' = RemoveAt(rules, i)
          /\ edited' = [since \in DOMAIN edited |-> edited[since] \cup {id}]
    /\ edits' = edits + 1
    /\ UNCHANGED <<plan, pc, undo, outcome, faults>>

------------------------------------------------------------------------------
(* The plan *)

Matches(id)   == {rules[i] : i \in With(rules, id)}

\* Mutant: any rule of that identity will do.
NoConflicts(ids) == FALSE

Conflicts(ids) == \E id \in ids : \E r \in Matches(id) : r.action # "allow"
Missing(ids)  == {id \in ids : Matches(id) = {}}
IsObsolete(r) == r.owner = "node" /\ r.id \notin desired
Obsolete      == Restrict(rules, {i \in DOMAIN rules : IsObsolete(rules[i])})

Ends(how) == pc' = "done" /\ outcome' = how

Refuse ==
    /\ pc = "start" /\ Conflicts(desired)
    /\ Ends("refused")
    /\ UNCHANGED <<rules, plan, undo, edited, faults, edits>>

\* What is planned is printed, and tried with --dry-run.
Plan ==
    /\ pc = "start" /\ ~ Conflicts(desired)
    /\ additions' = Missing(desired) /\ removals' = Obsolete
    /\ edited' = [since \in DOMAIN edited |-> {}]
    /\ IF additions' = {} /\ DOMAIN removals' = {} THEN Ends("unchanged")
       ELSE pc' = "try" /\ UNCHANGED outcome
    /\ UNCHANGED <<rules, desired, before, undo, faults, edits>>

\* positions is taken and /etc/ufw is copied.
Snapshot ==
    /\ pc = "try"
    /\ before' = rules /\ edited' = [edited EXCEPT !.snapshot = {}]
    /\ pc' = "add"
    /\ UNCHANGED <<rules, desired, additions, removals, undo, outcome, faults, edits>>

\* A dry run or the backup fails: nothing has been changed.
TryFails ==
    /\ pc = "try" /\ faults < MaxFaults
    /\ faults' = faults + 1
    /\ Ends("failed")
    /\ UNCHANGED <<rules, plan, undo, edited, edits>>

------------------------------------------------------------------------------
(* The changes *)

\* for rule in additions, for rule in removals: which is next.
IsNextAddition(id) == id \in additions /\ \A x \in additions : id <= x
IsNextRemoval(i)   == i \in DOMAIN removals /\ \A x \in DOMAIN removals : i <= x

\* Mutant: what was missing from the plan's listing is missing.
AsPlanned(id) == TRUE

\* "Recheck immediately before mutation to preserve intervening manual rules."
Pending(id) == Missing({id}) # {}

Recheck(id) ==
    /\ pc = "add" /\ IsNextAddition(id) /\ ~ Conflicts({id})
    /\ edited' = [edited EXCEPT !.look = {}]
    /\ IF Pending(id)
       THEN pc' = "allow" /\ added' = added \cup {id} /\ UNCHANGED additions
       ELSE additions' = additions \ {id} /\ UNCHANGED <<pc, added>>
    /\ UNCHANGED <<rules, desired, removals, before, removed, incomplete, outcome, faults, edits>>

Allow(id) ==
    /\ pc = "allow" /\ IsNextAddition(id)
    /\ rules' = UfwAllow(rules, Mine(id))
    /\ additions' = additions \ {id} /\ pc' = "add"
    /\ UNCHANGED <<desired, removals, before, undo, outcome, edited, faults, edits>>

\* Mutant: the obsolete rules are removed at any time.
AtAnyTime == TRUE

\* The removals follow the additions.
AllAdded == additions = {}

\* Mutant: a rule is removed, and restored, although it had no position.
Anyway(r) == TRUE

\* A managed rule that was gone when positions was taken is skipped.
HasPosition(r) == r \in ToSet(before)

Delete(i) ==
    /\ pc = "add" /\ AllAdded /\ IsNextRemoval(i)
    /\ IF HasPosition(removals[i])
       THEN /\ removed' = removed \cup {removals[i]}
            /\ rules' = UfwDelete(rules, removals[i])
       ELSE UNCHANGED <<rules, removed>>
    /\ removals' = Restrict(removals, DOMAIN removals \ {i})
    /\ UNCHANGED <<desired, additions, before, pc, added, incomplete, outcome, edited, faults, edits>>

Updated ==
    /\ pc = "add" /\ additions = {} /\ DOMAIN removals = {}
    /\ Ends("updated")
    /\ UNCHANGED <<rules, plan, undo, edited, faults, edits>>

\* The recheck finds a rule that denies.
Conflict(id) ==
    /\ pc = "add" /\ IsNextAddition(id) /\ Conflicts({id})
    /\ pc' = "undo"
    /\ UNCHANGED <<rules, plan, undo, outcome, edited, faults, edits>>

\* A command fails, before or after its effect, or the user interrupts the helper.
Fails ==
    /\ pc \in {"add", "allow"} /\ faults < MaxFaults
    /\ faults' = faults + 1 /\ pc' = "undo"
    /\ \/ UNCHANGED <<rules, removed>>
       \/ /\ pc = "allow" /\ UNCHANGED removed
          /\ \E id \in Ids : IsNextAddition(id) /\ rules' = UfwAllow(rules, Mine(id))
       \/ /\ pc = "add" /\ AllAdded
          /\ \E i \in DOMAIN removals :
                /\ IsNextRemoval(i) /\ HasPosition(removals[i])
                /\ removed' = removed \cup {removals[i]}
                /\ rules' \in {rules, UfwDelete(rules, removals[i])}
    /\ UNCHANGED <<plan, added, incomplete, outcome, edited, edits>>

------------------------------------------------------------------------------
(* The rollback *)

Position(r) == Place(before, r)

\* The added rules are deleted, the last one first; a failure is noted.
Unadd(id) ==
    /\ pc = "undo" /\ id \in added /\ \A x \in added : id >= x
    /\ added' = added \ {id}
    /\ \/ rules' = UfwDelete(rules, Mine(id)) /\ UNCHANGED <<faults, incomplete>>
       \/ /\ faults < MaxFaults /\ faults' = faults + 1 /\ incomplete' = TRUE
          /\ rules' \in {rules, UfwDelete(rules, Mine(id))}
    /\ UNCHANGED <<plan, pc, removed, outcome, edited, edits>>

\* Mutant: the order is not that of the positions.
FromTheEnd(r) == \A x \in removed : Position(r) >= Position(x)

\* In the order of their positions, so that each finds its place.
IsNext(r) == \A x \in removed : Position(r) <= Position(x)

\* A position that UFW does not have yet may be refused; one beyond the next is.
Unremove ==
    /\ pc = "undo" /\ added = {}
    /\ \E r \in removed :
          LET inserted == UfwInsert(rules, r, Position(r))
          IN  /\ IsNext(r)
              /\ removed' = removed \ {r}
              /\ \/ /\ Position(r) <= Len(rules) + 1 /\ rules' = inserted
                    /\ UNCHANGED <<faults, incomplete>>
                 \/ /\ Position(r) > Len(rules) /\ incomplete' = TRUE
                    /\ UNCHANGED <<rules, faults>>
                 \/ /\ faults < MaxFaults /\ faults' = faults + 1 /\ incomplete' = TRUE
                    /\ rules' \in {rules} \cup IF Position(r) <= Len(rules) + 1
                                               THEN {inserted} ELSE {}
    /\ UNCHANGED <<plan, pc, added, outcome, edited, edits>>

RolledBack ==
    /\ pc = "undo" /\ added = {} /\ removed = {}
    /\ Ends("rolledBack")
    /\ UNCHANGED <<rules, plan, undo, edited, faults, edits>>

\* A second interrupt ends the rollback: only Exception is caught there.
Aborted ==
    /\ pc = "undo" /\ faults < MaxFaults
    /\ faults' = faults + 1
    /\ Ends("aborted")
    /\ UNCHANGED <<rules, plan, undo, edited, edits>>

------------------------------------------------------------------------------
Helper == \/ Refuse \/ Plan \/ Snapshot \/ TryFails \/ Updated \/ Fails \/ Unremove \/ RolledBack
          \/ Aborted
          \/ \E id \in Ids : Recheck(id) \/ Allow(id) \/ Conflict(id) \/ Unadd(id)
          \/ \E i \in DOMAIN removals : Delete(i)

Next == Helper \/ AdminEdits

Spec == Init /\ [][Next]_vars

------------------------------------------------------------------------------
(* Properties *)

TypeOK ==
    /\ rules \in Seq(Rule) /\ IsRuleList(rules)
    /\ desired \subseteq Ids /\ additions \subseteq desired /\ added \subseteq desired
    /\ before \in Seq(Rule) /\ IsRuleList(before)
    /\ \A i \in DOMAIN removals : removals[i] \in Rule
    /\ removed \subseteq ToSet(before)
    /\ pc \in {"start", "try", "add", "allow", "undo", "done"}
    /\ outcome \in {"none", "unchanged", "refused", "failed", "updated", "rolledBack", "aborted"}
    /\ incomplete \in BOOLEAN /\ faults \in Nat /\ edits \in Nat
    /\ edited \in [plan : SUBSET Ids, snapshot : SUBSET Ids, look : SUBSET Ids]

\* node_firewall.py:227 and :135-136: no command of the helper removes or replaces a
\* rule of anybody else, allow or deny, that was there when it last looked.
OthersKept == [][
    Helper => \A r \in ToSet(rules) :
                  r.owner = "other" /\ r.id \notin edited'.look => r \in ToSet(rules')]_vars

\* node_firewall.py:216-217: a rollback that does not report itself incomplete leaves the
\* rules as they were, each at its place, wherever the transaction failed.
RollbackRestores ==
    outcome = "rolledBack" /\ ~ incomplete /\ edited.snapshot = {} => rules = before

\* A run that reports success has allowed every rule the node needs, and the node has no
\* other rule left.
UpdateIsComplete ==
    outcome \in {"updated", "unchanged"} =>
        /\ \A id \in desired \ edited.plan : \E r \in ToSet(rules) : r.id = id /\ r.action = "allow"
        /\ \A r \in ToSet(rules) : r.owner = "node" /\ r.id \notin edited.plan => r.id \in desired

OldInForce == {r \in ToSet(before) : r.owner = "node"} \subseteq ToSet(rules)
NewInForce == \A id \in desired : \E r \in ToSet(rules) : r.id = id /\ r.action = "allow"

\* node_firewall.py:225-248: a rule the node has and still needs is in force at every moment,
\* whatever fails.  Of those that are replaced, all the old ones or all the new ones are in
\* force, but for a rollback, which takes the new ones away before it puts the old ones back,
\* and for what an incomplete or an interrupted rollback leaves.
NoGap ==
    /\ \A r \in ToSet(before) : r.id \in desired \ edited.plan => r \in ToSet(rules)
    /\ edited.plan = {} =>
          \/ OldInForce \/ NewInForce
          \/ pc = "undo" /\ removed # {}
          \/ incomplete \/ outcome = "aborted"

==============================================================================
