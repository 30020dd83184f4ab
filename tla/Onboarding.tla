------------------------------ MODULE Onboarding ------------------------------
(***************************************************************************)
(* scripts/node_onboarding.py apply: the transaction that installs the     *)
(* keys and the configuration of one node, and its rollback.               *)
(*                                                                         *)
(* A file is "old", as the run found it, "new", as prepare staged it, or   *)
(* what somebody else wrote meanwhile: the user, an editor in hand, or     *)
(* configure_l2_proxy.py, which takes the same lock.  A key file is empty  *)
(* or complete when it is the script's own, and when it is not, it holds   *)
(* the same key as the import or another one.  The checks of the settings  *)
(* (node_onboarding.py:178-230, 246-297) end in "refused" or in a staged   *)
(* candidate; only those on the destination's keys are spelt out.          *)
(***************************************************************************)
EXTENDS Naturals, Sequences, SequencesExt

CONSTANTS MaxFaults, \* bound: operations that fail
          MaxEdits,  \* bound: files the user edits, keys that appear, runs of the L2 setup
          MaxInterrupts \* bound: KeyboardInterrupts

ASSUME OnboardingAssumption == MaxFaults \in Nat /\ MaxEdits \in Nat /\ MaxInterrupts \in Nat

VARIABLES
    file,      \* content of each configuration file
    backup,    \* its copy in .onboarding-backups
    key,       \* key file in the data directory
    import,    \* KEY_MODE is import
    known,     \* the node exists in docker-compose.yml
    node,      \* it is "running" or "stopped"
    pc, i,     \* i: the key or file the loop is at
    withOverride, \* an override was staged too
    installed, replaced, \* what the rollback has to undo
    outcome,   \* "none", "refused", "saved", "failed", "halfUndone"
    late,      \* history: files the user wrote after their backup was taken
    unrecorded, \* history: an interrupt came between a change and its record
    faults, edits, interrupts

run  == <<import, known, withOverride>>
log  == <<installed, replaced>>
env  == <<late, edits>>
vars == <<file, backup, key, run, node, pc, i, log, outcome, env, unrecorded, faults, interrupts>>

Settings == {"compose", "env", "override"}  \* what the run may replace
Files    == Settings \cup {"gitignore"}
Keys  == <<"key_ed25519", "key_bls">>
Configuration == IF withOverride THEN <<"compose", "env", "override">> ELSE <<"compose", "env">>

Contents == {"none", "old", "edited", "new", "l2", "appended"}
Theirs == {"same", "other"}
Ours   == {"empty", "installed"}

Init ==
    /\ file \in {c \in [Files -> {"none", "old"}] : c["compose"] = "old"}
    /\ backup = [f \in Files |-> "none"]
    /\ key \in [ToSet(Keys) -> {"none"} \cup Theirs]
    /\ import \in BOOLEAN /\ known \in BOOLEAN /\ withOverride = FALSE
    /\ node \in {"running", "stopped"} /\ (node = "running" => known)
    /\ pc = "lock" /\ i = 1 /\ installed = {} /\ replaced = <<>> /\ outcome = "none"
    /\ late = {} /\ unrecorded = FALSE /\ faults = 0 /\ edits = 0 /\ interrupts = 0

Goes(from, to) == pc = from /\ pc' = to
Ends(how)      == pc' = "done" /\ outcome' = how

------------------------------------------------------------------------------
(* Everybody else *)

BackedUp == pc \notin {"lock", "prepare", "stop", "backup"}

UserEdits(f) ==
    /\ pc # "done" /\ edits < MaxEdits
    /\ edits' = edits + 1
    /\ file' = [file EXCEPT ![f] = "edited"]
    /\ late' = IF BackedUp THEN late \cup {f} ELSE late
    /\ UNCHANGED <<backup, key, run, node, pc, i, log, outcome, unrecorded, faults, interrupts>>

\* The user copies a key to the destination, or a node on that directory creates its own.
KeyAppears(k) ==
    /\ pc # "done" /\ edits < MaxEdits
    /\ edits' = edits + 1
    /\ key[k] = "none" /\ \E theirs \in Theirs : key' = [key EXCEPT ![k] = theirs]
    /\ UNCHANGED <<file, backup, run, node, pc, i, log, outcome, late, unrecorded, faults, interrupts>>

\* Mutant: the two scripts do not take the same lock.
AnyTime == TRUE

\* flock of .l2-setup.lock, held from before prepare to the end.
Unlocked == pc = "lock"

\* configure_l2_proxy.py, another run of this kind, writes the override.
L2SetupSaves ==
    /\ Unlocked /\ edits < MaxEdits
    /\ edits' = edits + 1
    /\ file' = [file EXCEPT !["override"] = "l2"]
    /\ UNCHANGED <<backup, key, run, node, pc, i, log, outcome, late, unrecorded, faults, interrupts>>

------------------------------------------------------------------------------
(* Before the transaction *)

Present == {k \in ToSet(Keys) : key[k] # "none"}

TakeLock ==
    /\ Goes("lock", "prepare")
    /\ UNCHANGED <<file, backup, key, run, node, i, log, outcome, env, unrecorded, faults, interrupts>>

\* An incomplete identity, a different one, or data that no service owns.
Unsafe ==
    \/ Present # {} /\ Present # ToSet(Keys)
    \/ import /\ \E k \in Present : key[k] # "same"
    \/ ~ import /\ ~ known /\ Present # {}

Prepare ==
    /\ Goes("prepare", "stop") /\ ~ Unsafe
    /\ withOverride' = (file["override"] # "none")
    /\ UNCHANGED <<file, backup, key, import, known, node, i, log, outcome, env, unrecorded, faults, interrupts>>

Refuse ==
    /\ pc = "prepare" /\ Ends("refused")
    /\ UNCHANGED <<file, backup, key, run, node, i, log, env, unrecorded, faults, interrupts>>

\* docker compose stop, when it runs and the user has approved.
Stop ==
    /\ Goes("stop", "backup")
    /\ node' = "stopped"
    /\ UNCHANGED <<file, backup, key, run, i, log, outcome, env, unrecorded, faults, interrupts>>

BackUp ==
    /\ Goes("backup", "key")
    /\ backup' = file
    /\ UNCHANGED <<file, key, run, node, i, log, outcome, env, unrecorded, faults, interrupts>>

\* Nothing is changed yet but the node, which may have been stopped.
FailsEarly ==
    /\ pc \in {"stop", "backup"}
    /\ Ends("failed")
    /\ UNCHANGED <<file, backup, key, run, node, i, log, env, unrecorded, faults, interrupts>>

------------------------------------------------------------------------------
(* The transaction *)

Key == Keys[i]

Undoes == pc' = "undoKeys" /\ i' = 1

NoMoreKeys ==
    /\ pc = "key" /\ (~ import \/ i > Len(Keys))
    /\ pc' = "file" /\ i' = 1
    /\ UNCHANGED <<file, backup, key, run, node, log, outcome, env, unrecorded, faults, interrupts>>

\* Mutant: a key that is there is taken for the right one.
AnyIdentity(there) == FALSE

Differs(there) == there \in Theirs \ {"same"}

\* "Destination identity changed during setup; no key will be overwritten."
CheckKey ==
    /\ pc = "key" /\ import /\ i <= Len(Keys)
    /\ \/ Differs(key[Key]) /\ Undoes
       \/ ~ Differs(key[Key]) /\ key[Key] # "none" /\ i' = i + 1 /\ UNCHANGED pc
       \/ key[Key] = "none" /\ pc' = "open" /\ UNCHANGED i
    /\ UNCHANGED <<file, backup, key, run, node, log, outcome, env, unrecorded, faults, interrupts>>

\* Mutant: without O_EXCL.
OpenAnyway(there) == TRUE

\* O_CREAT | O_EXCL
MayOpen(there) == there = "none"

\* Mutant: the key is noted before it is created.
NotedFirst ==
    /\ pc = "open" /\ installed' = installed \cup {Key}
    /\ IF MayOpen(key[Key]) THEN pc' = "write" /\ key' = [key EXCEPT ![Key] = "empty"] /\ UNCHANGED i
                            ELSE Undoes /\ UNCHANGED key
    /\ UNCHANGED <<file, backup, run, node, replaced, outcome, env, unrecorded, faults, interrupts>>

OpenKey ==
    /\ pc = "open"
    /\ IF MayOpen(key[Key]) THEN pc' = "noteKey" /\ key' = [key EXCEPT ![Key] = "empty"] /\ UNCHANGED i
                            ELSE Undoes /\ UNCHANGED key
    /\ UNCHANGED <<file, backup, run, node, log, outcome, env, unrecorded, faults, interrupts>>

NoteKey ==
    /\ Goes("noteKey", "write")
    /\ installed' = installed \cup {Key}
    /\ UNCHANGED <<file, backup, key, run, node, i, replaced, outcome, env, unrecorded, faults, interrupts>>

WriteKey ==
    /\ Goes("write", "key")
    /\ key' = [key EXCEPT ![Key] = "installed"] /\ i' = i + 1
    /\ UNCHANGED <<file, backup, run, node, log, outcome, env, unrecorded, faults, interrupts>>

ReplaceFile ==
    /\ Goes("file", "noteFile") /\ i <= Len(Configuration)
    /\ file' = [file EXCEPT ![Configuration[i]] = "new"]
    /\ UNCHANGED <<backup, key, run, node, i, log, outcome, env, unrecorded, faults, interrupts>>

NoteFile ==
    /\ Goes("noteFile", "file")
    /\ replaced' = Append(replaced, Configuration[i]) /\ i' = i + 1
    /\ UNCHANGED <<file, backup, key, run, node, installed, outcome, env, unrecorded, faults, interrupts>>

\* A data directory inside the repository is appended to .gitignore, outside is not.
Ignore ==
    /\ Goes("file", "report") /\ i > Len(Configuration)
    /\ \/ file' = [file EXCEPT !["gitignore"] = "appended"]
       \/ UNCHANGED file
    /\ UNCHANGED <<backup, key, run, node, i, log, outcome, env, unrecorded, faults, interrupts>>

Report ==
    /\ pc = "report" /\ Ends("saved")
    /\ UNCHANGED <<file, backup, key, run, node, i, log, env, unrecorded, faults, interrupts>>

Transaction == {"key", "open", "noteKey", "write", "file", "noteFile", "report"}

\* An operation raises: any but the two that only append to a list.
Fails ==
    /\ pc \in Transaction \ {"noteKey", "noteFile"} /\ faults < MaxFaults
    /\ faults' = faults + 1 /\ Undoes
    /\ UNCHANGED <<file, backup, key, run, node, log, outcome, env, unrecorded, interrupts>>

\* Ctrl-C: the exception is raised between any two steps.
Interrupt ==
    /\ pc \in Transaction /\ interrupts < MaxInterrupts
    /\ interrupts' = interrupts + 1 /\ Undoes
    /\ unrecorded' = (pc \in {"noteKey", "noteFile"})
    /\ UNCHANGED <<file, backup, key, run, node, log, outcome, env, faults>>

------------------------------------------------------------------------------
(* The rollback *)

\* The key files this run has created.
UndoKey ==
    /\ pc = "undoKeys"
    /\ \E u \in installed : key' = [key EXCEPT ![u] = "none"] /\ installed' = installed \ {u}
    /\ UNCHANGED <<file, backup, run, node, pc, i, replaced, outcome, env, unrecorded, faults, interrupts>>

KeysUndone ==
    /\ Goes("undoKeys", "undoFiles") /\ installed = {}
    /\ UNCHANGED <<file, backup, key, run, node, i, log, outcome, env, unrecorded, faults, interrupts>>

\* Mutant: a file without a backup stays.
OldIfAny(f) == IF backup[f] = "none" THEN file[f] ELSE backup[f]

\* The copy, or no file if there was none.
Old(f) == backup[f]

UndoFile ==
    /\ pc = "undoFiles" /\ replaced # <<>>
    /\ file' = [file EXCEPT ![Head(replaced)] = Old(Head(replaced))]
    /\ replaced' = Tail(replaced)
    /\ UNCHANGED <<backup, key, run, node, pc, i, installed, outcome, env, unrecorded, faults, interrupts>>

Undone ==
    /\ pc = "undoFiles" /\ replaced = <<>> /\ Ends("failed")
    /\ UNCHANGED <<file, backup, key, run, node, i, log, env, unrecorded, faults, interrupts>>

\* Nothing catches an exception that is raised here.
UndoFails ==
    /\ pc \in {"undoKeys", "undoFiles"} /\ faults < MaxFaults
    /\ faults' = faults + 1 /\ Ends("halfUndone")
    /\ UNCHANGED <<file, backup, key, run, node, i, log, env, unrecorded, interrupts>>

------------------------------------------------------------------------------
Script == \/ TakeLock \/ Prepare \/ Refuse \/ Stop \/ BackUp \/ FailsEarly \/ NoMoreKeys \/ CheckKey
          \/ OpenKey \/ NoteKey \/ WriteKey \/ ReplaceFile \/ NoteFile \/ Ignore \/ Report
          \/ Fails \/ Interrupt \/ UndoKey \/ KeysUndone \/ UndoFile \/ Undone \/ UndoFails

Others == L2SetupSaves \/ (\E f \in Files : UserEdits(f)) \/ (\E n \in ToSet(Keys) : KeyAppears(n))

Next == Script \/ Others

Spec == Init /\ [][Next]_vars

------------------------------------------------------------------------------
(* Properties *)

TypeOK ==
    /\ file \in [Files -> Contents] /\ backup \in [Files -> Contents]
    /\ key \in [ToSet(Keys) -> {"none"} \cup Theirs \cup Ours]
    /\ import \in BOOLEAN /\ known \in BOOLEAN
    /\ withOverride \in BOOLEAN /\ unrecorded \in BOOLEAN
    /\ node \in {"running", "stopped"}
    /\ pc \in Transaction \cup {"lock", "prepare", "stop", "backup", "undoKeys", "undoFiles", "done"}
    /\ i \in 1..4 /\ late \subseteq Files
    /\ installed \subseteq ToSet(Keys) /\ replaced \in Seq(Settings)
    /\ \A u \in installed : key[u] \in Ours
    /\ outcome \in {"none", "refused", "saved", "failed", "halfUndone"}
    /\ faults \in Nat /\ edits \in Nat /\ interrupts \in Nat

\* node_onboarding.py:341: "Never replace an existing key", one that appeared during the
\* run or while it is rolled back included.
KeysNeverReplaced == [][Script => \A n \in ToSet(Keys) :
                            key[n] \in Theirs => key'[n] = key[n]]_vars

\* Whatever the script overwrites is kept in its backup, whoever wrote it, unless the user
\* wrote it after the backup was taken.
NothingLost == [][Script => \A f \in Files :
    file[f] \notin {"none", "new"} /\ file'[f] # file[f] /\ file'[f] # "appended" =>
        backup[f] = file[f] \/ f \in late]_vars

AsBefore == /\ \A f \in Settings \ late : file[f] = backup[f]
            /\ \A n \in ToSet(Keys) : key[n] \notin Ours

\* "Roll back newly installed files on failure": a run that fails, at whatever step, leaves
\* no key of its own and the configuration as it was, unless the rollback fails too, or
\* the failure is an interrupt that comes between a change and its record.
FailureChangesNothing ==
    outcome = "failed" /\ backup["compose"] # "none" /\ ~ unrecorded => AsBefore

\* A run that reports success has written the whole configuration, and the node has
\* exactly the imported identity, in one piece.
SavedIsComplete ==
    outcome = "saved" =>
        /\ \A f \in ToSet(Configuration) \ late : file[f] = "new"
        /\ import => \A n \in ToSet(Keys) : key[n] \in {"same", "installed"}

==============================================================================
