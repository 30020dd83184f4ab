--------------------------- MODULE OnboardingProofs ---------------------------
(***************************************************************************)
(* Onboarding's safety properties, proved for any number of failures,      *)
(* edits and interrupts.  One lemma per part of the invariant, with a step *)
(* per action that may disturb it and one for those that cannot.           *)
(***************************************************************************)
EXTENDS Onboarding, TLAPS

Early   == {"lock", "prepare", "stop", "backup"}
Undoing == {"undoKeys", "undoFiles"}

\* Where the loops over the keys and over the files are, and what is not done yet.
Positions ==
    /\ pc \in Early => /\ i = 1 /\ installed = {} /\ replaced = <<>>
                       /\ file["compose"] # "none" /\ backup["compose"] = "none"
    /\ pc \in Transaction \cup Undoing => backup["compose"] # "none"
    /\ pc \in Early \cup Transaction => ~ unrecorded
    /\ pc = "key" => i \in 1..3
    /\ pc \in {"open", "noteKey", "write"} => import /\ i \in 1..2
    /\ pc = "file" => i \in 1..Len(Configuration) + 1
    /\ pc = "noteFile" => i \in 1..Len(Configuration)
    /\ outcome # "none" <=> pc = "done"
    /\ outcome = "failed" => replaced = <<>>

\* Every key file of the script is one it has noted, or is about to note.
OursAreNoted ==
    /\ \A n \in ToSet(Keys) : key[n] \in Ours =>
          n \in installed \/ (pc = "noteKey" /\ n = Key) \/ unrecorded
          \/ outcome \in {"saved", "halfUndone"}
    /\ pc \in {"noteKey", "write"} => key[Key] \in Ours
    /\ pc = "undoFiles" \/ outcome = "failed" => installed = {}

\* A file is as in the backup, or the script has replaced it and knows it.
FilesKept ==
    BackedUp /\ backup["compose"] # "none" => \A f \in Settings \ late :
        \/ file[f] = backup[f]
        \/ /\ file[f] = "new"
           /\ \/ f \in ToSet(replaced) \/ (pc = "noteFile" /\ f = Configuration[i])
              \/ unrecorded \/ outcome \in {"saved", "halfUndone"}

\* The keys and the files that the loops have passed are done, and the keys ahead are not.
KeysDone ==
    import => /\ pc \in {"key", "open", "noteKey", "write"} =>
                    \A j \in 1..2 :
                        /\ j < i => key[Keys[j]] \in {"same", "installed"}
                        /\ j > i \/ (j = i /\ pc \in {"key", "open"}) => key[Keys[j]] \notin Ours
              /\ pc \in {"file", "noteFile", "report"} \/ outcome = "saved" =>
                    \A n \in ToSet(Keys) : key[n] \in {"same", "installed"}

FilesDone ==
    /\ pc \in {"file", "noteFile"} => \A j \in 1..Len(Configuration) :
          j < i \/ (j = i /\ pc = "noteFile") =>
              Configuration[j] \in late \/ file[Configuration[j]] = "new"
    /\ pc = "report" \/ outcome = "saved" =>
          \A f \in ToSet(Configuration) \ late : file[f] = "new"

Inv == TypeOK /\ Positions /\ OursAreNoted /\ FilesKept /\ KeysDone /\ FilesDone

------------------------------------------------------------------------------
(* The keys and the files by their index, and the list of what was replaced *)

\* There are two keys.
LEMMA KeysFacts == /\ Len(Keys) = 2
                   /\ ToSet(Keys) = {Keys[1], Keys[2]} /\ Keys[1] # Keys[2]
  BY DEF Keys, ToSet

\* The key of the loop is one of them.
LEMMA KeyFact == ASSUME i \in 1..2 PROVE Key \in ToSet(Keys)
  BY DEF Key, Keys, ToSet

\* The loop over the files reaches every file there is to write, and nothing else.
LEMMA ConfigurationFacts ==
    /\ Len(Configuration) \in {2, 3}
    /\ \A j \in 1..Len(Configuration) : Configuration[j] \in Settings
    /\ \A f \in ToSet(Configuration) : \E j \in 1..Len(Configuration) : Configuration[j] = f
  BY DEF Configuration, Settings, ToSet

\* What noting a replaced file does to the list of them.
LEMMA Appended ==
    ASSUME NEW S, NEW s \in Seq(S), NEW f \in S
    PROVE  /\ Append(s, f) \in Seq(S)
           /\ ToSet(s) \subseteq ToSet(Append(s, f)) /\ f \in ToSet(Append(s, f))
  <1>1. /\ Append(s, f) \in Seq(S) /\ Len(Append(s, f)) = Len(s) + 1
        /\ \A j \in 1..Len(s) : Append(s, f)[j] = s[j]
        /\ Append(s, f)[Len(s) + 1] = f
    OBVIOUS
  <1>2. DOMAIN s = 1..Len(s) /\ DOMAIN Append(s, f) = 1..Len(s) + 1 /\ Len(s) \in Nat
    BY <1>1
  <1> QED
    BY <1>1, <1>2 DEF ToSet

\* What taking a replaced file back does to the list of them.
LEMMA Taken ==
    ASSUME NEW S, NEW s \in Seq(S), s # <<>>
    PROVE  /\ Tail(s) \in Seq(S) /\ Head(s) \in S
           /\ ToSet(s) \subseteq {Head(s)} \cup ToSet(Tail(s))
  <1>1. /\ Tail(s) \in Seq(S) /\ Len(Tail(s)) = Len(s) - 1 /\ Head(s) = s[1]
        /\ \A j \in 1..Len(s) - 1 : Tail(s)[j] = s[j + 1]
    OBVIOUS
  <1>2. DOMAIN s = 1..Len(s) /\ DOMAIN Tail(s) = 1..Len(s) - 1 /\ Len(s) \in Nat \ {0}
    BY <1>1
  <1>3. ASSUME NEW j \in 1..Len(s), j # 1 PROVE s[j] \in ToSet(Tail(s))
    <2>1. j - 1 \in 1..Len(s) - 1 /\ (j - 1) + 1 = j
      BY <1>2, <1>3
    <2>2. s[j] = Tail(s)[j - 1]
      BY <1>1, <2>1
    <2> QED
      BY <2>1, <2>2, <1>2 DEF ToSet
  <1> QED
    BY <1>1, <1>2, <1>3 DEF ToSet

------------------------------------------------------------------------------
(* The invariant *)

\* The directory as the user leaves it satisfies every part of the invariant.
LEMMA InitInv == Init => Inv
  <1> SUFFICES ASSUME Init PROVE Inv
    OBVIOUS
  <1>1. file \in [Files -> Contents] /\ backup \in [Files -> Contents]
    BY DEF Init, Contents
  <1>2. TypeOK
    <2>1. key \in [ToSet(Keys) -> {"none"} \cup Theirs \cup Ours]
      BY DEF Init
    <2>2. /\ pc = "lock" /\ i \in 1..4 /\ node \in {"running", "stopped"} /\ outcome = "none"
          /\ faults \in Nat /\ edits \in Nat /\ interrupts \in Nat
      BY DEF Init
    <2>3. installed = {} /\ late = {} /\ replaced \in Seq(Settings)
      BY DEF Init
    <2>4. /\ import \in BOOLEAN /\ known \in BOOLEAN
          /\ withOverride \in BOOLEAN /\ unrecorded \in BOOLEAN
      BY Zenon DEF Init
    <2> QED
      BY <1>1, <2>1, <2>2, <2>3, <2>4 DEF TypeOK
  <1>3. Positions
    BY DEF Init, Positions, Files, Settings, Early, Transaction, Undoing
  <1>4. OursAreNoted
    BY DEF Init, OursAreNoted, Theirs, Ours
  <1>5. FilesKept /\ KeysDone /\ FilesDone
    BY DEF Init, FilesKept, KeysDone, FilesDone, BackedUp
  <1> QED
    BY <1>2, <1>3, <1>4, <1>5 DEF Inv

\* Every step keeps the types.
LEMMA NextType == TypeOK /\ Positions /\ OursAreNoted /\ [Next]_vars => TypeOK'
  <1> SUFFICES ASSUME TypeOK, Positions, OursAreNoted, [Next]_vars PROVE TypeOK'
    OBVIOUS
  <1> USE OnboardingAssumption DEF TypeOK, Positions, Early, Transaction, Undoing, Goes, Ends,
          Undoes, run, log, env
  <1>1. CASE \/ TakeLock \/ Refuse \/ Stop \/ FailsEarly \/ Report \/ KeysUndone
             \/ Undone
    BY <1>1 DEF TakeLock, Refuse, Stop, FailsEarly, Report, KeysUndone, Undone
  <1>2. CASE Prepare
    BY <1>2 DEF Prepare
  <1>3. CASE BackUp
    BY <1>3 DEF BackUp
  <1>4. CASE NoMoreKeys
    BY <1>4 DEF NoMoreKeys
  <1>5. CASE CheckKey
    BY KeysFacts, <1>5 DEF CheckKey
  <1>6. CASE OpenKey
    BY KeyFact, <1>6 DEF OpenKey, MayOpen, Theirs, Ours
  <1>7. CASE NoteKey
    BY KeyFact, <1>7 DEF NoteKey, OursAreNoted
  <1>8. CASE WriteKey
    BY KeyFact, <1>8 DEF WriteKey, OursAreNoted, Ours
  <1>9. CASE ReplaceFile
    BY ConfigurationFacts, <1>9 DEF ReplaceFile, Settings, Files, Contents
  <1>10. CASE NoteFile
    BY ConfigurationFacts, Appended, <1>10 DEF NoteFile, Settings, Files
  <1>11. CASE Ignore
    BY <1>11 DEF Ignore, Files, Contents
  <1>12. CASE Fails
    BY <1>12 DEF Fails
  <1>13. CASE Interrupt
    BY <1>13 DEF Interrupt
  <1>14. CASE UndoKey
    BY <1>14 DEF UndoKey
  <1>15. CASE UndoFile
    BY Taken, <1>15 DEF UndoFile, Old
  <1>16. CASE UndoFails
    BY <1>16 DEF UndoFails
  <1>17. CASE L2SetupSaves
    BY <1>17 DEF L2SetupSaves, Files, Settings, Contents
  <1>18. ASSUME NEW f \in Files, UserEdits(f) PROVE TypeOK'
    BY <1>18 DEF UserEdits, Contents
  <1>19. ASSUME NEW n \in ToSet(Keys), KeyAppears(n) PROVE TypeOK'
    BY <1>19 DEF KeyAppears, Theirs, Ours
  <1>20. CASE UNCHANGED vars
    BY <1>20 DEF vars
  <1> QED
    BY <1>1, <1>2, <1>3, <1>4, <1>5, <1>6, <1>7, <1>8, <1>9, <1>10, <1>11, <1>12, <1>13, <1>14,
       <1>15, <1>16, <1>17, <1>18, <1>19, <1>20 DEF Next, Script, Others

\* Every step keeps the positions.
LEMMA NextPositions == TypeOK /\ Positions /\ [Next]_vars => Positions'
  <1> SUFFICES ASSUME TypeOK, Positions, [Next]_vars PROVE Positions'
    OBVIOUS
  <1> USE DEF TypeOK, Positions, Early, Transaction, Undoing, Goes, Ends, Undoes, run, log, env
  <1>1. CASE \/ TakeLock \/ Refuse \/ Stop \/ FailsEarly \/ OpenKey \/ NoteKey
             \/ WriteKey \/ Ignore \/ Report \/ Fails \/ Interrupt \/ UndoKey
             \/ KeysUndone \/ Undone \/ UndoFails
    BY <1>1
       DEF TakeLock, Refuse, Stop, FailsEarly, OpenKey, NoteKey, WriteKey, Ignore, Report,
           Fails, Interrupt, UndoKey, KeysUndone, Undone, UndoFails, Configuration
  <1>2. CASE Prepare
    BY <1>2 DEF Prepare, Configuration
  <1>3. CASE BackUp
    BY <1>3 DEF BackUp
  <1>4. CASE NoMoreKeys
    BY ConfigurationFacts, <1>4 DEF NoMoreKeys, Configuration
  <1>5. CASE CheckKey
    BY KeysFacts, <1>5 DEF CheckKey
  <1>6. CASE ReplaceFile
    BY ConfigurationFacts, <1>6 DEF ReplaceFile, Configuration
  <1>7. CASE NoteFile
    BY ConfigurationFacts, <1>7 DEF NoteFile, Configuration
  <1>8. CASE UndoFile
    BY <1>8 DEF UndoFile, Old
  <1>9. CASE L2SetupSaves
    BY <1>9 DEF L2SetupSaves, Files, Settings, Unlocked
  <1>10. ASSUME NEW f \in Files, UserEdits(f) PROVE Positions'
    BY <1>10 DEF UserEdits, Configuration
  <1>11. ASSUME NEW n \in ToSet(Keys), KeyAppears(n) PROVE Positions'
    BY <1>11 DEF KeyAppears, Configuration
  <1>12. CASE UNCHANGED vars
    BY <1>12 DEF vars, Configuration
  <1> QED
    BY <1>1, <1>2, <1>3, <1>4, <1>5, <1>6, <1>7, <1>8, <1>9, <1>10, <1>11, <1>12
       DEF Next, Script, Others

\* Every step keeps the record of the keys.
LEMMA NextOurs == TypeOK /\ Positions /\ OursAreNoted /\ [Next]_vars => OursAreNoted'
  <1> SUFFICES ASSUME TypeOK, Positions, OursAreNoted, [Next]_vars PROVE OursAreNoted'
    OBVIOUS
  <1> USE DEF TypeOK, Positions, OursAreNoted, Early, Transaction, Undoing, Key, Goes, Ends,
          Undoes, run, log, env
  <1>1. CASE \/ TakeLock \/ Prepare \/ Refuse \/ Stop \/ BackUp \/ FailsEarly
             \/ NoMoreKeys \/ ReplaceFile \/ NoteFile \/ Ignore \/ Report \/ Fails
             \/ Interrupt \/ KeysUndone \/ UndoFile \/ Undone \/ UndoFails
             \/ L2SetupSaves
    BY <1>1
       DEF TakeLock, Prepare, Refuse, Stop, BackUp, FailsEarly, NoMoreKeys, ReplaceFile,
           NoteFile, Ignore, Report, Fails, Interrupt, KeysUndone, UndoFile, Undone, UndoFails,
           L2SetupSaves
  <1>2. CASE CheckKey
    BY KeysFacts, <1>2 DEF CheckKey, Theirs, Ours
  <1>3. CASE OpenKey
    BY KeyFact, <1>3 DEF OpenKey, MayOpen, Theirs, Ours
  <1>4. CASE NoteKey
    BY KeyFact, <1>4 DEF NoteKey, Ours
  <1>5. CASE WriteKey
    BY KeyFact, <1>5 DEF WriteKey, Ours
  <1>6. CASE UndoKey
    BY <1>6 DEF UndoKey, Ours
  <1>7. ASSUME NEW f \in Files, UserEdits(f) PROVE OursAreNoted'
    BY <1>7 DEF UserEdits
  <1>8. ASSUME NEW n \in ToSet(Keys), KeyAppears(n) PROVE OursAreNoted'
    BY <1>8 DEF KeyAppears, Theirs, Ours
  <1>9. CASE UNCHANGED vars
    BY <1>9 DEF vars
  <1> QED
    BY <1>1, <1>2, <1>3, <1>4, <1>5, <1>6, <1>7, <1>8, <1>9 DEF Next, Script, Others

\* Every step keeps the record of the files.
LEMMA NextFiles == TypeOK /\ Positions /\ FilesKept /\ [Next]_vars => FilesKept'
  <1> SUFFICES ASSUME TypeOK, Positions, FilesKept, [Next]_vars PROVE FilesKept'
    OBVIOUS
  <1> USE DEF TypeOK, Positions, FilesKept, BackedUp, Early, Transaction, Undoing, Settings,
          Files, Goes, Ends, Undoes, run, log, env
  <1>1. CASE \/ TakeLock \/ Prepare \/ Refuse \/ Stop \/ FailsEarly \/ NoMoreKeys
             \/ CheckKey \/ OpenKey \/ NoteKey \/ WriteKey \/ Report \/ Fails
             \/ Interrupt \/ UndoKey \/ KeysUndone \/ Undone \/ UndoFails
    BY <1>1
       DEF TakeLock, Prepare, Refuse, Stop, FailsEarly, NoMoreKeys, CheckKey, OpenKey, NoteKey,
           WriteKey, Report, Fails, Interrupt, UndoKey, KeysUndone, Undone, UndoFails,
           Configuration
  <1>2. CASE BackUp
    BY <1>2 DEF BackUp
  <1>3. CASE ReplaceFile
    BY ConfigurationFacts, <1>3 DEF ReplaceFile, Configuration
  <1>4. CASE NoteFile
    BY ConfigurationFacts, Appended, <1>4 DEF NoteFile, Configuration
  <1>5. CASE Ignore
    BY <1>5 DEF Ignore
  <1>6. CASE UndoFile
    BY Taken, <1>6 DEF UndoFile, Old
  <1>7. CASE L2SetupSaves
    BY <1>7 DEF L2SetupSaves, Unlocked
  <1>8. ASSUME NEW f \in Files, UserEdits(f) PROVE FilesKept'
    BY <1>8 DEF UserEdits, Configuration
  <1>9. ASSUME NEW n \in ToSet(Keys), KeyAppears(n) PROVE FilesKept'
    BY <1>9 DEF KeyAppears, Configuration
  <1>10. CASE UNCHANGED vars
    BY <1>10 DEF vars, Configuration
  <1> QED
    BY <1>1, <1>2, <1>3, <1>4, <1>5, <1>6, <1>7, <1>8, <1>9, <1>10 DEF Next, Script, Others

\* Every step keeps what the loop over the keys has done.
LEMMA NextKeysDone == TypeOK /\ Positions /\ OursAreNoted /\ KeysDone /\ [Next]_vars => KeysDone'
  <1> SUFFICES ASSUME TypeOK, Positions, OursAreNoted, KeysDone, [Next]_vars PROVE KeysDone'
    OBVIOUS
  <1> USE KeysFacts DEF TypeOK, Positions, KeysDone, Early, Transaction, Undoing, Goes, Ends,
          Undoes, run, log, env
  <1>1. CASE \/ TakeLock \/ Prepare \/ Refuse \/ Stop \/ FailsEarly \/ ReplaceFile
             \/ NoteFile \/ Ignore \/ Fails \/ Interrupt \/ KeysUndone \/ UndoFile
             \/ Undone \/ UndoFails \/ L2SetupSaves
    BY <1>1
       DEF TakeLock, Prepare, Refuse, Stop, FailsEarly, ReplaceFile, NoteFile, Ignore, Fails,
           Interrupt, KeysUndone, UndoFile, Undone, UndoFails, L2SetupSaves
  <1>2. CASE BackUp
    BY <1>2 DEF BackUp, OursAreNoted
  <1>3. CASE NoMoreKeys
    BY <1>3 DEF NoMoreKeys, Theirs, Ours
  <1>4. CASE CheckKey
    BY <1>4 DEF CheckKey, Differs, Theirs, Ours, Key
  <1>5. CASE OpenKey
    BY KeyFact, <1>5 DEF OpenKey, MayOpen, Key
  <1>6. CASE NoteKey
    BY <1>6 DEF NoteKey
  <1>7. CASE WriteKey
    BY KeyFact, <1>7 DEF WriteKey, Key
  <1>8. CASE Report
    BY <1>8 DEF Report
  <1>9. CASE UndoKey
    BY <1>9 DEF UndoKey
  <1>10. ASSUME NEW f \in Files, UserEdits(f) PROVE KeysDone'
    BY <1>10 DEF UserEdits
  <1>11. ASSUME NEW n \in ToSet(Keys), KeyAppears(n) PROVE KeysDone'
    BY <1>11 DEF KeyAppears, Theirs, Ours
  <1>12. CASE UNCHANGED vars
    BY <1>12 DEF vars
  <1> QED
    BY <1>1, <1>2, <1>3, <1>4, <1>5, <1>6, <1>7, <1>8, <1>9, <1>10, <1>11, <1>12
       DEF Next, Script, Others

\* Every step keeps what the loop over the files has done.
LEMMA NextFilesDone == TypeOK /\ Positions /\ FilesDone /\ [Next]_vars => FilesDone'
  <1> SUFFICES ASSUME TypeOK, Positions, FilesDone, [Next]_vars PROVE FilesDone'
    OBVIOUS
  <1> USE ConfigurationFacts DEF TypeOK, Positions, FilesDone, Early, Transaction, Undoing,
          Goes, Ends, Undoes, run, log, env
  <1>1. CASE \/ TakeLock \/ Refuse \/ Stop \/ FailsEarly \/ CheckKey \/ OpenKey
             \/ NoteKey \/ WriteKey \/ Report \/ Fails \/ Interrupt \/ UndoKey
             \/ KeysUndone \/ Undone \/ UndoFails
    BY <1>1
       DEF TakeLock, Refuse, Stop, FailsEarly, CheckKey, OpenKey, NoteKey, WriteKey, Report,
           Fails, Interrupt, UndoKey, KeysUndone, Undone, UndoFails, Configuration
  <1>2. CASE Prepare
    BY <1>2 DEF Prepare
  <1>3. CASE BackUp
    BY <1>3 DEF BackUp
  <1>4. CASE NoMoreKeys
    BY <1>4 DEF NoMoreKeys, Configuration
  <1>5. CASE ReplaceFile
    BY <1>5 DEF ReplaceFile, Configuration, Settings, Files
  <1>6. CASE NoteFile
    BY <1>6 DEF NoteFile, Configuration
  <1>7. CASE Ignore
    BY <1>7 DEF Ignore, Configuration, Settings, Files
  <1>8. CASE UndoFile
    BY <1>8 DEF UndoFile
  <1>9. CASE L2SetupSaves
    BY <1>9 DEF L2SetupSaves, Unlocked
  <1>10. ASSUME NEW f \in Files, UserEdits(f) PROVE FilesDone'
    BY <1>10 DEF UserEdits, Configuration, BackedUp
  <1>11. ASSUME NEW n \in ToSet(Keys), KeyAppears(n) PROVE FilesDone'
    BY <1>11 DEF KeyAppears, Configuration
  <1>12. CASE UNCHANGED vars
    BY <1>12 DEF vars, Configuration
  <1> QED
    BY <1>1, <1>2, <1>3, <1>4, <1>5, <1>6, <1>7, <1>8, <1>9, <1>10, <1>11, <1>12
       DEF Next, Script, Others

\* The invariant is inductive.
LEMMA NextInv == Inv /\ [Next]_vars => Inv'
  BY NextType, NextPositions, NextOurs, NextFiles, NextKeysDone, NextFilesDone DEF Inv

\* The invariant holds in every reachable state.
LEMMA Invariance == Spec => []Inv
  <1>1. Init => Inv
    BY InitInv
  <1>2. Inv /\ [Next]_vars => Inv'
    BY NextInv
  <1> QED
    BY <1>1, <1>2, PTL DEF Spec

------------------------------------------------------------------------------
(* The properties *)

\* Every variable of the onboarding keeps its type (node_onboarding.py:322-381).
THEOREM TypeTheorem == Spec => []TypeOK
  <1>1. Inv => TypeOK
    BY DEF Inv
  <1> QED
    BY <1>1, Invariance, PTL

\* A run that fails leaves no key of its own and the configuration as it was (341), but
\* for what the user wrote meanwhile and for an interrupt that is not recorded.
THEOREM FailureTheorem == Spec => []FailureChangesNothing
  <1>1. Inv => FailureChangesNothing
    <2> SUFFICES ASSUME Inv, outcome = "failed", backup["compose"] # "none", ~ unrecorded
                 PROVE  AsBefore
      BY DEF FailureChangesNothing
    <2>1. pc = "done" /\ BackedUp
      BY DEF Inv, Positions, BackedUp
    <2>2. ASSUME NEW n \in ToSet(Keys) PROVE key[n] \notin Ours
      BY <2>1 DEF Inv, OursAreNoted
    <2>3. ASSUME NEW f \in Settings \ late PROVE file[f] = backup[f]
      BY <2>1, <2>3 DEF Inv, Positions, FilesKept, ToSet
    <2> QED
      BY <2>2, <2>3 DEF AsBefore, Settings
  <1> QED
    BY <1>1, Invariance, PTL

\* A run that reports success has written the whole configuration, and the node has
\* exactly the imported identity (347-368).
THEOREM SavedTheorem == Spec => []SavedIsComplete
  <1>1. Inv => SavedIsComplete
    BY DEF Inv, KeysDone, FilesDone, SavedIsComplete
  <1> QED
    BY <1>1, Invariance, PTL

\* "Never replace an existing key" (341): no step of the script changes a key file that
\* is not its own, one that appears during the run or its rollback included.
THEOREM KeysTheorem == Spec => KeysNeverReplaced
  <1> DEFINE Kept == \A n \in ToSet(Keys) : key[n] \in Theirs => key'[n] = key[n]
  <1>1. Inv /\ Script => Kept
    <2> SUFFICES ASSUME Inv, Script PROVE Kept
      OBVIOUS
    <2> USE DEF Inv, TypeOK, Positions, OursAreNoted
    <2>1. CASE OpenKey
      BY <2>1, KeyFact DEF OpenKey, MayOpen, Theirs
    <2>2. CASE WriteKey
      BY <2>2, KeyFact DEF WriteKey, Goes, Theirs, Ours
    <2>3. CASE UndoKey
      BY <2>3 DEF UndoKey, Theirs, Ours
    <2>4. CASE UNCHANGED key
      BY <2>4
    <2> QED
      BY <2>1, <2>2, <2>3, <2>4 DEF Script, TakeLock, Prepare, Refuse, Stop, BackUp,
         FailsEarly, NoMoreKeys, CheckKey, NoteKey, ReplaceFile, NoteFile, Ignore, Report,
         Fails, Interrupt, KeysUndone, UndoFile, Undone, UndoFails
  <1>2. Inv /\ [Next]_vars => [Script => Kept]_vars
    BY <1>1
  <1> QED
    BY <1>2, Invariance, PTL DEF Spec, KeysNeverReplaced

\* Whatever the script overwrites is in its backup, unless the user wrote it later
\* (343-346, 356-361, 371-377).
THEOREM NothingLostTheorem == Spec => NothingLost
  <1> DEFINE Kept == \A f \in Files :
                 file[f] \notin {"none", "new"} /\ file'[f] # file[f] /\ file'[f] # "appended" =>
                     backup[f] = file[f] \/ f \in late
  <1>1. Inv /\ Script => Kept
    <2> SUFFICES ASSUME Inv, Script PROVE Kept
      OBVIOUS
    <2> USE DEF Inv, TypeOK, Positions, FilesKept, BackedUp, Transaction, Undoing, Settings
    <2>1. CASE ReplaceFile
      BY <2>1, ConfigurationFacts DEF ReplaceFile, Goes, Files
    <2>2. CASE UndoFile
      BY <2>2, Taken DEF UndoFile, Old
    <2>3. CASE Ignore
      BY <2>3 DEF Ignore
    <2>4. CASE UNCHANGED file
      BY <2>4
    <2> QED
      BY <2>1, <2>2, <2>3, <2>4 DEF Script, TakeLock, Prepare, Refuse, Stop, BackUp,
         FailsEarly, NoMoreKeys, CheckKey, OpenKey, NoteKey, WriteKey, NoteFile, Report,
         Fails, Interrupt, UndoKey, KeysUndone, Undone, UndoFails
  <1>2. Inv /\ [Next]_vars => [Script => Kept]_vars
    BY <1>1
  <1> QED
    BY <1>2, Invariance, PTL DEF Spec, NothingLost
==============================================================================
