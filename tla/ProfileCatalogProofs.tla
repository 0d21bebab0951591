------------------------ MODULE ProfileCatalogProofs ------------------------
(***************************************************************************)
(* Theorems about ProfileCatalog, for any number of profiles, names and    *)
(* deletions, failures of any kind and deaths.                             *)
(***************************************************************************)
EXTENDS ProfileCatalog, SequenceTheorems, TLAPS

Building == {"stage", "bootstrap", "publish", "publish_journal", "register", "commit"}
Removing == {"reconcile", "intend", "discard", "unregister", "take_back", "record", "clean", "claim"}

\* What is under way belongs to a profile, and to a deletion where there is one;
\* a start resumes creations, one at a time, and visits deletions after them.
UnderWay ==
    /\ step # "idle" => target \in Profiles
    /\ step \in Removing => del \in Deletes /\ mode = "running"
    /\ step \in {"copy", "prepare"} => mode = "running"
    /\ mode = "down" => step = "idle" /\ active = NoProfile
    /\ mode = "deletions" => step = "idle"
    /\ mode = "creations" /\ step # "idle" => target \in creations
\* A record names the profile it is about.
RecordsName ==
    /\ \A d \in Deletes : deletion[d] = NoDeletion \/ deletion[d].of \in Profiles
    /\ \A d \in deletions : deletion[d].of \in Profiles

Typed == TypeOK /\ UnderWay /\ RecordsName

----------------------------------------------------------------------------
(* Types. *)

\* A failed file operation is recorded with its kind.
LEMMA FaultTyped ==
    ASSUME faults \in Seq(FaultKinds), NEW kind \in FaultKinds, Fault(kind)
    PROVE  faults' \in Seq(FaultKinds)
BY AppendProperties DEF Fault

\* An operation that ends leaves nothing under way; an error ends the start it
\* happens in.
LEMMA DoneEnds ==
    ASSUME Typed, Done, active' = active, mode' = mode, mode # "deletions"
    PROVE  /\ UnderWay'
           /\ target' \in Profiles \cup {NoProfile} /\ del' \in Deletes \cup {NoDelete}
           /\ step' \in Steps /\ reopen' \in BOOLEAN /\ deletions' = {}
BY DEF Typed, TypeOK, UnderWay, Done, Steps, Removing

LEMMA FailEnds ==
    ASSUME Typed, Fail
    PROVE  /\ step' = "idle" /\ target' = NoProfile /\ del' = NoDelete /\ reopen' = FALSE
           /\ deletions' = {} /\ known' = known /\ crashes' = crashes
           /\ \/ mode = "running" /\ UNCHANGED <<mode, active, creations>>
              \/ mode' = "down" /\ active' = NoProfile /\ creations' = {}
BY DEF Fail, Done, Down

LEMMA FailTyped ==
    ASSUME Typed, Fail
    PROVE  /\ UnderWay'
           /\ known' \in [Profiles -> Names \cup {Absent}]
           /\ active' \in Profiles \cup {NoProfile}
           /\ mode' \in {"down", "creations", "deletions", "running"}
           /\ target' \in Profiles \cup {NoProfile} /\ del' \in Deletes \cup {NoDelete}
           /\ step' \in Steps /\ reopen' \in BOOLEAN
           /\ creations' \subseteq Profiles /\ deletions' = {}
           /\ crashes' \in 0..MaxCrashes
BY FailEnds DEF Typed, TypeOK, UnderWay, Steps, Removing

\* One step follows another of the same operation.
LEMMA GotoTyped ==
    ASSUME Typed, step # "idle", NEW s \in Steps \ {"idle"}, Goto(s),
           s \in Removing <=> step \in Removing, s \notin {"copy"},
           s = "prepare" => step = "copy"
    PROVE  /\ UnderWay'
           /\ known' \in [Profiles -> Names \cup {Absent}]
           /\ active' \in Profiles \cup {NoProfile}
           /\ mode' \in {"down", "creations", "deletions", "running"}
           /\ target' \in Profiles \cup {NoProfile} /\ del' \in Deletes \cup {NoDelete}
           /\ step' \in Steps /\ reopen' \in BOOLEAN
           /\ creations' \subseteq Profiles /\ deletions' = deletions
           /\ crashes' \in 0..MaxCrashes
BY DEF Goto, Typed, TypeOK, UnderWay, visits

\* A deletion is recorded with its profile.
LEMMA DeletionTyped ==
    ASSUME Typed, NEW d \in Deletes, NEW p \in Profiles, NEW phase \in {"prepared", "committed"},
           NEW pending \in BOOLEAN, SaveDeletion(d, p, phase, pending)
    PROVE  /\ deletion' \in [Deletes -> Deletion]
           /\ \A e \in Deletes : deletion'[e] = NoDeletion \/ deletion'[e].of \in Profiles
           /\ \A e \in deletions : deletion'[e].of \in Profiles
<1>1. [of |-> p, phase |-> phase, pending |-> pending] \in Deletion
  BY DEF Deletion
<1>2. deletion' = [deletion EXCEPT ![d] = [of |-> p, phase |-> phase, pending |-> pending]]
  BY DEF SaveDeletion
<1>3. \A e \in Deletes : deletion'[e] = IF e = d THEN [of |-> p, phase |-> phase, pending |-> pending]
                                        ELSE deletion[e]
  BY <1>2 DEF Typed, TypeOK
<1> HIDE DEF Deletion
<1>4. deletion' \in [Deletes -> Deletion]
  BY <1>1, <1>2 DEF Typed, TypeOK
<1> QED
  BY <1>3, <1>4 DEF Typed, TypeOK, RecordsName

FilesTyped ==
    /\ registry \in [Profiles -> Names \cup {Absent}]
    /\ database \subseteq Profiles
    /\ staging \in [Profiles -> {"none", "empty", "built"}]
    /\ journal \in [Profiles -> {"none", "prepared", "published", "committed"}]
    /\ trash \in [Deletes -> Profiles \cup {NoProfile}]
    /\ promised \in [Profiles -> Names \cup {Absent}] /\ gone \subseteq Profiles
    /\ faults \in Seq(FaultKinds)

\* A step of an operation that leaves the records of deletions alone and fails or
\* goes on.
LEMMA OperationTyped ==
    ASSUME Typed, FilesTyped', UNCHANGED deletion, step # "idle",
           \/ Fail
           \/ \E s \in Steps \ {"idle"} : /\ Goto(s) /\ (s \in Removing <=> step \in Removing)
                                          /\ s # "copy" /\ (s = "prepare" => step = "copy")
    PROVE  Typed'
<1>1. CASE Fail
  <2>1. RecordsName'
    BY <1>1, FailTyped DEF Typed, RecordsName
  <2> QED
    BY <1>1, <2>1, FailTyped DEF Typed, TypeOK, FilesTyped
<1>2. ASSUME NEW s \in Steps \ {"idle"}, Goto(s), s \in Removing <=> step \in Removing,
             s # "copy", s = "prepare" => step = "copy"
      PROVE  Typed'
  <2>1. RecordsName'
    BY <1>2, GotoTyped DEF Typed, RecordsName
  <2> QED
    BY <1>2, <2>1, GotoTyped DEF Typed, TypeOK, FilesTyped
<1> QED
  BY <1>1, <1>2

LEMMA TypeStep == Typed /\ [Next]_vars => Typed'
<1> SUFFICES ASSUME Typed, [Next]_vars PROVE Typed'
  OBVIOUS
<1> USE CatalogAssumption, FaultTyped
    DEF Typed, TypeOK, RecordsName, Works, FaultKinds, createFiles, deleteFiles, history, visits, work
<1>1. ASSUME NEW p \in Profiles, NEW n \in Names, Rename(p, n) PROVE Typed'
  BY <1>1 DEF Rename, Adopt, UnderWay
<1>2. ASSUME NEW p \in Profiles, Activate(p) PROVE Typed'
  BY <1>2 DEF Activate, UnderWay, Ready
<1>3. ASSUME NEW p \in Profiles, Request(p) \/ RequestAgain(p) \/ Resume(p) PROVE Typed'
  BY <1>3 DEF Request, RequestAgain, Resume, Enter, UnderWay, Ready, Steps, Removing
<1>4. ASSUME NEW d \in Deletes, NEW p \in Profiles, Delete(d, p) PROVE Typed'
  BY <1>4 DEF Delete, Enter, UnderWay, Ready, Steps, Removing, NoDeletion
<1>f. FilesTyped
  BY DEF FilesTyped
<1>5. ASSUME CopyBackup \/ Prepare \/ MarkPublished PROVE Typed'
  <2>1. step \in {"copy", "prepare", "publish_journal"} /\ target \in Profiles /\ UNCHANGED deletion
    BY <1>5 DEF CopyBackup, Prepare, MarkPublished, UnderWay
  <2>2. FilesTyped'
    <3> HIDE DEF Typed, TypeOK, RecordsName
    <3>1. UNCHANGED <<registry, database, trash, promised, gone>>
      BY <1>5 DEF CopyBackup, Prepare, MarkPublished
    <3>2. faults' \in Seq(FaultKinds)
      BY <1>5, <1>f DEF CopyBackup, Prepare, MarkPublished, SaveJournal, FilesTyped
    <3>3. /\ staging' \in {staging, [staging EXCEPT ![target] = "built"]}
          /\ journal' \in {journal, [journal EXCEPT ![target] = "prepared"],
                           [journal EXCEPT ![target] = "published"]}
      BY <1>5 DEF CopyBackup, Prepare, MarkPublished, SaveJournal, Recorded
    <3> QED
      BY <1>f, <3>1, <3>2, <3>3 DEF FilesTyped
  <2>3. \/ Fail
        \/ step = "copy" /\ Goto("prepare")
        \/ step = "prepare" /\ Goto("stage")
        \/ step = "publish_journal" /\ Goto("register")
    BY <1>5 DEF CopyBackup, Prepare, MarkPublished, SaveJournal
  <2> HIDE DEF Typed, TypeOK, RecordsName
  <2> QED
    BY <2>1, <2>2, <2>3, OperationTyped DEF Steps, Removing
<1>6. ASSUME MakeStage \/ Bootstrap \/ Publish PROVE Typed'
  <2>1. step \in {"stage", "bootstrap", "publish"} /\ target \in Profiles /\ UNCHANGED deletion
    BY <1>6 DEF MakeStage, Bootstrap, Publish, UnderWay
  <2>2. FilesTyped'
    <3> HIDE DEF Typed, TypeOK, RecordsName
    <3>1. UNCHANGED <<registry, journal, trash, promised, gone>>
      BY <1>6 DEF MakeStage, Bootstrap, Publish
    <3>2. faults' \in Seq(FaultKinds)
      BY <1>6, <1>f DEF MakeStage, Bootstrap, Publish, FilesTyped
    <3>3. /\ staging' \in {staging, [staging EXCEPT ![target] = "empty"],
                           [staging EXCEPT ![target] = "built"], [staging EXCEPT ![target] = "none"]}
          /\ database' \in {database, database \cup {target}}
      BY <1>6 DEF MakeStage, Bootstrap, Publish
    <3> QED
      BY <1>f, <2>1, <3>1, <3>2, <3>3 DEF FilesTyped
  <2>3. \/ Fail \/ Goto("publish_journal") \/ Goto("bootstrap") \/ Goto("publish")
    BY <1>6 DEF MakeStage, Bootstrap, Publish
  <2> HIDE DEF Typed, TypeOK, RecordsName
  <2> QED
    BY <2>1, <2>2, <2>3, OperationTyped DEF Steps, Removing
<1>8. ASSUME Register PROVE Typed'
  <2>1. step = "register" /\ target \in Profiles
        /\ UNCHANGED <<database, staging, journal, deletion, trash, promised, gone>>
    BY <1>8 DEF Register, UnderWay
  <2> DEFINE next == [known EXCEPT ![target] = FirstName]
  <2>2. next \in [Profiles -> Names \cup {Absent}]
    OBVIOUS
  <2>3. registry' \in {registry, next} /\ faults' \in Seq(FaultKinds)
    BY <1>8 DEF Register, SaveRegistry, Adopt
  <2>4. FilesTyped'
    BY <1>f, <2>1, <2>2, <2>3 DEF FilesTyped
  <2>5. CASE Fail \/ Goto("commit")
    <3> HIDE DEF Typed, TypeOK, RecordsName
    <3> QED
      BY <2>1, <2>4, <2>5, OperationTyped DEF Steps, Removing
  <2>6. CASE known' = next /\ step' = "commit"
             /\ UNCHANGED <<target, del, reopen, active, mode, visits, crashes>>
    BY <2>1, <2>2, <2>4, <2>6 DEF FilesTyped, UnderWay, Steps, Removing
  <2> QED
    BY <1>8, <2>5, <2>6 DEF Register, SaveRegistry, Adopt
<1>9. ASSUME Commit PROVE Typed'
  BY <1>9, FailTyped, DoneEnds DEF Commit, Recorded, Answer, Steps, Removing, UnderWay
<1>10. ASSUME Reconciled PROVE Typed'
  <2>1. step = "reconcile" /\ UNCHANGED <<registry, database, createFiles, deleteFiles, history, faults>>
        /\ (Fail \/ Goto("intend"))
    BY <1>10 DEF Reconciled
  <2>2. FilesTyped'
    BY <1>f, <2>1 DEF FilesTyped
  <2> HIDE DEF Typed, TypeOK, RecordsName
  <2> QED
    BY <2>1, <2>2, OperationTyped DEF Steps, Removing
<1>11. ASSUME Intend PROVE Typed'
  <2>1. del \in Deletes /\ target \in Profiles
    BY <1>11 DEF Intend, UnderWay, Removing
  <2>2. CASE SaveDeletion(del, target, "prepared", TRUE) /\ Works /\ Goto("discard")
    <3>1. step = "intend" /\ UNCHANGED <<registry, database, createFiles, trash, history>>
      BY <1>11 DEF Intend
    <3> QED
      BY <2>1, <2>2, <3>1, DeletionTyped, GotoTyped DEF Steps, Removing
  <2>3. CASE UNCHANGED deletion /\ Fault("journal") /\ Fail
    BY <1>11, <2>3, FailTyped DEF Intend
  <2>4. CASE SaveDeletion(del, target, "prepared", TRUE) /\ Fault("sync") /\ Fail
    BY <1>11, <2>1, <2>4, DeletionTyped, FailTyped DEF Intend
  <2> QED
    BY <1>11, <2>2, <2>3, <2>4 DEF Intend
<1>12. ASSUME Discard PROVE Typed'
  <2>1. step = "discard" /\ UNCHANGED <<registry, createFiles, deletion, history>>
        /\ del \in Deletes /\ target \in Profiles /\ mode = "running"
    BY <1>12 DEF Discard, UnderWay, Removing
  <2>2. \/ UNCHANGED <<trash, database>>
        \/ trash' = [trash EXCEPT ![del] = target] /\ database' = database \ {target}
    BY <1>12 DEF Discard
  <2>3. trash' \in [Deletes -> Profiles \cup {NoProfile}] /\ database' \subseteq Profiles
    BY <2>1, <2>2
  <2>4. faults' \in Seq(FaultKinds)
    BY <1>12 DEF Discard
  <2>5. CASE Fail
    BY <2>1, <2>3, <2>4, <2>5, FailTyped
  <2>6. CASE Closed(target) /\ Done /\ UNCHANGED <<mode, creations, crashes, known>>
    BY <2>1, <2>3, <2>4, <2>6 DEF Closed, Done, UnderWay, Steps, Removing
  <2>7. CASE Closed(target) /\ step' = "unregister" /\ reopen' = (active = target)
             /\ UNCHANGED <<target, del, mode, visits, crashes, known>>
    BY <2>1, <2>3, <2>4, <2>7 DEF Closed, UnderWay, Steps, Removing
  <2> QED
    BY <1>12, <2>5, <2>6, <2>7 DEF Discard
<1>13. ASSUME Unregister PROVE Typed'
  <2>1. step = "unregister" /\ target \in Profiles /\ UNCHANGED <<database, createFiles, deleteFiles>>
    BY <1>13 DEF Unregister, UnderWay
  <2>2. /\ registry' \in {registry, [known EXCEPT ![target] = Absent]}
        /\ promised' \in {promised, [promised EXCEPT ![target] = Absent]}
        /\ gone' \in {gone, gone \cup {target}}
        /\ faults' = faults \/ Fault("registry") \/ Fault("sync")
    <3> HIDE DEF Typed, TypeOK, RecordsName
    <3> QED
      BY <1>13 DEF Unregister, Adopt
  <2>3. FilesTyped'
    BY <1>f, <2>1, <2>2 DEF FilesTyped
  <2>4. CASE Goto("take_back")
    <3> HIDE DEF Typed, TypeOK, RecordsName
    <3> QED
      BY <2>1, <2>3, <2>4, OperationTyped DEF Steps, Removing, deleteFiles
  <2>5. CASE known' = [known EXCEPT ![target] = Absent] /\ step' = "record"
             /\ UNCHANGED <<target, del, reopen, active, mode, visits, crashes>>
    BY <2>1, <2>3, <2>5 DEF FilesTyped, UnderWay, Steps, Removing
  <2> QED
    BY <1>13, <2>4, <2>5 DEF Unregister, Adopt
<1>14. ASSUME TakeBack PROVE Typed'
  <2>1. target \in Profiles /\ mode = "running" /\ Done
        /\ UNCHANGED <<registry, createFiles, deletion, gone, mode, creations, crashes, known>>
        /\ active' \in {active, target}
    BY <1>14 DEF TakeBack, UnderWay, Removing
  <2>2. /\ trash' \in [Deletes -> Profiles \cup {NoProfile}] /\ database' \subseteq Profiles
        /\ promised' \in [Profiles -> Names \cup {Absent}] /\ faults' \in Seq(FaultKinds)
    BY <1>14, <2>1 DEF TakeBack
  <2> QED
    BY <2>1, <2>2 DEF Done, UnderWay, Removing, Steps
<1>15. ASSUME RecordDeletion \/ Clean PROVE Typed'
  <2>1. del \in Deletes /\ target \in Profiles /\ step \in {"record", "clean"}
    BY <1>15 DEF RecordDeletion, Clean, UnderWay, Removing
  <2>2. Fail \/ Goto("clean") \/ Goto("claim")
    BY <1>15 DEF RecordDeletion, Clean
  <2>3. /\ deletion' \in [Deletes -> Deletion]
        /\ \A e \in Deletes : deletion'[e] = NoDeletion \/ deletion'[e].of \in Profiles
        /\ \A e \in deletions : deletion'[e].of \in Profiles
    BY <1>15, <2>1, DeletionTyped DEF RecordDeletion, Clean
  <2>4. trash' \in [Deletes -> Profiles \cup {NoProfile}] /\ faults' \in Seq(FaultKinds)
    BY <1>15, <2>1 DEF RecordDeletion, Clean, Emptied
  <2>5. UNCHANGED <<registry, database, createFiles, history>>
    BY <1>15 DEF RecordDeletion, Clean
  <2>6. CASE Fail
    BY <2>3, <2>4, <2>5, <2>6, FailTyped
  <2>7. CASE Goto("clean") \/ Goto("claim")
    BY <2>1, <2>3, <2>4, <2>5, <2>7, GotoTyped DEF Steps, Removing
  <2> QED
    BY <2>2, <2>6, <2>7
<1>16. ASSUME Claim PROVE Typed'
  <2>1. del \in Deletes /\ target \in Profiles /\ mode = "running"
    BY <1>16 DEF Claim, UnderWay, Removing
  <2>2. /\ deletion' \in [Deletes -> Deletion]
        /\ \A e \in Deletes : deletion'[e] = NoDeletion \/ deletion'[e].of \in Profiles
    BY <1>16, <2>1, DeletionTyped DEF Claim
  <2> QED
    BY <1>16, <2>1, <2>2, DoneEnds DEF Claim, Answer
<1>17. ASSUME NEW d \in Deletes, PutBack(d) \/ EmptyTrash(d) PROVE Typed'
  BY <1>17, FailTyped DEF PutBack, EmptyTrash, Visiting, Visited, Steps, Removing, UnderWay
<1>18. ASSUME NEW d \in Deletes, Forget(d) PROVE Typed'
  <2>1. CASE deletion' = [deletion EXCEPT ![d] = NoDeletion] /\ Works /\ Visited(d)
    <3>1. NoDeletion \in Deletion
      BY DEF NoDeletion, Deletion
    <3>2. deletion' \in [Deletes -> Deletion]
          /\ \A e \in Deletes : deletion'[e] = IF e = d THEN NoDeletion ELSE deletion[e]
      BY <2>1, <3>1
    <3> QED
      BY <1>18, <2>1, <3>2 DEF Forget, Visited, UnderWay
  <2>2. CASE UNCHANGED deletion /\ Fault("move") /\ Fail
    BY <1>18, <2>2, FailTyped DEF Forget
  <2> QED
    BY <1>18, <2>1, <2>2 DEF Forget
<1>19. ASSUME NEW d \in Deletes, Close(d) PROVE Typed'
  <2>1. deletion[d].of \in Profiles
    BY <1>19 DEF Close, Visiting
  <2>2. ASSUME NEW p \in Profiles, p = deletion[d].of PROVE Typed'
    <3>1. CASE SaveDeletion(d, p, "committed", FALSE) /\ Works /\ Visited(d)
      BY <1>19, <3>1, DeletionTyped DEF Close, Visited, UnderWay
    <3>2. CASE UNCHANGED deletion /\ Fault("journal") /\ Fail
      BY <1>19, <3>2, FailTyped DEF Close
    <3>3. CASE SaveDeletion(d, p, "committed", FALSE) /\ Fault("sync") /\ Fail
      BY <1>19, <3>3, DeletionTyped, FailTyped DEF Close
    <3> QED
      BY <1>19, <2>2, <3>1, <3>2, <3>3 DEF Close
  <2> QED
    BY <2>1, <2>2
<1>20. ASSUME Crash PROVE Typed'
  <2>1. faults' \in Seq(FaultKinds) /\ crashes' \in 0..MaxCrashes
    BY <1>20 DEF Crash
  <2> QED
    BY <1>20, <2>1 DEF Crash, Done, Steps, Removing, UnderWay
<1>21. ASSUME Start \/ CreationsReconciled \/ Started PROVE Typed'
  BY <1>21 DEF Start, CreationsReconciled, Started, UnderWay, Unfinished
<1>22. CASE UNCHANGED vars
  BY <1>22 DEF vars, UnderWay
<1> QED
  BY <1>1, <1>2, <1>3, <1>4, <1>5, <1>6, <1>8, <1>9, <1>10, <1>11, <1>12, <1>13,
     <1>14, <1>15, <1>16, <1>17, <1>18, <1>19, <1>20, <1>21, <1>22
     DEF Next, CodeStep, CreateStep, DeleteStep, ReconcileStep

LEMMA TypedInitially == Init => Typed
<1> SUFFICES ASSUME Init PROVE Typed
  OBVIOUS
<1>1. NoDeletion \in Deletion
  BY DEF NoDeletion, Deletion
<1>2. faults \in Seq(FaultKinds) /\ crashes \in 0..MaxCrashes
  BY CatalogAssumption DEF Init
<1>3. TypeOK
  BY <1>1, <1>2, CatalogAssumption DEF Init, TypeOK, Steps
<1> QED
  BY <1>3, CatalogAssumption DEF Init, Typed, UnderWay, RecordsName, Removing

\* Registry, journals, staging, trash and the operation under way keep their
\* types, for any number of profiles, deletions, failures and deaths.
THEOREM TypeCorrect == Spec => []TypeOK
<1>1. Typed => TypeOK
  BY DEF Typed
<1> QED
  BY <1>1, TypedInitially, TypeStep, PTL DEF Spec
----------------------------------------------------------------------------
(* What is listed is stored. Every directory that a deletion takes away is *)
(* in the trash under a record that says whose it is, until the registry   *)
(* no longer lists it, in the file and in memory.                          *)

\* The profile can be brought back: it is in place, or in the trash of a deletion
\* of this profile that was only intended.
Stored(p) ==
    \/ p \in database
    \/ \E d \in Deletes : trash[d] = p /\ deletion[d].of = p /\ deletion[d].phase = "prepared"

\* What the registry or its copy in memory lists is stored; what only the file
\* lists is in place.
Listed ==
    \A p \in Profiles :
        /\ known[p] # Absent \/ registry[p] # Absent => Stored(p)
        /\ known[p] = Absent /\ registry[p] # Absent => p \in database

\* What each step of a creation or a deletion finds.
Expected ==
    /\ step \in {"publish_journal", "register", "commit"} => target \in database
    /\ step \in {"reconcile", "intend"} =>
          deletion[del] = NoDeletion \/ deletion[del].of = target
    /\ step \in {"intend", "discard", "unregister", "take_back"} => known[target] # Absent
    /\ step \in Removing \ {"reconcile", "intend"} => deletion[del].of = target
    /\ step \in {"discard", "unregister", "take_back"} => deletion[del].phase = "prepared"
    /\ step \in {"unregister", "take_back", "record"} =>
          trash[del] = target /\ target \notin database
    /\ step \in {"record", "clean", "claim"} =>
          known[target] = Absent /\ registry[target] = Absent

OpenIsListed == active # NoProfile => known[active] # Absent /\ active \in database

StoredInv == Typed /\ Listed /\ Expected /\ OpenIsListed

\* Steps that leave the registry and the directories alone.
LEMMA NothingMoves ==
    ASSUME StoredInv, Typed', Expected', UNCHANGED <<registry, known, database, deletion, trash>>,
           active' \in {active, NoProfile}
    PROVE  StoredInv'
BY DEF StoredInv, Listed, Stored, OpenIsListed

\* An operation that ends where it is.
LEMMA StopsHere ==
    ASSUME StoredInv, Typed', step' = "idle", UNCHANGED <<registry, known, database, deletion, trash>>,
           active' \in {active, NoProfile}
    PROVE  StoredInv'
BY NothingMoves DEF Expected, Removing

\* A visit to a deletion: only a deletion that is tried again may be under way.
LEMMA Visits ==
    ASSUME StoredInv, NEW d \in Deletes, Visiting(d)
    PROVE  step \in {"idle", "reconcile"} /\ deletion[d].of \in Profiles
BY DEF StoredInv, Typed, UnderWay, RecordsName, Visiting

LEMMA StoredStep == StoredInv /\ Typed' /\ [Next]_vars => StoredInv'
<1> SUFFICES ASSUME StoredInv, Typed', [Next]_vars PROVE StoredInv'
  OBVIOUS
<1>0. /\ registry \in [Profiles -> Names \cup {Absent}] /\ known \in [Profiles -> Names \cup {Absent}]
      /\ deletion \in [Deletes -> Deletion] /\ trash \in [Deletes -> Profiles \cup {NoProfile}]
      /\ database \subseteq Profiles /\ Absent \notin Names /\ FirstName \in Names
      /\ Typed /\ Listed /\ Expected /\ OpenIsListed
      /\ active \in Profiles \cup {NoProfile} /\ NoProfile \notin Profiles
  BY CatalogAssumption DEF StoredInv, Typed, TypeOK
<1>u. /\ step # "idle" => target \in Profiles
      /\ step \in Removing => del \in Deletes /\ mode = "running"
      /\ mode = "down" => step = "idle" /\ active = NoProfile
  BY DEF StoredInv, Typed, UnderWay
<1>a. ASSUME Fail PROVE step' = "idle" /\ known' = known /\ active' \in {active, NoProfile}
  BY <1>0, <1>a, FailEnds
<1>1. ASSUME NEW p \in Profiles, NEW n \in Names, Rename(p, n) PROVE StoredInv'
  <2>1. /\ step = "idle" /\ step' = "idle" /\ known[p] # Absent /\ active' = active
        /\ UNCHANGED <<database, deletion, trash>>
        /\ known' \in {known, [known EXCEPT ![p] = n]}
        /\ registry' \in {registry, [known EXCEPT ![p] = n]}
        /\ known' = known \/ registry' = known'
    BY <1>1 DEF Rename, Ready, Registered, Adopt, work, deleteFiles
  <2>2. \A q \in Profiles : (known'[q] # Absent <=> known[q] # Absent)
    BY <1>0, <2>1
  <2>3. \A q \in Profiles : registry'[q] # Absent => registry[q] # Absent \/ known[q] # Absent
    BY <1>0, <2>1
  <2> QED
    BY <1>0, <2>1, <2>2, <2>3 DEF StoredInv, Listed, Stored, Expected, OpenIsListed, Removing
<1>2. ASSUME NEW p \in Profiles, Activate(p) PROVE StoredInv'
  BY <1>0, <1>2 DEF Activate, Ready, Registered, work, deleteFiles, StoredInv, Listed, Stored,
                    Expected, OpenIsListed
<1>3. ASSUME NEW p \in Profiles, Request(p) \/ RequestAgain(p) \/ Resume(p) PROVE StoredInv'
  <2>1. Expected'
    BY <1>3 DEF Request, RequestAgain, Resume, Enter, Expected, Removing
  <2> QED
    BY <1>3, <2>1, NothingMoves DEF Request, RequestAgain, Resume, Enter, deleteFiles
<1>4. ASSUME NEW d \in Deletes, NEW p \in Profiles, Delete(d, p) PROVE StoredInv'
  <2>1. Expected'
    BY <1>4 DEF Delete, Enter, Expected, Removing, Registered, deleteFiles
  <2> QED
    BY <1>4, <2>1, NothingMoves DEF Delete, Enter, deleteFiles
<1>5. ASSUME CopyBackup \/ Prepare \/ MakeStage \/ Bootstrap \/ MarkPublished PROVE StoredInv'
  <2>1. UNCHANGED <<registry, database, deletion, trash>>
    BY <1>5 DEF CopyBackup, Prepare, MakeStage, Bootstrap, MarkPublished, deleteFiles
  <2>2. \/ Fail
        \/ Goto("prepare") \/ Goto("stage") \/ Goto("bootstrap") \/ Goto("publish")
        \/ Goto("publish_journal") /\ target \in database
        \/ Goto("register") /\ step = "publish_journal"
    BY <1>5 DEF CopyBackup, Prepare, MakeStage, Bootstrap, MarkPublished, SaveJournal, InPlace
  <2>3. CASE Fail
    BY <1>a, <2>1, <2>3, StopsHere
  <2>4. CASE ~Fail
    <3>1. Expected' /\ known' = known /\ active' = active
      BY <1>0, <2>1, <2>2, <2>4 DEF Goto, Expected, Removing
    <3> QED
      BY <2>1, <3>1, NothingMoves
  <2> QED
    BY <2>3, <2>4
<1>6. ASSUME Publish PROVE StoredInv'
  <2>1. UNCHANGED <<registry, deletion, trash>> /\ database' \in {database, database \cup {target}}
    BY <1>6 DEF Publish, deleteFiles
  <2>2. Listed'
    BY <1>0, <1>a, <1>6, <2>1 DEF Publish, Goto, Listed, Stored
  <2>3. Expected' /\ OpenIsListed'
    BY <1>0, <1>a, <1>6, <2>1 DEF Publish, Goto, Expected, Removing, OpenIsListed
  <2> QED
    BY <2>2, <2>3 DEF StoredInv
<1>7. ASSUME Register PROVE StoredInv'
  <2>1. step = "register" /\ target \in Profiles /\ target \in database
        /\ UNCHANGED <<database, deletion, trash>>
    BY <1>0, <1>u, <1>7 DEF Register, Expected, deleteFiles
  <2> DEFINE next == [known EXCEPT ![target] = FirstName]
  <2>2. /\ known' \in {known, next} /\ registry' \in {registry, next}
        /\ known' # known \/ registry' # registry => known[target] = Absent
        /\ known' # known => registry' = next
        /\ step' = "idle" \/ (step' = "commit" /\ target' = target)
        /\ active' \in {active, NoProfile}
    BY <1>a, <1>7 DEF Register, SaveRegistry, Adopt, Goto
  <2>3. \A p \in Profiles : next[p] = IF p = target THEN FirstName ELSE known[p]
    BY <1>0
  <2> HIDE DEF next
  <2>4. Listed' /\ OpenIsListed'
    BY <1>0, <2>1, <2>2, <2>3 DEF Listed, Stored, OpenIsListed
  <2>5. Expected'
    BY <2>1, <2>2 DEF Expected, Removing
  <2> QED
    BY <2>4, <2>5 DEF StoredInv
<1>8. ASSUME Commit PROVE StoredInv'
  <2>1. step' = "idle" /\ active' \in {active, NoProfile}
        /\ UNCHANGED <<registry, known, database, deletion, trash>>
    BY <1>a, <1>8 DEF Commit, Answer, Done, deleteFiles
  <2> QED
    BY <2>1, StopsHere
<1>9. ASSUME Reconciled PROVE StoredInv'
  <2>1. UNCHANGED <<registry, database, deletion, trash>>
    BY <1>9 DEF Reconciled, deleteFiles
  <2>2. CASE Fail
    BY <1>a, <2>1, <2>2, StopsHere
  <2>3. CASE Registered(target) /\ Goto("intend")
    <3>1. Expected'
      BY <1>0, <1>9, <2>1, <2>3 DEF Reconciled, Goto, Expected, Removing, Registered
    <3> QED
      BY <2>1, <2>3, <3>1, NothingMoves DEF Goto
  <2> QED
    BY <1>9, <2>2, <2>3 DEF Reconciled
<1>10. ASSUME Intend PROVE StoredInv'
  <2>1. step = "intend" /\ del \in Deletes /\ target \in Profiles
        /\ UNCHANGED <<registry, database, trash>>
    BY <1>u, <1>10 DEF Intend, Removing
  <2>2. deletion[del] = NoDeletion \/ deletion[del].of = target
    BY <1>0, <2>1 DEF Expected, Removing
  <2>3. CASE UNCHANGED deletion /\ Fail
    BY <1>a, <2>1, <2>3, StopsHere
  <2>4. CASE SaveDeletion(del, target, "prepared", TRUE)
    <3>1. /\ deletion'[del].of = target /\ deletion'[del].phase = "prepared"
          /\ \A d \in Deletes \ {del} : deletion'[d] = deletion[d]
      BY <1>0, <2>1, <2>4 DEF SaveDeletion
    <3>2. known' = known /\ active' \in {active, NoProfile}
          /\ (step' = "idle" \/ (step' = "discard" /\ UNCHANGED <<target, del>>))
      BY <1>a, <1>10, <2>4 DEF Intend, Goto
    <3>3. \A p \in Profiles : Stored(p) => Stored(p)'
      BY <2>1, <2>2, <3>1 DEF Stored, NoDeletion
    <3>4. Listed'
      BY <1>0, <2>1, <3>2, <3>3 DEF Listed
    <3>5. Expected' /\ OpenIsListed'
      BY <1>0, <2>1, <3>1, <3>2 DEF Expected, Removing, OpenIsListed
    <3> QED
      BY <3>4, <3>5 DEF StoredInv
  <2> QED
    BY <1>10, <2>3, <2>4 DEF Intend
<1>11. ASSUME Discard PROVE StoredInv'
  <2>1. step = "discard" /\ del \in Deletes /\ target \in Profiles
        /\ UNCHANGED <<registry, deletion>>
        /\ deletion[del].of = target /\ deletion[del].phase = "prepared" /\ known[target] # Absent
    BY <1>0, <1>u, <1>11 DEF Discard, Removing, Expected
  <2>2. CASE UNCHANGED <<trash, database>> /\ Fail
    BY <1>a, <2>1, <2>2, StopsHere
  <2>3. CASE /\ target \in database /\ trash[del] = NoProfile
             /\ trash' = [trash EXCEPT ![del] = target] /\ database' = database \ {target}
             /\ Closed(target) /\ known' = known
             /\ (step' = "idle" \/ (step' = "unregister" /\ UNCHANGED <<target, del>>))
    <3>1. trash'[del] = target /\ \A d \in Deletes \ {del} : trash'[d] = trash[d]
      BY <1>0, <2>1, <2>3
    <3>2. \A p \in Profiles : Stored(p) => Stored(p)'
      BY <2>1, <2>3, <3>1 DEF Stored
    <3>3. Listed'
      BY <1>0, <2>1, <2>3, <3>2 DEF Listed
    <3>4. Expected' /\ OpenIsListed'
      BY <1>0, <2>1, <2>3, <3>1 DEF Expected, Removing, OpenIsListed, Closed
    <3> QED
      BY <3>3, <3>4 DEF StoredInv
  <2> QED
    BY <1>11, <2>2, <2>3 DEF Discard, Done
<1>12. ASSUME Unregister PROVE StoredInv'
  <2> DEFINE next == [known EXCEPT ![target] = Absent]
  <2>1. step = "unregister" /\ target \in Profiles /\ target \notin database
        /\ del \in Deletes /\ known[target] # Absent
        /\ UNCHANGED <<database, deletion, trash, target, del, active>>
    BY <1>0, <1>u, <1>12 DEF Unregister, Removing, Expected, Goto, deleteFiles
  <2>2. /\ known' \in {known, next} /\ registry' \in {registry, next}
        /\ \/ known' = known /\ step' = "take_back"
           \/ known' = next /\ registry' = next /\ step' = "record"
    BY <1>12 DEF Unregister, Adopt, Goto
  <2>3. \A p \in Profiles : next[p] = IF p = target THEN Absent ELSE known[p]
    BY <1>0
  <2> HIDE DEF next
  <2>4. Listed' /\ OpenIsListed'
    BY <1>0, <2>1, <2>2, <2>3 DEF Listed, Stored, OpenIsListed
  <2>5. Expected'
    BY <1>0, <2>1, <2>2, <2>3 DEF Expected, Removing
  <2> QED
    BY <2>4, <2>5 DEF StoredInv
<1>13. ASSUME TakeBack PROVE StoredInv'
  <2>1. step = "take_back" /\ target \in Profiles /\ del \in Deletes /\ known[target] # Absent
        /\ trash[del] = target /\ deletion[del].of = target
        /\ UNCHANGED <<registry, known, deletion>> /\ step' = "idle"
    BY <1>0, <1>u, <1>13 DEF TakeBack, Removing, Expected, Done
  <2>2. \/ trash' = [trash EXCEPT ![del] = NoProfile] /\ database' = database \cup {target}
        \/ UNCHANGED <<trash, database>>
    BY <1>13 DEF TakeBack
  <2>3. \A p \in Profiles : Stored(p) => Stored(p)'
    BY <1>0, <2>1, <2>2 DEF Stored
  <2>4. database \subseteq database'
    BY <2>2
  <2>5. Listed' /\ Expected'
    BY <1>0, <2>1, <2>3, <2>4 DEF Listed, Expected, Removing
  <2>6. OpenIsListed'
    BY <1>0, <1>13, <2>1, <2>4 DEF TakeBack, OpenIsListed
  <2> QED
    BY <2>5, <2>6 DEF StoredInv
<1>14. ASSUME RecordDeletion \/ Clean \/ Claim PROVE StoredInv'
  <2>1. step \in {"record", "clean", "claim"} /\ target \in Profiles /\ del \in Deletes
        /\ known[target] = Absent /\ registry[target] = Absent
        /\ UNCHANGED <<registry, known, database>> /\ active' \in {active, NoProfile}
    BY <1>0, <1>a, <1>u, <1>14
       DEF RecordDeletion, Clean, Claim, Removing, Expected, Goto, Answer
  <2>2. /\ deletion' = deletion
           \/ deletion' = [deletion EXCEPT ![del] = [of |-> target, phase |-> "committed", pending |-> TRUE]]
           \/ deletion' = [deletion EXCEPT ![del] = [of |-> target, phase |-> "committed", pending |-> FALSE]]
        /\ trash' = trash \/ (step = "clean" /\ trash' = [trash EXCEPT ![del] = NoProfile])
        /\ step' = "idle" \/ (step' \in {"clean", "claim"} /\ target' = target)
    BY <1>a, <1>14 DEF RecordDeletion, Clean, Claim, SaveDeletion, Emptied, Goto, Answer, Done
  <2>3. \A d \in Deletes \ {del} : deletion'[d] = deletion[d] /\ trash'[d] = trash[d]
    BY <1>0, <2>1, <2>2
  <2>4. deletion[del].of = target
        /\ (deletion' # deletion => deletion'[del].of = target)
    BY <1>0, <2>1, <2>2 DEF Expected, Removing
  <2>5. \A p \in Profiles : p # target /\ Stored(p) => Stored(p)'
    BY <2>1, <2>3, <2>4 DEF Stored
  <2>6. Listed' /\ OpenIsListed'
    BY <1>0, <2>1, <2>5 DEF Listed, OpenIsListed
  <2>7. del' = del \/ step' = "idle"
    BY <1>a, <1>14 DEF RecordDeletion, Clean, Claim, Goto, Answer, Done
  <2>8. Expected'
    BY <2>1, <2>2, <2>4, <2>7 DEF Expected, Removing
  <2> QED
    BY <2>6, <2>8 DEF StoredInv
<1>15. ASSUME NEW d \in Deletes, PutBack(d) PROVE StoredInv'
  <2>1. step \in {"idle", "reconcile"} /\ deletion[d].of \in Profiles
        /\ UNCHANGED <<registry, deletion>>
    BY <1>15, Visits DEF PutBack
  <2>2. CASE UNCHANGED <<database, trash>> /\ Fail
    BY <1>a, <2>1, <2>2, StopsHere
  <2>3. CASE /\ database' = database \cup {deletion[d].of}
             /\ trash' = [trash EXCEPT ![d] = NoProfile]
             /\ UNCHANGED <<work, active, mode, visits, crashes, known>>
    <3>1. \A p \in Profiles : Stored(p) => Stored(p)'
      BY <1>0, <2>1, <2>3 DEF Stored
    <3>2. Listed' /\ OpenIsListed'
      BY <1>0, <2>1, <2>3, <3>1 DEF Listed, OpenIsListed
    <3>3. Expected'
      BY <1>0, <2>1, <2>3 DEF Expected, Removing, work
    <3> QED
      BY <3>2, <3>3 DEF StoredInv
  <2> QED
    BY <1>15, <2>2, <2>3 DEF PutBack
<1>16. ASSUME NEW d \in Deletes, Forget(d) PROVE StoredInv'
  <2>1. step \in {"idle", "reconcile"} /\ deletion[d].of \in Profiles
        /\ UNCHANGED <<registry, database, trash>> /\ ~Misplaced(d)
    BY <1>16, Visits DEF Forget, deleteFiles
  <2>2. CASE UNCHANGED deletion /\ Fail
    BY <1>a, <2>1, <2>2, StopsHere
  <2>3. CASE deletion' = [deletion EXCEPT ![d] = NoDeletion] /\ Visited(d)
    <3>1. deletion'[d] = NoDeletion /\ \A e \in Deletes \ {d} : deletion'[e] = deletion[e]
      BY <1>0, <2>3
    <3>2. \A p \in Profiles : Stored(p) => Stored(p)'
      BY <1>0, <2>1, <3>1 DEF Stored, Misplaced
    <3>3. Listed' /\ OpenIsListed'
      BY <1>0, <2>1, <2>3, <3>2 DEF Listed, OpenIsListed, Visited
    <3>4. Expected'
      BY <1>0, <1>u, <2>1, <2>3, <3>1 DEF Expected, Removing, work, Visited
    <3> QED
      BY <3>3, <3>4 DEF StoredInv
  <2> QED
    BY <1>16, <2>2, <2>3 DEF Forget
<1>17. ASSUME NEW d \in Deletes, EmptyTrash(d) \/ Close(d) PROVE StoredInv'
  <2> DEFINE q == deletion[d].of
  <2>1. step \in {"idle", "reconcile"} /\ q \in Profiles /\ known[q] = Absent
        /\ UNCHANGED <<registry, database>>
    BY <1>17, Visits DEF EmptyTrash, Close, Registered
  <2>2. known' = known /\ active' \in {active, NoProfile}
        /\ (step' = "idle" \/ UNCHANGED <<step, target, del>>)
    BY <1>a, <1>17 DEF EmptyTrash, Close, Visited, work
  <2>3. /\ deletion' = deletion
           \/ deletion' = [deletion EXCEPT ![d] = [of |-> q, phase |-> "committed", pending |-> FALSE]]
        /\ trash' = trash \/ trash' = [trash EXCEPT ![d] = NoProfile]
    BY <1>17 DEF EmptyTrash, Close, SaveDeletion
  <2>4. deletion'[d].of = q /\ \A e \in Deletes \ {d} : deletion'[e] = deletion[e] /\ trash'[e] = trash[e]
    BY <1>0, <2>3
  <2>5. \A p \in Profiles : Stored(p) /\ p # q => Stored(p)'
    BY <2>1, <2>4 DEF Stored
  <2>6. registry[q] # Absent => q \in database
    BY <1>0, <2>1 DEF Listed
  <2>7. \A p \in database : Stored(p)'
    BY <2>1 DEF Stored
  <2>8. Listed'
    BY <1>0, <2>1, <2>2, <2>5, <2>6, <2>7 DEF Listed
  <2>9. OpenIsListed'
    BY <1>0, <2>1, <2>2 DEF OpenIsListed
  <2>10. Expected'
    <3>1. CASE d = del
      BY <1>0, <1>u, <2>1, <2>2, <2>4, <3>1 DEF Expected, Removing, NoDeletion
    <3>2. CASE d # del
      BY <1>0, <1>u, <2>1, <2>2, <2>4, <3>2 DEF Expected, Removing
    <3> QED BY <3>1, <3>2
  <2> QED
    BY <2>8, <2>9, <2>10 DEF StoredInv
<1>18. ASSUME Crash PROVE StoredInv'
  BY <1>18, StopsHere DEF Crash, Done, deleteFiles
<1>19. ASSUME Start PROVE StoredInv'
  <2>1. step = "idle" /\ active = NoProfile /\ known' = registry
        /\ UNCHANGED <<registry, database, deletion, trash, active, step>>
    BY <1>u, <1>19 DEF Start, deleteFiles, work
  <2> QED
    BY <1>0, <2>1 DEF StoredInv, Listed, Stored, Expected, OpenIsListed, Removing
<1>20. ASSUME CreationsReconciled \/ Started PROVE StoredInv'
  <2>1. UNCHANGED <<registry, known, database, deletion, trash, active, work>>
    BY <1>20 DEF CreationsReconciled, Started, deleteFiles
  <2> QED
    BY <1>0, <2>1, NothingMoves DEF Expected, Removing, work
<1>21. CASE UNCHANGED vars
  BY <1>0, <1>21, NothingMoves DEF vars, Expected, Removing
<1> QED
  BY <1>1, <1>2, <1>3, <1>4, <1>5, <1>6, <1>7, <1>8, <1>9, <1>10, <1>11, <1>12, <1>13,
     <1>14, <1>15, <1>16, <1>17, <1>18, <1>19, <1>20, <1>21
     DEF Next, CodeStep, CreateStep, DeleteStep, ReconcileStep

LEMMA StoredInitially == Init => StoredInv
<1> SUFFICES ASSUME Init PROVE StoredInv
  OBVIOUS
<1>1. Listed /\ Expected /\ OpenIsListed
  BY CatalogAssumption DEF Init, Listed, Expected, Removing, OpenIsListed
<1> QED
  BY <1>1, TypedInitially DEF StoredInv

LEMMA StoredAlways == Spec => [](StoredInv /\ Typed)
<1>1. Init => StoredInv /\ Typed
  BY StoredInitially, TypedInitially
<1>2. (StoredInv /\ Typed) /\ [Next]_vars => (StoredInv /\ Typed)'
  BY StoredStep, TypeStep
<1> QED
  BY <1>1, <1>2, PTL DEF Spec

\* Whatever was interrupted, a listed profile has its whole database in place, or
\* in the trash under the record that brings it back, and what is open is listed.
THEOREM WholeIsListed == Spec => []ListedIsWhole
<1>1. StoredInv => ListedIsWhole
  BY DEF StoredInv, Listed, Stored, OpenIsListed, ListedIsWhole, Registered, Kept, Typed, TypeOK
<1> QED
  BY <1>1, StoredAlways, PTL
----------------------------------------------------------------------------
(* While records are written and syncs succeed, the registry in memory is  *)
(* the one on disk, a deleted profile's creation is recorded as committed, *)
(* and a listed profile that is not recorded so is taken up by the next    *)
(* start before anybody can delete it.                                     *)

\* The journal of the profile a creation is about.
Journalled ==
    /\ step \in {"copy", "prepare"} => journal[target] = "none"
    /\ step \in Building => journal[target] \in {"prepared", "published"}
    /\ step \in {"register", "commit"} => journal[target] = "published"
    /\ step = "commit" => known[target] = FirstName

\* A listed profile whose creation is not recorded as committed is about to be:
\* by the step under way, or by the next start before it does anything else.
Resumed(p) ==
    \/ mode = "down"
    \/ mode = "creations" /\ p \in creations
    \/ mode = "running" /\ step = "commit" /\ target = p

CommittedOrResumed ==
    \A p \in Profiles :
        known[p] # Absent => journal[p] = "committed" \/ (journal[p] = "published" /\ Resumed(p))

\* A start takes up every unfinished creation, and nothing else.
Pending ==
    /\ mode = "creations" => \A p \in Profiles : Unfinished(p) => p \in creations
    /\ \A p \in creations : mode = "creations" /\ Unfinished(p)

AsPromised ==
    /\ known = registry
    /\ \A p \in Profiles : promised[p] # Absent => known[p] = promised[p]
    /\ \A p \in gone : known[p] = Absent /\ p \notin database /\ journal[p] = "committed"
    /\ CommittedOrResumed

PromiseInv == Journalled /\ Pending /\ (Orderly => AsPromised)

\* Failures are only appended, so an orderly history was orderly before.
LEMMA StaysOrderly ==
    ASSUME faults \in Seq(FaultKinds), Orderly',
           faults' = faults \/ \E kind \in FaultKinds : Fault(kind)
    PROVE  /\ Orderly
           /\ \A kind \in FaultKinds : Fault(kind) => kind \in {"registry", "move"}
<1>1. CASE faults' = faults
  <2>1. \A kind \in FaultKinds : ~Fault(kind)
    BY <1>1, AppendProperties DEF Fault
  <2> QED
    BY <1>1, <2>1 DEF Orderly
<1>2. ASSUME NEW kind \in FaultKinds, Fault(kind)
      PROVE  /\ Orderly
             /\ \A k \in FaultKinds : Fault(k) => k \in {"registry", "move"}
  <2>1. /\ Len(faults') = Len(faults) + 1 /\ Len(faults) \in Nat
        /\ DOMAIN faults = 1..Len(faults) /\ DOMAIN faults' = 1..Len(faults')
        /\ \A i \in 1..Len(faults) : faults'[i] = faults[i]
        /\ \A k \in FaultKinds : Fault(k) => faults'[Len(faults) + 1] = k
    BY <1>2, AppendProperties DEF Fault
  <2>2. Len(faults) + 1 \in DOMAIN faults' /\ \A i \in DOMAIN faults : i \in DOMAIN faults'
    BY <2>1
  <2> QED
    BY <2>1, <2>2 DEF Orderly
<1> QED
  BY <1>1, <1>2

\* Steps that leave journals, promises and the registry alone, and put no
\* deleted profile's directory back.
LEMMA PromisesUntouched ==
    ASSUME PromiseInv, Orderly' => Orderly, Journalled', Pending',
           UNCHANGED <<registry, known, journal, promised, gone>>,
           Orderly => \A p \in gone : p \in database' => p \in database \/ known[p] # Absent,
           \A p \in Profiles : Resumed(p) /\ journal[p] = "published" => Resumed(p)'
    PROVE  PromiseInv'
BY DEF PromiseInv, AsPromised, CommittedOrResumed

\* An error that changes no record. It is the end of a start, or the answer to a
\* caller who was not about to commit.
LEMMA ErrorPromises ==
    ASSUME Typed, PromiseInv, Fail, Orderly' => Orderly,
           step = "commit" => ~Orderly',
           UNCHANGED <<registry, journal, promised, gone>>,
           Orderly => \A p \in gone : p \in database' => p \in database \/ known[p] # Absent
    PROVE  PromiseInv'
<1>1. /\ step' = "idle" /\ known' = known
      /\ \/ mode = "running" /\ mode' = "running" /\ creations' = creations
         \/ mode' = "down" /\ creations' = {}
  BY FailEnds
<1>2. Journalled' /\ Pending'
  BY <1>1 DEF PromiseInv, Journalled, Pending, Building, Unfinished
<1>3. CASE step # "commit"
  <2>1. \A p \in Profiles : Resumed(p) => Resumed(p)'
    BY <1>1, <1>3 DEF Resumed
  <2> QED
    BY <1>1, <1>2, <2>1, PromisesUntouched
<1>4. CASE step = "commit"
  BY <1>2, <1>4 DEF PromiseInv
<1> QED
  BY <1>3, <1>4

\* Every step lets the file operation it makes work, or fail once.
LEMMA FaultsAppended ==
    ASSUME Typed, [Next]_vars
    PROVE  faults' = faults \/ \E kind \in FaultKinds : Fault(kind)
<1> USE DEF Works, FaultKinds, vars
<1>1. ASSUME CreateStep PROVE faults' = faults \/ \E kind \in FaultKinds : Fault(kind)
  BY <1>1 DEF CreateStep, CopyBackup, Prepare, MakeStage, Bootstrap, Publish, MarkPublished,
              Register, Commit, SaveJournal, SaveRegistry
<1>2. ASSUME DeleteStep PROVE faults' = faults \/ \E kind \in FaultKinds : Fault(kind)
  BY <1>2 DEF DeleteStep, Reconciled, Intend, Discard, Unregister, TakeBack, RecordDeletion,
              Clean, Claim
<1>3. ASSUME ReconcileStep PROVE faults' = faults \/ \E kind \in FaultKinds : Fault(kind)
  BY <1>3 DEF ReconcileStep, PutBack, Forget, EmptyTrash, Close, Resume, CreationsReconciled, Started
<1>4. ASSUME ~CodeStep PROVE faults' = faults \/ \E kind \in FaultKinds : Fault(kind)
  BY <1>4 DEF Next, Rename, Request, RequestAgain, Activate, Delete, Crash, Start
<1> QED
  BY <1>1, <1>2, <1>3, <1>4 DEF CodeStep

LEMMA PromiseStep == StoredInv /\ PromiseInv /\ Typed' /\ [Next]_vars => PromiseInv'
<1> SUFFICES ASSUME StoredInv, PromiseInv, Typed', [Next]_vars PROVE PromiseInv'
  OBVIOUS
<1>0. /\ registry \in [Profiles -> Names \cup {Absent}] /\ known \in [Profiles -> Names \cup {Absent}]
      /\ journal \in [Profiles -> {"none", "prepared", "published", "committed"}]
      /\ promised \in [Profiles -> Names \cup {Absent}] /\ gone \subseteq Profiles
      /\ database \subseteq Profiles /\ creations \subseteq Profiles
      /\ Absent \notin Names /\ FirstName \in Names
      /\ Typed /\ Expected /\ Journalled /\ Pending
      /\ mode \in {"down", "creations", "deletions", "running"}
  BY CatalogAssumption DEF StoredInv, PromiseInv, Typed, TypeOK
<1>u. /\ step # "idle" => target \in Profiles
      /\ step \in Removing => del \in Deletes /\ mode = "running"
      /\ step \in {"copy", "prepare"} => mode = "running"
      /\ mode = "down" => step = "idle"
      /\ mode = "deletions" => step = "idle"
      /\ mode = "creations" /\ step # "idle" => target \in creations
  BY DEF StoredInv, Typed, UnderWay
<1>o. /\ Orderly' => Orderly
      /\ Orderly' => ~Fault("journal") /\ ~Fault("sync") /\ ~Fault("build")
  <2>1. \A kind \in {"journal", "sync", "build"} : kind \in FaultKinds
    BY DEF FaultKinds
  <2> QED
    BY <1>0, <2>1, FaultsAppended, StaysOrderly DEF Typed, TypeOK
<1>p. Orderly => AsPromised
  BY DEF PromiseInv
<1>r. ASSUME step # "commit", UNCHANGED <<mode, creations>>
      PROVE  \A p \in Profiles : Resumed(p) => Resumed(p)'
  BY <1>r DEF Resumed
<1>1. ASSUME NEW p \in Profiles, NEW n \in Names, Rename(p, n) PROVE PromiseInv'
  <2>1. /\ step = "idle" /\ step' = "idle" /\ known[p] # Absent /\ mode = "running"
        /\ UNCHANGED <<database, journal, mode, creations, gone>>
    BY <1>1 DEF Rename, Ready, Registered, work, visits, createFiles
  <2>2. Journalled' /\ Pending'
    BY <1>0, <2>1 DEF Journalled, Pending, Building, Unfinished
  <2>3. ASSUME Orderly' PROVE AsPromised'
    <3>1. AsPromised
      BY <1>o, <1>p, <2>3
    <3>2. \/ UNCHANGED <<registry, known, promised>>
          \/ /\ known' = [known EXCEPT ![p] = n] /\ registry' = known'
             /\ promised' = [promised EXCEPT ![p] = n]
      BY <1>1, <1>o, <2>3 DEF Rename, Adopt
    <3>3. known' = registry' /\ \A q \in Profiles : promised'[q] # Absent => known'[q] = promised'[q]
      BY <1>0, <3>1, <3>2 DEF AsPromised
    <3>4. \A q \in Profiles : known'[q] # Absent <=> known[q] # Absent
      BY <1>0, <2>1, <3>2
    <3>5. CommittedOrResumed'
      BY <2>1, <3>1, <3>4 DEF AsPromised, CommittedOrResumed, Resumed
    <3> QED
      BY <1>0, <2>1, <3>1, <3>3, <3>4, <3>5 DEF AsPromised
  <2> QED
    BY <2>2, <2>3 DEF PromiseInv
<1>2. ASSUME NEW p \in Profiles, Activate(p) PROVE PromiseInv'
  <2>1. /\ step' = step /\ target' = target
        /\ UNCHANGED <<known, database, journal, mode, creations, promised, gone>>
        /\ registry' = registry \/ registry' = known
    BY <1>2 DEF Activate, work, visits, createFiles, history
  <2> QED
    BY <1>o, <2>1 DEF PromiseInv, Journalled, Pending, AsPromised, CommittedOrResumed, Resumed,
                      Unfinished
<1>3. ASSUME NEW p \in Profiles, Request(p) \/ RequestAgain(p) \/ Resume(p) PROVE PromiseInv'
  <2>1. /\ step = "idle" /\ target' = p
        /\ \/ journal[p] = "none" /\ step' \in {"copy", "prepare"}
           \/ journal[p] \in {"prepared", "published"} /\ step' = "stage"
        /\ UNCHANGED <<registry, known, database, journal, mode, creations, promised, gone>>
    BY <1>0, <1>3 DEF Request, RequestAgain, Resume, Enter, Ready, visits, createFiles, history,
                      Pending, Unfinished
  <2>2. Journalled' /\ Pending'
    BY <1>0, <2>1 DEF Journalled, Pending, Building, Unfinished
  <2> QED
    BY <1>o, <1>r, <2>1, <2>2, PromisesUntouched
<1>4. ASSUME NEW d \in Deletes, NEW p \in Profiles, Delete(d, p) PROVE PromiseInv'
  <2>1. /\ step = "idle" /\ step' \in Removing
        /\ UNCHANGED <<registry, known, database, journal, mode, creations, promised, gone>>
    BY <1>4 DEF Delete, Enter, Ready, visits, createFiles, history, Removing
  <2>2. Journalled' /\ Pending'
    BY <1>0, <2>1 DEF Journalled, Pending, Building, Removing, Unfinished
  <2> QED
    BY <1>o, <1>r, <2>1, <2>2, PromisesUntouched
<1>5. ASSUME CopyBackup \/ MakeStage \/ Bootstrap \/ Publish PROVE PromiseInv'
  <2>1. /\ step \in {"copy", "stage", "bootstrap", "publish"} /\ target \in Profiles
        /\ UNCHANGED <<registry, journal, promised, gone>>
        /\ database' \in {database, database \cup {target}}
        /\ database' # database => step = "publish"
    BY <1>u, <1>5 DEF CopyBackup, MakeStage, Bootstrap, Publish, history
  <2>2. Orderly => \A p \in gone : p \in database' => p \in database
    BY <1>0, <1>p, <2>1 DEF Journalled, Building, AsPromised
  <2>3. CASE Fail
    BY <1>0, <1>o, <2>1, <2>2, <2>3, ErrorPromises
  <2>4. CASE ~Fail
    <3>1. /\ \/ step = "copy" /\ step' = "prepare"
             \/ step # "copy" /\ step' \in {"bootstrap", "publish", "publish_journal"}
          /\ UNCHANGED <<target, known, mode, creations>>
      BY <1>5, <2>4 DEF CopyBackup, MakeStage, Bootstrap, Publish, Goto, visits
    <3>2. Journalled' /\ Pending'
      BY <1>0, <2>1, <3>1 DEF Journalled, Pending, Building, Unfinished
    <3> QED
      BY <1>o, <1>r, <2>1, <2>2, <3>1, <3>2, PromisesUntouched
  <2> QED
    BY <2>3, <2>4
<1>6. ASSUME Prepare \/ MarkPublished PROVE PromiseInv'
  <2>1. /\ target \in Profiles /\ step \in {"prepare", "publish_journal"}
        /\ UNCHANGED <<registry, promised, gone, database>>
        /\ \/ step = "prepare" /\ SaveJournal(target, "prepared", "stage")
           \/ step = "publish_journal" /\ SaveJournal(target, "published", "register")
    BY <1>u, <1>6 DEF Prepare, MarkPublished, history
  <2>2. CASE Fail
    <3>1. /\ step' = "idle" /\ ~Orderly'
          /\ \/ mode = "running" /\ UNCHANGED <<mode, creations>>
             \/ mode' = "down" /\ creations' = {}
      BY <1>0, <1>6, <2>1, <2>2, <1>o, FailEnds DEF SaveJournal, Goto
    <3>2. Journalled' /\ Pending'
      BY <1>0, <3>1 DEF Journalled, Pending, Building
    <3> QED
      BY <3>1, <3>2 DEF PromiseInv
  <2>3. CASE ~Fail
    <3>1. /\ UNCHANGED <<target, known, mode, creations>>
          /\ \/ /\ journal[target] = "none" /\ step = "prepare" /\ step' = "stage"
                /\ journal' = [journal EXCEPT ![target] = "prepared"]
             \/ /\ journal[target] \in {"prepared", "published"}
                /\ step = "publish_journal" /\ step' = "register"
                /\ journal' = [journal EXCEPT ![target] = "published"]
      BY <1>0, <2>1, <2>3 DEF SaveJournal, Recorded, Goto, visits, Journalled, Building
    <3>2. /\ \A p \in Profiles \ {target} : journal'[p] = journal[p]
          /\ journal'[target] = IF step = "prepare" THEN "prepared" ELSE "published"
      BY <1>0, <2>1, <3>1
    <3>3. Journalled'
      BY <2>1, <3>1, <3>2 DEF Journalled, Building
    <3>4. Pending'
      BY <1>0, <1>u, <2>1, <3>1, <3>2 DEF Pending, Unfinished
    <3>5. ASSUME Orderly' PROVE AsPromised'
      <4>1. AsPromised
        BY <1>o, <1>p, <3>5
      <4>2. \A p \in gone : p # target
        BY <3>1, <4>1 DEF AsPromised
      <4>3. CommittedOrResumed'
        BY <1>0, <2>1, <3>1, <3>2, <4>1 DEF AsPromised, CommittedOrResumed, Resumed
      <4> QED
        BY <1>0, <2>1, <3>1, <3>2, <4>1, <4>2, <4>3 DEF AsPromised
    <3> QED
      BY <3>3, <3>4, <3>5 DEF PromiseInv
  <2> QED
    BY <2>2, <2>3
<1>7. ASSUME Register PROVE PromiseInv'
  <2>1. /\ step = "register" /\ target \in Profiles /\ journal[target] = "published"
        /\ UNCHANGED <<journal, promised, gone, database>>
    BY <1>0, <1>u, <1>7 DEF Register, Journalled, createFiles, history
  <2>2. CASE UNCHANGED registry /\ Fail
    BY <1>0, <1>o, <2>1, <2>2, ErrorPromises
  <2>3. CASE Fail /\ Fault("sync")
    <3>1. /\ step' = "idle"
          /\ \/ mode = "running" /\ UNCHANGED <<mode, creations>>
             \/ mode' = "down" /\ creations' = {}
      BY <1>0, <2>3, FailEnds
    <3>2. Journalled' /\ Pending'
      BY <1>0, <2>1, <3>1 DEF Journalled, Pending, Building, Unfinished
    <3> QED
      BY <1>o, <2>3, <3>2 DEF PromiseInv
  <2>4. CASE UNCHANGED registry /\ Goto("commit") /\ known[target] = FirstName
    <3>1. Journalled' /\ Pending'
      BY <1>0, <2>1, <2>4 DEF Journalled, Pending, Building, Unfinished, Goto, visits
    <3> QED
      BY <1>o, <1>r, <2>1, <2>4, <3>1, PromisesUntouched DEF Goto, visits
  <2>5. CASE /\ known[target] = Absent /\ known' = [known EXCEPT ![target] = FirstName]
             /\ registry' = known' /\ step' = "commit" /\ UNCHANGED <<target, mode, creations>>
    <3>1. /\ known'[target] = FirstName
          /\ \A p \in Profiles \ {target} : known'[p] = known[p]
      BY <1>0, <2>1, <2>5
    <3>2. Journalled' /\ Pending'
      BY <1>0, <2>1, <2>5, <3>1 DEF Journalled, Pending, Building, Unfinished
    <3>3. ASSUME Orderly' PROVE AsPromised'
      <4>1. AsPromised
        BY <1>o, <1>p, <3>3
      <4>2. target \notin gone /\ promised[target] = Absent
        BY <2>1, <2>5, <4>1 DEF AsPromised
      <4>3. mode \in {"running", "creations"} /\ (mode = "creations" => target \in creations)
        BY <1>0, <1>u, <2>1
      <4>4. CommittedOrResumed'
        BY <2>1, <2>5, <3>1, <4>1, <4>3 DEF AsPromised, CommittedOrResumed, Resumed
      <4> QED
        BY <1>0, <2>1, <2>5, <3>1, <4>1, <4>2, <4>4 DEF AsPromised
    <3> QED
      BY <3>2, <3>3 DEF PromiseInv
  <2> QED
    BY <1>7, <2>2, <2>3, <2>4, <2>5 DEF Register, SaveRegistry, Adopt, visits
<1>8. ASSUME Commit PROVE PromiseInv'
  <2>1. /\ step = "commit" /\ target \in Profiles /\ known[target] = FirstName
        /\ UNCHANGED <<registry, database, gone>>
    BY <1>0, <1>u, <1>8 DEF Commit, Journalled
  <2>2. CASE Fail /\ (Fault("journal") \/ Fault("sync"))
    <3>1. /\ step' = "idle" /\ ~Orderly'
          /\ \/ mode = "running" /\ UNCHANGED <<mode, creations>>
             \/ mode' = "down" /\ creations' = {}
      BY <1>0, <1>o, <2>2, FailEnds
    <3>2. Journalled' /\ Pending'
      BY <1>0, <3>1 DEF Journalled, Pending, Building
    <3> QED
      BY <3>1, <3>2 DEF PromiseInv
  <2>3. CASE /\ journal' = [journal EXCEPT ![target] = "committed"]
             /\ promised' = IF mode = "running"
                            THEN [promised EXCEPT ![target] = FirstName] ELSE promised
             /\ step' = "idle" /\ UNCHANGED <<known, mode>> /\ creations' = creations \ {target}
    <3>1. /\ journal'[target] = "committed" /\ \A p \in Profiles \ {target} : journal'[p] = journal[p]
          /\ \A p \in Profiles : promised'[p] # Absent => promised'[p] = promised[p] \/ p = target
          /\ promised'[target] \in {promised[target], FirstName}
      BY <1>0, <2>1, <2>3
    <3>2. Journalled' /\ Pending'
      BY <1>0, <2>3, <3>1 DEF Journalled, Pending, Building, Unfinished
    <3>3. ASSUME Orderly' PROVE AsPromised'
      <4>1. AsPromised
        BY <1>o, <1>p, <3>3
      <4>2. CommittedOrResumed'
        BY <1>u, <2>1, <2>3, <3>1, <4>1 DEF AsPromised, CommittedOrResumed, Resumed
      <4>3. \A p \in Profiles : promised'[p] # Absent => known'[p] = promised'[p]
        BY <2>1, <2>3, <3>1, <4>1 DEF AsPromised
      <4>4. \A p \in gone : p \in Profiles /\ journal'[p] = "committed"
        BY <1>0, <3>1, <4>1 DEF AsPromised
      <4> QED
        BY <2>1, <2>3, <4>1, <4>2, <4>3, <4>4 DEF AsPromised
    <3> QED
      BY <3>2, <3>3 DEF PromiseInv
  <2> QED
    BY <1>8, <2>2, <2>3 DEF Commit, Recorded, Answer, Done
<1>9. ASSUME Reconciled \/ Intend \/ Discard \/ RecordDeletion \/ Clean \/ Claim
      PROVE  PromiseInv'
  <2>1. /\ step \in Removing /\ step # "commit" /\ UNCHANGED <<registry, journal, promised, gone>>
        /\ database' \subseteq database
    BY <1>9 DEF Reconciled, Intend, Discard, RecordDeletion, Clean, Claim, Removing, createFiles, history
  <2>2. CASE Fail
    BY <1>0, <1>o, <2>1, <2>2, ErrorPromises
  <2>3. CASE ~Fail
    <3>1. /\ step' \in Removing \cup {"idle"} /\ UNCHANGED <<known, mode, creations>>
      BY <1>9, <2>3 DEF Reconciled, Intend, Discard, RecordDeletion, Clean, Claim, Removing, Goto,
                        Answer, Done, visits
    <3>2. Journalled' /\ Pending'
      BY <1>0, <2>1, <3>1 DEF Journalled, Pending, Building, Removing, Unfinished
    <3> QED
      BY <1>o, <1>r, <2>1, <3>1, <3>2, PromisesUntouched
  <2> QED
    BY <2>2, <2>3
<1>10. ASSUME Unregister PROVE PromiseInv'
  <2>1. /\ step = "unregister" /\ step' \in {"take_back", "record"} /\ target \in Profiles
        /\ known[target] # Absent /\ target \notin database /\ mode = "running"
        /\ UNCHANGED <<database, journal, mode, creations>>
    BY <1>0, <1>u, <1>10 DEF Unregister, Expected, Removing, Goto, visits, createFiles
  <2>2. Journalled' /\ Pending'
    BY <1>0, <2>1 DEF Journalled, Pending, Building, Unfinished
  <2>3. ASSUME Orderly' PROVE AsPromised'
    <3>1. AsPromised
      BY <1>o, <1>p, <2>3
    <3>2. \/ UNCHANGED <<registry, known, promised, gone>>
          \/ /\ known' = [known EXCEPT ![target] = Absent] /\ registry' = known'
             /\ gone' = gone \cup {target} /\ promised' = [promised EXCEPT ![target] = Absent]
      BY <1>10, <1>o, <2>3 DEF Unregister, Adopt, Goto, history
    <3>3. journal[target] = "committed"
      BY <2>1, <3>1 DEF AsPromised, CommittedOrResumed, Resumed
    <3>4. CommittedOrResumed'
      BY <1>0, <2>1, <3>1, <3>2 DEF AsPromised, CommittedOrResumed, Resumed
    <3> QED
      BY <1>0, <2>1, <3>1, <3>2, <3>3, <3>4 DEF AsPromised
  <2> QED
    BY <2>2, <2>3 DEF PromiseInv
<1>11. ASSUME TakeBack PROVE PromiseInv'
  <2>1. /\ step = "take_back" /\ step' = "idle" /\ target \in Profiles /\ known[target] # Absent
        /\ UNCHANGED <<registry, known, journal, gone, mode, creations>>
        /\ database' \subseteq database \cup {target}
        /\ promised' = [promised EXCEPT ![target] = known[target]]
    BY <1>0, <1>u, <1>11 DEF TakeBack, Expected, Removing, Done, createFiles
  <2>2. Journalled' /\ Pending'
    BY <1>0, <2>1 DEF Journalled, Pending, Building, Unfinished
  <2>3. CommittedOrResumed => CommittedOrResumed'
    BY <2>1 DEF CommittedOrResumed, Resumed
  <2> QED
    BY <1>0, <1>o, <2>1, <2>2, <2>3 DEF PromiseInv, AsPromised
<1>12. ASSUME NEW d \in Deletes, PutBack(d) \/ Forget(d) \/ EmptyTrash(d) \/ Close(d)
       PROVE  PromiseInv'
  <2>1. /\ step \in {"idle", "reconcile"} /\ deletion[d].of \in Profiles
        /\ UNCHANGED <<registry, journal, promised, gone>>
        /\ database' = database \/ (database' = database \cup {deletion[d].of} /\ known[deletion[d].of] # Absent)
    BY <1>12, Visits DEF PutBack, Forget, EmptyTrash, Close, Registered, createFiles, history
  <2>2. CASE Fail
    BY <1>0, <1>o, <2>1, <2>2, ErrorPromises
  <2>3. CASE ~Fail
    <3>1. UNCHANGED <<step, known, mode, creations>>
      BY <1>12, <2>3 DEF PutBack, Forget, EmptyTrash, Close, Visited, work, visits
    <3>2. Journalled' /\ Pending'
      BY <1>0, <2>1, <3>1 DEF Journalled, Pending, Building, Unfinished
    <3> QED
      BY <1>o, <1>r, <2>1, <3>1, <3>2, PromisesUntouched
  <2> QED
    BY <2>2, <2>3
<1>13. ASSUME Crash PROVE PromiseInv'
  <2>1. /\ step' = "idle" /\ mode' = "down" /\ creations' = {}
        /\ UNCHANGED <<registry, known, journal, promised, gone, database>>
    BY <1>13 DEF Crash, Done, createFiles, history
  <2>2. Journalled' /\ Pending' /\ \A p \in Profiles : Resumed(p)'
    BY <2>1 DEF Journalled, Pending, Building, Resumed
  <2> QED
    BY <1>o, <2>1, <2>2, PromisesUntouched
<1>14. ASSUME Start PROVE PromiseInv'
  <2>1. /\ step = "idle" /\ step' = "idle" /\ mode' = "creations" /\ known' = registry
        /\ creations' = {p \in Profiles : Unfinished(p)}
        /\ UNCHANGED <<registry, journal, promised, gone, database>>
    BY <1>u, <1>14 DEF Start, work, createFiles, history
  <2>2. Journalled' /\ Pending'
    BY <2>1 DEF Journalled, Pending, Building, Unfinished
  <2>3. ASSUME Orderly' PROVE AsPromised'
    <3>1. AsPromised
      BY <1>o, <1>p, <2>3
    <3>2. CommittedOrResumed'
      BY <2>1, <3>1 DEF AsPromised, CommittedOrResumed, Resumed, Unfinished
    <3> QED
      BY <2>1, <3>1, <3>2 DEF AsPromised
  <2> QED
    BY <2>2, <2>3 DEF PromiseInv
<1>15. ASSUME CreationsReconciled \/ Started PROVE PromiseInv'
  <2>1. /\ step = "idle" /\ step' = "idle" /\ creations' = creations
        /\ UNCHANGED <<registry, known, journal, promised, gone, database>>
        /\ \/ mode = "creations" /\ creations = {} /\ mode' = "deletions"
           \/ mode = "deletions" /\ mode' = "running"
    BY <1>u, <1>15 DEF CreationsReconciled, Started, work, visits, createFiles, history
  <2>2. Journalled' /\ Pending' /\ \A p \in Profiles : ~Resumed(p)
    BY <1>0, <2>1 DEF Journalled, Pending, Building, Resumed
  <2> QED
    BY <1>o, <2>1, <2>2, PromisesUntouched
<1>16. CASE UNCHANGED vars
  <2>1. UNCHANGED <<step, target, registry, known, journal, promised, gone, database, mode, creations>>
    BY <1>16 DEF vars
  <2> QED
    BY <1>o, <2>1 DEF PromiseInv, Journalled, Pending, AsPromised, CommittedOrResumed, Resumed, Unfinished
<1> QED
  BY <1>1, <1>2, <1>3, <1>4, <1>5, <1>6, <1>7, <1>8, <1>9, <1>10, <1>11, <1>12, <1>13,
     <1>14, <1>15, <1>16
     DEF Next, CodeStep, CreateStep, DeleteStep, ReconcileStep

LEMMA PromiseAlways == Spec => [](PromiseInv /\ StoredInv /\ Typed)
<1>1. Init => PromiseInv
  BY CatalogAssumption
     DEF Init, PromiseInv, Journalled, Building, Pending, AsPromised, CommittedOrResumed
<1>2. (PromiseInv /\ StoredInv /\ Typed) /\ [Next]_vars => (PromiseInv /\ StoredInv /\ Typed)'
  BY PromiseStep, StoredStep, TypeStep
<1> QED
  BY <1>1, <1>2, StoredInitially, TypedInitially, PTL DEF Spec

\* A profile whose creation or renaming was confirmed stays listed under that
\* name with its files until a deletion of it is committed, through any deaths,
\* while only registry writes and moves fail.
THEOREM ConfirmedIsKept == Spec => []PromisedKept
<1>1. StoredInv /\ PromiseInv => PromisedKept
  BY DEF StoredInv, Listed, Stored, PromiseInv, AsPromised, PromisedKept, PromisesHold, Kept,
         Typed, TypeOK
<1> QED
  BY <1>1, PromiseAlways, PTL

\* No journal, death or retry brings a deleted profile back, while only registry
\* writes and moves fail.
THEOREM DeletedIsGone == Spec => []DeletedStaysDeleted
<1>1. PromiseInv => DeletedStaysDeleted
  BY DEF PromiseInv, AsPromised, DeletedStaysDeleted, NoneReturns, Registered
<1> QED
  BY <1>1, PromiseAlways, PTL
=============================================================================
