--------------------------- MODULE ProfileCatalog ---------------------------
(***************************************************************************)
(* Which profiles exist: create, restore, rename and delete of             *)
(* ProfileCoordinator, with the registry on disk and in memory, the        *)
(* journals of creations and of deletions, staging, trash, and the         *)
(* reconciliation that ProfileCoordinator::open runs before anything else. *)
(* Every file operation is a step, may fail when its kind is in Faults,    *)
(* and may be the last one before the process dies.                        *)
(*                                                                         *)
(* Abstractions: a profile is named by the operation that creates it (the  *)
(* journal fixes the id that operation generated); the write permit, held  *)
(* by each operation from its first step to its last, lets one run at a    *)
(* time; a rename survives the death of the process.                       *)
(***************************************************************************)
EXTENDS Naturals, Sequences, FiniteSets

CONSTANTS Profiles,     \* and the operations that create them
          Restored,     \* those created from a backup
          Retried,      \* those whose operation a caller repeats by its id
          Names,
          FirstName,    \* the one every creation asks for and its journal records:
                        \* names of two profiles are never compared
          Deletes,      \* operation ids of deletions
          Absent, NoProfile, NoDelete,
          Faults,       \* the kinds of file operation that may fail
          MaxFaults,    \* bound on failed operations
          MaxCrashes    \* bound on process deaths

\* "journal", "registry": the file cannot be written; "sync": a directory
\* cannot be synced after its entry was renamed; "move": a file or directory
\* cannot be renamed or removed; "build": the seeding of a new database is cut
\* short, by an error or by the death of the process.
FaultKinds == {"journal", "registry", "sync", "move", "build"}

ASSUME CatalogAssumption ==
    /\ Restored \subseteq Profiles /\ Retried \subseteq Profiles
    /\ FirstName \in Names /\ Absent \notin Names
    /\ NoProfile \notin Profiles /\ NoDelete \notin Deletes
    /\ Faults \subseteq FaultKinds
    /\ MaxFaults \in Nat /\ MaxCrashes \in Nat

VARIABLES
    registry,    \* profiles.json: the name of each registered profile
    known,       \* the coordinator's copy of it
    database,    \* profiles whose directory is in place
    staging,     \* staging/<op>: none, empty, or with a database
    journal,     \* phase of profile-operations/<op>.json
    deletion,    \* deletes/<op>.json
    trash,       \* deletes/<op>: the directory moved there
    active,      \* the open profile
    mode,        \* the process: down, reconciling, or running
    target, del, step, reopen,   \* the operation under way
    creations, deletions,        \* journals still to be visited
    promised,    \* history: the profiles the user was told exist
    gone,        \* history: profiles whose deletion was committed
    faults, crashes

vars == <<registry, known, database, staging, journal, deletion, trash,
          active, mode, target, del, step, reopen, creations, deletions,
          promised, gone, faults, crashes>>
createFiles == <<staging, journal>>
deleteFiles == <<deletion, trash>>
work == <<target, del, step, reopen>>
visits == <<creations, deletions>>
history == <<promised, gone>>

NoDeletion == [of |-> NoProfile, phase |-> "none", pending |-> FALSE]

Init ==
    /\ registry = [p \in Profiles |-> Absent] /\ known = registry
    /\ database = {}
    /\ staging = [p \in Profiles |-> "none"]
    /\ journal = [p \in Profiles |-> "none"]
    /\ deletion = [d \in Deletes |-> NoDeletion]
    /\ trash = [d \in Deletes |-> NoProfile]
    /\ active = NoProfile
    /\ mode = "running"
    /\ target = NoProfile /\ del = NoDelete /\ step = "idle" /\ reopen = FALSE
    /\ creations = {} /\ deletions = {}
    /\ promised = [p \in Profiles |-> Absent] /\ gone = {}
    /\ faults = <<>> /\ crashes = 0

Fault(kind) ==
    /\ kind \in Faults /\ Len(faults) < MaxFaults
    /\ faults' = Append(faults, kind)
Works == UNCHANGED faults

Registered(p) == known[p] # Absent
Ready == mode = "running" /\ step = "idle"

----------------------------------------------------------------------------
(* How an operation goes on and how it ends. *)

Goto(s) ==
    /\ step' = s
    /\ UNCHANGED <<target, del, reopen, active, mode, visits, crashes, known>>
Enter(p, d, s) ==
    /\ target' = p /\ del' = d /\ step' = s
    /\ UNCHANGED <<reopen, active, mode, visits, crashes, known>>

Done ==
    /\ target' = NoProfile /\ del' = NoDelete /\ step' = "idle" /\ reopen' = FALSE
    /\ deletions' = {}

Down ==
    /\ mode' = "down" /\ active' = NoProfile
    /\ Done /\ creations' = {}
    /\ UNCHANGED <<crashes, known>>

\* An error is the caller's answer, or the end of this start.
Fail == IF mode = "running"
        THEN Done /\ UNCHANGED <<active, mode, creations, crashes, known>>
        ELSE Down

Answer == Done /\ UNCHANGED <<active, mode, crashes, known>>

----------------------------------------------------------------------------
(* create, restore: up to the journal. *)

Recorded(p, phase) == journal' = [journal EXCEPT ![p] = phase]

\* publish_json: when the sync after the rename fails, the record is on disk
\* and the caller sees an error.
SaveJournal(p, phase, next) ==
    \/ Recorded(p, phase) /\ Works /\ Goto(next)
    \/ UNCHANGED journal /\ Fault("journal") /\ Fail
    \/ Recorded(p, phase) /\ Fault("sync") /\ Fail

\* restore copies and migrates the verified preview into staging first.
Request(p) ==
    /\ Ready /\ journal[p] = "none" /\ staging[p] = "none"
    /\ Enter(p, NoDelete, IF p \in Restored THEN "copy" ELSE "prepare")
    /\ UNCHANGED <<registry, database, staging, journal, deleteFiles, history, faults>>

CopyBackup ==
    /\ step = "copy"
    /\ UNCHANGED <<registry, database, journal, deleteFiles, history>>
    /\ \/ staging' = [staging EXCEPT ![target] = "built"] /\ Works /\ Goto("prepare")
       \/ UNCHANGED staging /\ Fault("build") /\ Fail

Prepare ==
    /\ step = "prepare"
    /\ SaveJournal(target, "prepared", "stage")
    /\ UNCHANGED <<registry, database, staging, deleteFiles, history>>

\* The same operation again (the shipped client generates an id for each
\* attempt, other callers need not). A committed one only looks the record up, a
\* different name is a conflict: neither changes anything.
RequestAgain(p) ==
    /\ Ready /\ p \in Retried /\ journal[p] \in {"prepared", "published"}
    /\ Enter(p, NoDelete, "stage")
    /\ UNCHANGED <<registry, database, createFiles, deleteFiles, history, faults>>

----------------------------------------------------------------------------
(* finish_create, for the caller or for reconcile_operations. *)

InPlaceIgnored(p) == FALSE
InPlace(p) == p \in database
StagingLost(p) == p \in Restored /\ staging[p] = "none"

MakeStage ==
    /\ step = "stage"
    /\ UNCHANGED <<registry, database, journal, deleteFiles, history>>
    /\ Works
    /\ IF InPlace(target) THEN UNCHANGED staging /\ Goto("publish_journal")
       ELSE IF StagingLost(target) THEN UNCHANGED staging /\ Fail
       ELSE IF staging[target] = "none"
       THEN staging' = [staging EXCEPT ![target] = "empty"] /\ Goto("bootstrap")
       ELSE UNCHANGED staging /\ Goto("publish")

Bootstrap ==
    /\ step = "bootstrap"
    /\ UNCHANGED <<registry, database, journal, deleteFiles, history>>
    /\ \/ staging' = [staging EXCEPT ![target] = "built"] /\ Works /\ Goto("publish")
       \/ UNCHANGED staging /\ Fault("build") /\ Fail
       \/ staging' = [staging EXCEPT ![target] = "built"] /\ Fault("sync") /\ Fail

\* The staged database is validated, then its directory moved into place.
Validated(p) == staging[p] = "built"

Publish ==
    /\ step = "publish"
    /\ UNCHANGED <<registry, journal, deleteFiles, history>>
    /\ \/ /\ Validated(target)
          /\ staging' = [staging EXCEPT ![target] = "none"]
          /\ database' = database \cup {target}
          /\ \/ Works /\ Goto("publish_journal")
             \/ Fault("sync") /\ Fail
       \/ /\ ~Validated(target)
          /\ UNCHANGED <<staging, database>> /\ Works /\ Fail
       \/ /\ Validated(target)
          /\ UNCHANGED <<staging, database>> /\ Fault("move") /\ Fail

MarkPublished ==
    /\ step = "publish_journal"
    /\ SaveJournal(target, "published", "register")
    /\ UNCHANGED <<registry, database, staging, deleteFiles, history>>

\* The registry file first, then the coordinator's copy.
AdoptInMemory(next) == UNCHANGED registry /\ known' = next
Adopt(next) == registry' = next /\ known' = next

SaveRegistry(next, onward) ==
    \/ /\ Adopt(next) /\ Works
       /\ step' = onward
       /\ UNCHANGED <<target, del, reopen, active, mode, visits, crashes>>
    \/ UNCHANGED registry /\ Fault("registry") /\ Fail
    \/ registry' = next /\ Fault("sync") /\ Fail

Register ==
    /\ step = "register"
    /\ UNCHANGED <<database, createFiles, deleteFiles, history>>
    /\ \/ known[target] = Absent
          /\ SaveRegistry([known EXCEPT ![target] = FirstName], "commit")
       \/ known[target] = FirstName
          /\ UNCHANGED registry /\ Works /\ Goto("commit")
       \/ known[target] \notin {Absent, FirstName}
          /\ UNCHANGED registry /\ Works /\ Fail

Commit ==
    /\ step = "commit"
    /\ UNCHANGED <<registry, database, staging, deleteFiles, gone>>
    /\ \/ /\ Recorded(target, "committed") /\ Works
          /\ promised' = IF mode = "running"
                         THEN [promised EXCEPT ![target] = FirstName] ELSE promised
          /\ Answer /\ creations' = creations \ {target}
       \/ UNCHANGED <<journal, promised>> /\ Fault("journal") /\ Fail
       \/ Recorded(target, "committed") /\ UNCHANGED promised /\ Fault("sync") /\ Fail

----------------------------------------------------------------------------
(* rename and activate: registry writes of one step. *)

Rename(p, n) ==
    /\ Ready /\ Registered(p) /\ known[p] # n
    /\ \/ /\ Adopt([known EXCEPT ![p] = n]) /\ Works
          /\ promised' = [promised EXCEPT ![p] = n]
       \/ UNCHANGED <<registry, known, promised>> /\ Fault("registry")
       \/ registry' = [known EXCEPT ![p] = n] /\ UNCHANGED <<known, promised>> /\ Fault("sync")
    /\ UNCHANGED <<database, createFiles, deleteFiles, active, mode, work, visits,
                   gone, crashes>>

\* commit_activation saves the registry; a refused activation reopens the
\* profile that was open.
Activate(p) ==
    /\ Ready /\ Registered(p) /\ p \in database /\ active # p
    /\ \/ registry' = known /\ active' = p /\ Works
       \/ UNCHANGED <<registry, active>> /\ Fault("registry")
       \/ registry' = known /\ UNCHANGED active /\ Fault("sync")
    /\ UNCHANGED <<known, database, createFiles, deleteFiles, mode, work, visits,
                   history, crashes>>

----------------------------------------------------------------------------
(* delete. *)

SaveDeletion(d, p, phase, pending) ==
    deletion' = [deletion EXCEPT ![d] = [of |-> p, phase |-> phase, pending |-> pending]]

\* A committed deletion answers again; another profile is a conflict. A
\* prepared one reconciles every deletion first.
Delete(d, p) ==
    /\ Ready
    /\ \/ deletion[d] = NoDeletion /\ Registered(p)
          /\ Enter(p, d, "intend")
       \/ /\ deletion[d].phase = "prepared" /\ deletion[d].of = p
          /\ target' = p /\ del' = d /\ step' = "reconcile"
          /\ deletions' = {e \in Deletes : deletion[e] # NoDeletion}
          /\ UNCHANGED <<reopen, active, mode, creations, crashes, known>>
    /\ UNCHANGED <<registry, database, createFiles, deleteFiles, history, faults>>

Reconciled ==
    /\ step = "reconcile" /\ deletions = {}
    /\ IF Registered(target) THEN Goto("intend") ELSE Fail
    /\ UNCHANGED <<registry, database, createFiles, deleteFiles, history, faults>>

Intend ==
    /\ step = "intend"
    /\ UNCHANGED <<registry, database, createFiles, trash, history>>
    /\ \/ SaveDeletion(del, target, "prepared", TRUE) /\ Works /\ Goto("discard")
       \/ UNCHANGED deletion /\ Fault("journal") /\ Fail
       \/ SaveDeletion(del, target, "prepared", TRUE) /\ Fault("sync") /\ Fail

Closed(p) == active' = IF active = p THEN NoProfile ELSE active

\* The session is closed and the directory moved to the trash. When only the
\* sync fails, neither is taken back.
Discard ==
    /\ step = "discard"
    /\ UNCHANGED <<registry, createFiles, deletion, history>>
    /\ \/ /\ target \in database /\ trash[del] = NoProfile
          /\ trash' = [trash EXCEPT ![del] = target] /\ database' = database \ {target}
          /\ Closed(target)
          /\ \/ /\ Works /\ step' = "unregister" /\ reopen' = (active = target)
                /\ UNCHANGED <<target, del, mode, visits, crashes, known>>
             \/ Fault("sync") /\ Done /\ UNCHANGED <<mode, creations, crashes, known>>
       \/ /\ UNCHANGED <<trash, database>>
          /\ \/ (target \notin database \/ trash[del] # NoProfile) /\ Works
             \/ Fault("move")
          /\ Fail

Unregister ==
    /\ step = "unregister"
    /\ UNCHANGED <<database, createFiles, deleteFiles>>
    /\ \/ /\ Adopt([known EXCEPT ![target] = Absent]) /\ Works
          /\ gone' = gone \cup {target}
          /\ promised' = [promised EXCEPT ![target] = Absent]
          /\ step' = "record"
          /\ UNCHANGED <<target, del, reopen, active, mode, visits, crashes>>
       \/ UNCHANGED <<registry, history>> /\ Fault("registry") /\ Goto("take_back")
       \/ /\ registry' = [known EXCEPT ![target] = Absent]
          /\ promised' = [promised EXCEPT ![target] = Absent] /\ UNCHANGED gone
          /\ Fault("sync") /\ Goto("take_back")

\* The directory returns, the session reopens, and the caller is told that the
\* profile was not deleted.
TakeBack ==
    /\ step = "take_back"
    /\ UNCHANGED <<registry, createFiles, deletion, gone>>
    /\ promised' = [promised EXCEPT ![target] = known[target]]
    /\ \/ /\ trash' = [trash EXCEPT ![del] = NoProfile]
          /\ database' = database \cup {target} /\ Works
       \/ UNCHANGED <<trash, database>> /\ Fault("move")
    /\ active' = IF reopen /\ target \in database' THEN target ELSE active
    /\ Done /\ UNCHANGED <<mode, creations, crashes, known>>

\* From here the answer is Ok; what fails is left to the next start.
RecordDeletion ==
    /\ step = "record"
    /\ UNCHANGED <<registry, database, createFiles, trash, history>>
    /\ \/ SaveDeletion(del, target, "committed", TRUE) /\ Works /\ Goto("clean")
       \/ UNCHANGED deletion /\ Fault("journal") /\ Fail
       \/ SaveDeletion(del, target, "committed", TRUE) /\ Fault("sync") /\ Fail

Emptied == trash' = [trash EXCEPT ![del] = NoProfile]

Clean ==
    /\ step = "clean"
    /\ UNCHANGED <<registry, database, createFiles, deletion, history>>
    /\ \/ Emptied /\ Works /\ Goto("claim")
       \/ UNCHANGED trash /\ Fault("move") /\ Fail

Claim ==
    /\ step = "claim"
    /\ UNCHANGED <<registry, database, createFiles, trash, history>>
    /\ \/ SaveDeletion(del, target, "committed", FALSE) /\ Works
       \/ UNCHANGED deletion /\ Fault("journal")
       \/ SaveDeletion(del, target, "committed", FALSE) /\ Fault("sync")
    /\ Answer /\ UNCHANGED creations

----------------------------------------------------------------------------
(* reconcile_deletes, at a start or before a deletion is tried again. *)

Visiting(d) ==
    /\ d \in deletions
    /\ mode = "deletions" \/ step = "reconcile"
Visited(d) ==
    /\ deletions' = deletions \ {d}
    /\ UNCHANGED <<work, active, mode, creations, crashes, known>>
MisplacedNever(d) == FALSE
Misplaced(d) == trash[d] # NoProfile /\ deletion[d].of \notin database

PutBack(d) ==
    /\ Visiting(d) /\ Registered(deletion[d].of) /\ Misplaced(d)
    /\ UNCHANGED <<registry, createFiles, deletion, history>>
    /\ \/ /\ database' = database \cup {deletion[d].of}
          /\ trash' = [trash EXCEPT ![d] = NoProfile]
          /\ Works /\ UNCHANGED <<work, active, mode, visits, crashes, known>>
       \/ UNCHANGED <<database, trash>> /\ Fault("move") /\ Fail

Forget(d) ==
    /\ Visiting(d) /\ Registered(deletion[d].of) /\ ~Misplaced(d)
    /\ UNCHANGED <<registry, database, createFiles, trash, history>>
    /\ \/ deletion' = [deletion EXCEPT ![d] = NoDeletion] /\ Works /\ Visited(d)
       \/ UNCHANGED deletion /\ Fault("move") /\ Fail

EmptyTrash(d) ==
    /\ Visiting(d) /\ ~Registered(deletion[d].of) /\ trash[d] # NoProfile
    /\ UNCHANGED <<registry, database, createFiles, deletion, history>>
    /\ \/ /\ trash' = [trash EXCEPT ![d] = NoProfile]
          /\ Works /\ UNCHANGED <<work, active, mode, visits, crashes, known>>
       \/ UNCHANGED trash /\ Fault("move") /\ Visited(d)

Close(d) ==
    /\ Visiting(d) /\ ~Registered(deletion[d].of) /\ trash[d] = NoProfile
    /\ UNCHANGED <<registry, database, createFiles, trash, history>>
    /\ \/ SaveDeletion(d, deletion[d].of, "committed", FALSE) /\ Works /\ Visited(d)
       \/ UNCHANGED deletion /\ Fault("journal") /\ Fail
       \/ SaveDeletion(d, deletion[d].of, "committed", FALSE) /\ Fault("sync") /\ Fail

----------------------------------------------------------------------------
(* The process: death and ProfileCoordinator::open. *)

\* A death that cuts the seeding of a database short is a fault of its own.
Crash ==
    /\ mode # "down" /\ crashes < MaxCrashes
    /\ IF step \in {"bootstrap", "copy"} THEN Fault("build") ELSE Works
    /\ crashes' = crashes + 1
    /\ mode' = "down" /\ active' = NoProfile /\ Done /\ creations' = {}
    /\ UNCHANGED <<registry, known, database, createFiles, deleteFiles, history>>

UnfinishedAny(p) == journal[p] # "none"
Unfinished(p) == journal[p] \in {"prepared", "published"}

Start ==
    /\ mode = "down"
    /\ mode' = "creations" /\ known' = registry
    /\ creations' = {p \in Profiles : Unfinished(p)}
    /\ UNCHANGED <<registry, database, createFiles, deleteFiles, active, work, deletions,
                   history, faults, crashes>>

Resume(p) ==
    /\ mode = "creations" /\ step = "idle" /\ p \in creations
    /\ Enter(p, NoDelete, "stage")
    /\ UNCHANGED <<registry, database, createFiles, deleteFiles, history, faults>>

CreationsReconciled ==
    /\ mode = "creations" /\ step = "idle" /\ creations = {}
    /\ mode' = "deletions"
    /\ deletions' = {d \in Deletes : deletion[d] # NoDeletion}
    /\ UNCHANGED <<registry, known, database, createFiles, deleteFiles, active, work,
                   creations, history, faults, crashes>>

Started ==
    /\ mode = "deletions" /\ deletions = {}
    /\ mode' = "running"
    /\ UNCHANGED <<registry, known, database, createFiles, deleteFiles, active, work,
                   visits, history, faults, crashes>>

----------------------------------------------------------------------------
CreateStep ==
    \/ CopyBackup \/ Prepare \/ MakeStage \/ Bootstrap \/ Publish \/ MarkPublished
    \/ Register \/ Commit
DeleteStep ==
    \/ Reconciled \/ Intend \/ Discard \/ Unregister \/ TakeBack \/ RecordDeletion
    \/ Clean \/ Claim
ReconcileStep ==
    \/ \E d \in Deletes : PutBack(d) \/ Forget(d) \/ EmptyTrash(d) \/ Close(d)
    \/ \E p \in Profiles : Resume(p)
    \/ CreationsReconciled \/ Started
CodeStep == CreateStep \/ DeleteStep \/ ReconcileStep

Next ==
    \/ \E p \in Profiles, n \in Names : Rename(p, n)
    \/ \E p \in Profiles : Request(p) \/ RequestAgain(p) \/ Activate(p)
    \/ \E d \in Deletes, p \in Profiles : Delete(d, p)
    \/ CodeStep
    \/ Crash \/ Start

Spec == Init /\ [][Next]_vars

\* The code runs on; an application that is down is started again.
Fairness == WF_vars(CodeStep) /\ WF_vars(Start)
LiveSpec == Spec /\ Fairness

----------------------------------------------------------------------------
(* Properties *)

Steps == {"idle", "copy", "prepare", "stage", "bootstrap", "publish", "publish_journal",
          "register", "commit", "reconcile", "intend", "discard", "unregister",
          "take_back", "record", "clean", "claim"}
Deletion == [of : Profiles \cup {NoProfile}, phase : {"none", "prepared", "committed"},
             pending : BOOLEAN]

TypeOK ==
    /\ registry \in [Profiles -> Names \cup {Absent}]
    /\ known \in [Profiles -> Names \cup {Absent}]
    /\ database \subseteq Profiles
    /\ staging \in [Profiles -> {"none", "empty", "built"}]
    /\ journal \in [Profiles -> {"none", "prepared", "published", "committed"}]
    /\ deletion \in [Deletes -> Deletion]
    /\ trash \in [Deletes -> Profiles \cup {NoProfile}]
    /\ active \in Profiles \cup {NoProfile}
    /\ mode \in {"down", "creations", "deletions", "running"}
    /\ target \in Profiles \cup {NoProfile} /\ del \in Deletes \cup {NoDelete}
    /\ step \in Steps /\ reopen \in BOOLEAN
    /\ creations \subseteq Profiles /\ deletions \subseteq Deletes
    /\ promised \in [Profiles -> Names \cup {Absent}] /\ gone \subseteq Profiles
    /\ faults \in Seq(FaultKinds) /\ crashes \in 0..MaxCrashes

\* The files of a listed profile are in place, or in the trash of an intended
\* deletion that the next start takes back.
Kept(p) ==
    p \in database \/ \E d \in Deletes : trash[d] = p /\ deletion[d].phase = "prepared"

\* No record or seeding was cut short and no sync failed after a rename.
Orderly == \A i \in DOMAIN faults : faults[i] \in {"registry", "move"}

\* A profile is listed only with its whole database, whatever was interrupted
\* (design section 6: "A profile becomes visible only when committed"), and what
\* is open is listed and in place.
ListedIsWhole ==
    Ready => /\ \A p \in Profiles : Registered(p) => Kept(p)
             /\ active # NoProfile => Registered(active) /\ active \in database

\* A profile whose creation or renaming was confirmed stays listed under that
\* name with its files until a deletion of it is committed, a refused deletion
\* included (design: "Before registry commit, failures roll back the rename").
\* Whatever fails, it is not so: see Findings in the README.
PromisesHold ==
    Ready => \A p \in Profiles :
                promised[p] # Absent => known[p] = promised[p] /\ Kept(p)
PromisedKept == Orderly => PromisesHold

\* No journal, crash or retry brings a deleted profile back (design: "Deleted
\* profiles never reappear because an orphan directory was discovered"), unless
\* a record could not be written: see Findings in the README.
NoneReturns == Ready => \A p \in gone : ~Registered(p) /\ p \notin database
DeletedStaysDeleted == Orderly => NoneReturns

\* After any interruption the application can be started again (design section
\* 9: "Restart resolves journal deterministically"), unless the seeding of a
\* profile was cut short or a record is missing: see the run
\* catalog_interrupted_staging.
StartsAgain == mode = "down" ~> mode = "running"
StartupConverges == mode = "down" ~> (mode = "running" \/ ~Orderly)
=============================================================================
