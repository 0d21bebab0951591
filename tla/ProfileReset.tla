---------------------------- MODULE ProfileReset ----------------------------
(***************************************************************************)
(* ProfileCoordinator::reset for one profile: the pre-reset backup, the    *)
(* staged replacement, the journal, the swap of the live file, its undoing *)
(* and reconcile_resets at the next start. Every file operation is a step, *)
(* may fail when its kind is in Faults, and may be the last one before the *)
(* process dies.                                                           *)
(*                                                                         *)
(* Abstractions: a database is the pair of the reset that made it          *)
(* (Original for the first) and the number of edits saved in it; the       *)
(* write permit, held from the first step of a reset to the last, keeps    *)
(* edits out while one runs; a rename survives the death of the process.   *)
(***************************************************************************)
EXTENDS Naturals, Sequences, FiniteSets

CONSTANTS Resets,       \* operation ids of resets
          Original, NoDatabase, NoReset,
          Faults,       \* the kinds of file operation that may fail
          MaxFaults,    \* bound on failed operations
          MaxCrashes,   \* bound on process deaths
          MaxEdits      \* bound on edits of one database

\* "write": the disk is full; "sync": a directory cannot be synced after its
\* entry was renamed; "move": a file cannot be renamed or removed; "read": a
\* database cannot be opened or validated.
FaultKinds == {"write", "sync", "move", "read"}

ASSUME ResetAssumption ==
    /\ Original \notin Resets /\ NoReset \notin Resets
    /\ Faults \subseteq FaultKinds
    /\ MaxFaults \in Nat /\ MaxCrashes \in Nat /\ MaxEdits \in Nat

Databases == [by : Resets \cup {Original}, edits : 0..MaxEdits]
ASSUME NoDatabaseAssumption == NoDatabase \notin Databases

VARIABLES
    live,          \* profiles/<id>/notchy.db
    replacement,   \* resets/<op>/notchy.db
    rollback,      \* resets/<op>/original.db
    journal,       \* resets/<op>.json
    backups,       \* databases published under backups/resets
    mode,          \* the process: down, reconciling its journals, or running
    active,        \* the profile is open in a session
    op, step,      \* the reset under way and its next step
    reopen,        \* it suspended the session and reopens it
    unvisited,     \* journals reconcile_resets has still to visit
    possible,      \* history: what the user may find in the profile
    faults, crashes

vars == <<live, replacement, rollback, journal, backups, mode, active, op, step,
          reopen, unvisited, possible, faults, crashes>>
files == <<live, replacement, rollback, journal, backups>>

Steps == {"idle", "stage", "prepare", "move_original", "move_replacement", "validate",
          "commit", "finish", "remove_live", "restore_original", "drop_journal", "refuse"}

Fresh(o) == [by |-> o, edits |-> 0]

Init ==
    /\ live = [by |-> Original, edits |-> 0]
    /\ replacement = [o \in Resets |-> NoDatabase]
    /\ rollback = [o \in Resets |-> NoDatabase]
    /\ journal = [o \in Resets |-> "none"]
    /\ backups = {}
    /\ mode = "running" /\ active = FALSE
    /\ op = NoReset /\ step = "idle" /\ reopen = FALSE
    /\ unvisited = {}
    /\ possible = {live}
    /\ faults = <<>> /\ crashes = 0

\* One file operation of the kind fails.
Fault(kind) ==
    /\ kind \in Faults /\ Len(faults) < MaxFaults
    /\ faults' = Append(faults, kind)
Works == UNCHANGED faults

Goto(s) == step' = s /\ UNCHANGED <<op, reopen, mode, active, unvisited, possible, crashes>>

----------------------------------------------------------------------------
(* The open profile. *)

Ready == mode = "running" /\ op = NoReset

\* open_manager needs the database file.
Activate ==
    /\ Ready /\ ~active /\ live # NoDatabase
    /\ active' = TRUE
    /\ UNCHANGED <<files, mode, op, step, reopen, unvisited, possible, faults, crashes>>

SwitchAway ==
    /\ Ready /\ active
    /\ active' = FALSE
    /\ UNCHANGED <<files, mode, op, step, reopen, unvisited, possible, faults, crashes>>

Edit ==
    /\ Ready /\ active /\ live.edits < MaxEdits
    /\ live' = [live EXCEPT !.edits = @ + 1]
    /\ possible' = {live'}
    /\ UNCHANGED <<replacement, rollback, journal, backups, mode, active, op, step,
                   reopen, unvisited, faults, crashes>>

----------------------------------------------------------------------------
(* reset: up to the journal. *)

\* A committed operation answers Ok again and does nothing.
Run(o, s) ==
    /\ op' = o /\ step' = s
    /\ UNCHANGED <<mode, active, reopen, unvisited, crashes>>

\* The pre-reset backup, published before anything else happens.
NotBackedUp(b) == b
BackedUp(b) == b \cup {live}

Reset(o) ==
    /\ Ready /\ journal[o] = "none" /\ live # NoDatabase
    /\ backups' = BackedUp(backups)
    /\ Run(o, "stage")
    /\ UNCHANGED <<live, replacement, rollback, journal, possible, faults>>

\* The same operation again, after an attempt that left its journal behind.
ResetAgain(o) ==
    /\ Ready /\ journal[o] = "prepared"
    /\ Run(o, "move_original")
    /\ possible' = possible \cup {Fresh(o)}
    /\ UNCHANGED <<files, faults>>

\* An early return: nothing was journaled by this attempt.
GiveUp == op' = NoReset /\ step' = "idle"
          /\ UNCHANGED <<mode, active, reopen, unvisited, possible, crashes>>

\* bootstrap_current refuses a path that exists.
Stage ==
    /\ step = "stage"
    /\ UNCHANGED <<live, rollback, journal, backups>>
    /\ \/ /\ replacement[op] = NoDatabase
          /\ replacement' = [replacement EXCEPT ![op] = Fresh(op)]
          /\ Works /\ Goto("prepare")
       \/ /\ replacement[op] # NoDatabase
          /\ UNCHANGED replacement
          /\ Works /\ GiveUp
       \/ /\ Fault("write")
          /\ replacement' \in {replacement, [replacement EXCEPT ![op] = Fresh(op)]}
          /\ GiveUp

\* publish_json: written beside and renamed over. When the sync after the
\* rename fails the caller sees an error and the new record is on disk.
SaveJournalForeign(phase) == journal' = [journal EXCEPT ![op] = "published"]
SaveJournal(phase) == journal' = [journal EXCEPT ![op] = phase]

Prepare ==
    /\ step = "prepare"
    /\ UNCHANGED <<live, replacement, rollback, backups>>
    /\ \/ /\ SaveJournal("prepared") /\ Works
          /\ step' = "move_original"
          /\ possible' = possible \cup {Fresh(op)}
          /\ UNCHANGED <<op, reopen, mode, active, unvisited, crashes>>
       \/ UNCHANGED journal /\ Fault("write") /\ GiveUp
       \/ SaveJournal("prepared") /\ Fault("sync") /\ GiveUp

----------------------------------------------------------------------------
(* The swap: finish_reset while running, reconcile_resets while starting.  *)

Shutdown ==
    /\ mode' = "down" /\ active' = FALSE
    /\ op' = NoReset /\ step' = "idle" /\ reopen' = FALSE /\ unvisited' = {}
    /\ UNCHANGED <<possible, crashes>>

\* An error: finish_reset undoes the swap if it moved the original; a start
\* fails.
UndoSwapNever(moved) == IF mode = "running" THEN Goto("refuse") ELSE Shutdown
UndoSwap(moved) ==
    IF mode = "running"
    THEN Goto(IF moved THEN "remove_live" ELSE "refuse")
    ELSE Shutdown
Fail == UndoSwap(rollback[op] # NoDatabase)

\* finish_reset closes the session first.
Suspend(s) ==
    /\ step' = s
    /\ active' = FALSE /\ reopen' = (reopen \/ active)
    /\ UNCHANGED <<op, mode, unvisited, possible, crashes>>

FailSuspended ==
    IF mode = "running"
    THEN Suspend(IF rollback[op] # NoDatabase THEN "remove_live" ELSE "refuse")
    ELSE Shutdown

MoveOriginal ==
    /\ step = "move_original"
    /\ UNCHANGED <<replacement, journal, backups>>
    /\ \/ /\ rollback[op] # NoDatabase
          /\ UNCHANGED <<live, rollback>> /\ Works /\ Suspend("move_replacement")
       \/ /\ rollback[op] = NoDatabase /\ live # NoDatabase
          /\ rollback' = [rollback EXCEPT ![op] = live] /\ live' = NoDatabase
          /\ Works /\ Suspend("move_replacement")
       \/ /\ rollback[op] = NoDatabase
          /\ \/ live = NoDatabase /\ Works
             \/ Fault("move")
          /\ UNCHANGED <<live, rollback>> /\ FailSuspended

MoveReplacement ==
    /\ step = "move_replacement"
    /\ UNCHANGED <<rollback, journal, backups>>
    /\ \/ /\ replacement[op] # NoDatabase
          /\ live' = replacement[op]
          /\ replacement' = [replacement EXCEPT ![op] = NoDatabase]
          /\ Works /\ Goto("validate")
       \/ /\ replacement[op] = NoDatabase
          /\ UNCHANGED <<live, replacement>> /\ Works /\ Goto("validate")
       \/ /\ replacement[op] # NoDatabase
          /\ UNCHANGED <<live, replacement>> /\ Fault("move") /\ Fail

\* finish_reset also syncs the profile's directory here.
Validate ==
    /\ step = "validate"
    /\ UNCHANGED files
    /\ \/ live # NoDatabase /\ Works /\ Goto("commit")
       \/ live = NoDatabase /\ Works /\ Fail
       \/ Fault("read") /\ Fail
       \/ mode = "running" /\ Fault("sync") /\ Fail

CommitJournal ==
    /\ step = "commit"
    /\ UNCHANGED <<live, replacement, rollback, backups>>
    /\ \/ SaveJournal("committed") /\ Works /\ Goto("finish")
       \/ UNCHANGED journal /\ Fault("write") /\ Fail
       \/ SaveJournal("committed") /\ Fault("sync") /\ Fail

\* remove_dir_all, whose failure is ignored and may leave either file.
RemoveStage(o) ==
    \/ /\ rollback' = [rollback EXCEPT ![o] = NoDatabase]
       /\ replacement' = [replacement EXCEPT ![o] = NoDatabase]
       /\ Works
    \/ /\ rollback' \in {rollback, [rollback EXCEPT ![o] = NoDatabase]}
       /\ replacement' \in {replacement, [replacement EXCEPT ![o] = NoDatabase]}
       /\ Fault("move")

\* finish_reset reopens the session (which may fail) and answers Ok.
Finish ==
    /\ step = "finish"
    /\ UNCHANGED <<live, journal, backups>>
    /\ RemoveStage(op)
    /\ op' = NoReset /\ step' = "idle" /\ reopen' = FALSE
    /\ active' \in {FALSE, reopen}
    /\ unvisited' = unvisited \ {op}
    /\ possible' = IF mode = "running" THEN {Fresh(op)} ELSE possible
    /\ UNCHANGED <<mode, crashes>>

----------------------------------------------------------------------------
(* finish_reset undoes the swap; each failure is ignored. *)

RemoveLiveForgetOriginal ==
    /\ step = "remove_live"
    /\ UNCHANGED <<replacement, rollback, journal, backups>>
    /\ live' = NoDatabase /\ Works /\ Goto("drop_journal")
RemoveLive ==
    /\ step = "remove_live"
    /\ UNCHANGED <<replacement, rollback, journal, backups>>
    /\ Goto("restore_original")
    /\ \/ live' = NoDatabase /\ Works
       \/ UNCHANGED live /\ Fault("move")

RestoreOriginal ==
    /\ step = "restore_original"
    /\ UNCHANGED <<replacement, journal, backups>>
    /\ Goto("drop_journal")
    /\ \/ live' = rollback[op] /\ rollback' = [rollback EXCEPT ![op] = NoDatabase] /\ Works
       \/ UNCHANGED <<live, rollback>> /\ Fault("move")

DropJournal ==
    /\ step = "drop_journal"
    /\ UNCHANGED <<live, replacement, rollback, backups>>
    /\ Goto("refuse")
    /\ \/ SaveJournal("none") /\ Works
       \/ UNCHANGED journal /\ Fault("move")

\* Reopen what was there and answer with the error: the user has kept the
\* database of before.
Refuse ==
    /\ step = "refuse"
    /\ op' = NoReset /\ step' = "idle" /\ reopen' = FALSE
    /\ active' \in {FALSE, reopen /\ live # NoDatabase}
    /\ possible' = possible \ {Fresh(op)}
    /\ UNCHANGED <<files, mode, unvisited, faults, crashes>>

----------------------------------------------------------------------------
(* The process: death, start, reconcile_resets. *)

Crash ==
    /\ mode # "down" /\ crashes < MaxCrashes
    /\ crashes' = crashes + 1
    /\ mode' = "down" /\ active' = FALSE
    /\ op' = NoReset /\ step' = "idle" /\ reopen' = FALSE /\ unvisited' = {}
    /\ UNCHANGED <<files, possible, faults>>

Start ==
    /\ mode = "down"
    /\ mode' = "reconciling"
    /\ unvisited' = {o \in Resets : journal[o] # "none"}
    /\ UNCHANGED <<files, active, op, step, reopen, possible, faults, crashes>>

Visiting(o) == mode = "reconciling" /\ op = NoReset /\ o \in unvisited
Visited(o) ==
    /\ unvisited' = unvisited \ {o}
    /\ UNCHANGED <<mode, active, op, step, reopen, possible, crashes>>

CleanCommitted(o) ==
    /\ Visiting(o) /\ journal[o] = "committed"
    /\ RemoveStage(o)
    /\ Visited(o)
    /\ UNCHANGED <<live, journal, backups>>

\* The original is in place and nothing is left to swap in.
Untouched(o) ==
    rollback[o] = NoDatabase /\ replacement[o] = NoDatabase /\ live # NoDatabase
\* The undoing was cut short: the original is only in the stage.
InterruptedIgnored(o) == FALSE
Interrupted(o) ==
    rollback[o] # NoDatabase /\ replacement[o] = NoDatabase /\ live = NoDatabase

DiscardJournal(o) ==
    /\ Visiting(o) /\ journal[o] = "prepared" /\ Untouched(o)
    /\ UNCHANGED <<live, replacement, rollback, backups>>
    /\ \/ /\ journal' = [journal EXCEPT ![o] = "none"]
          /\ Works /\ Visited(o)
       \/ UNCHANGED journal /\ Fault("move") /\ Shutdown

\* The original goes back, but this start fails: the next one finds it.
PutBack(o) ==
    /\ Visiting(o) /\ journal[o] = "prepared" /\ Interrupted(o)
    /\ UNCHANGED <<replacement, journal, backups>>
    /\ \/ live' = rollback[o] /\ rollback' = [rollback EXCEPT ![o] = NoDatabase] /\ Works
       \/ UNCHANGED <<live, rollback>> /\ Fault("move")
    /\ Shutdown

Redo(o) ==
    /\ Visiting(o) /\ journal[o] = "prepared" /\ ~Untouched(o) /\ ~Interrupted(o)
    /\ Run(o, "move_original")
    /\ UNCHANGED <<files, possible, faults>>

\* The profile is offered again; the user looks at what is there.
Started ==
    /\ mode = "reconciling" /\ op = NoReset /\ unvisited = {}
    /\ mode' = "running"
    /\ possible' = possible \cap {live}
    /\ UNCHANGED <<files, active, op, step, reopen, unvisited, faults, crashes>>

----------------------------------------------------------------------------
ResetStep ==
    \/ Stage \/ Prepare \/ MoveOriginal \/ MoveReplacement \/ Validate \/ CommitJournal
    \/ Finish \/ RemoveLive \/ RestoreOriginal \/ DropJournal \/ Refuse

ReconcileStep ==
    \/ \E o \in Resets : CleanCommitted(o) \/ DiscardJournal(o) \/ PutBack(o) \/ Redo(o)
    \/ Started

Next ==
    \/ Activate \/ SwitchAway \/ Edit
    \/ \E o \in Resets : Reset(o) \/ ResetAgain(o)
    \/ ResetStep \/ ReconcileStep
    \/ Crash \/ Start

Spec == Init /\ [][Next]_vars

\* The code runs on; an application that is down is started again.
Fairness == WF_vars(ResetStep) /\ WF_vars(ReconcileStep) /\ WF_vars(Start)
LiveSpec == Spec /\ Fairness

----------------------------------------------------------------------------
(* Properties *)

Slot == Databases \cup {NoDatabase}

TypeOK ==
    /\ live \in Slot
    /\ replacement \in [Resets -> Slot]
    /\ rollback \in [Resets -> Slot]
    /\ journal \in [Resets -> {"none", "prepared", "committed"}]
    /\ backups \subseteq Databases
    /\ mode \in {"down", "reconciling", "running"}
    /\ active \in BOOLEAN /\ reopen \in BOOLEAN
    /\ op \in Resets \cup {NoReset}
    /\ step \in Steps
    /\ unvisited \subseteq Resets
    /\ possible \subseteq Databases
    /\ faults \in Seq(FaultKinds) /\ crashes \in 0..MaxCrashes

\* No rename, removal or directory sync has failed.
Orderly == \A i \in DOMAIN faults : faults[i] \in {"write", "read"}

\* Whenever the profile can be used it holds exactly the database its user was
\* led to expect: with every saved edit after a refused reset, fresh after one
\* that was reported done, one of the two after a crash, as long as renames and
\* syncs work (design: "On failure or restart, resolve to the complete original
\* or complete new database").
CompleteOldOrNew == Ready /\ Orderly => possible = {live}

\* At every moment, in the middle of a swap or of its undoing too, a database
\* the user may expect is in a place a start recovers it from: through deaths and
\* failures of writing and validating. Whatever fails, it is not so: see Findings
\* in the README.
Recoverable(o) == {replacement[o], IF journal[o] = "prepared" THEN rollback[o] ELSE NoDatabase}
SomethingSurvives ==
    \E d \in possible : d = live \/ \E o \in Resets : d \in Recoverable(o)
NeverLost == Orderly => SomethingSurvives

\* What a swap sets aside is in the backups with its last edit (design: "Create
\* and verify an automatic pre-reset backup before modifying anything"), unless
\* a rename or a sync fails: see Findings in the README.
SwapIsBackedUp == \A o \in Resets : rollback[o] # NoDatabase => rollback[o] \in backups
BackedUpFirst == Orderly => SwapIsBackedUp

\* A start that fails leaves files the next one copes with: whatever failed, the
\* application comes up again, if no two resets left a journal after a rename, a
\* removal or a sync failed. If they did it may not: see Findings
\* in the README.
StartsAgain == mode = "down" ~> mode = "running"
Leftovers == {o \in Resets : journal[o] # "none"}
StartupConverges ==
    mode = "down" ~> (mode = "running" \/ (~Orderly /\ Cardinality(Leftovers) > 1))
=============================================================================
