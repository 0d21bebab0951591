------------------------- MODULE ProfileResetProofs -------------------------
(***************************************************************************)
(* Theorems about ProfileReset, for any number of resets, edits, failures  *)
(* and deaths, whatever kinds of file operation may fail.                  *)
(***************************************************************************)
EXTENDS ProfileReset, SequenceTheorems, TLAPS

\* A failure is recorded with its kind.
LEMMA FaultTyped ==
    ASSUME faults \in Seq(FaultKinds), NEW kind \in FaultKinds, Fault(kind)
    PROVE  faults' \in Seq(FaultKinds)
BY AppendProperties DEF Fault

LEMMA FreshTyped == ASSUME NEW o \in Resets PROVE Fresh(o) \in Databases
BY ResetAssumption DEF Fresh, Databases

\* Whatever of a stage is removed, the rest is where it was.
LEMMA RemoveStageTyped ==
    ASSUME TypeOK, NEW o \in Resets, RemoveStage(o)
    PROVE  /\ replacement' \in [Resets -> Slot]
           /\ rollback' \in [Resets -> Slot]
           /\ faults' \in Seq(FaultKinds)
<1>1. /\ [rollback EXCEPT ![o] = NoDatabase] \in [Resets -> Slot]
      /\ [replacement EXCEPT ![o] = NoDatabase] \in [Resets -> Slot]
  BY DEF TypeOK, Slot
<1>2. faults' \in Seq(FaultKinds)
  BY FaultTyped DEF TypeOK, RemoveStage, Works, FaultKinds
<1> QED
  BY <1>1, <1>2 DEF TypeOK, RemoveStage

\* A step belongs to a reset.
Busy == step # "idle" => op \in Resets

\* An open profile has its file: finish_reset closes the session before it moves
\* anything, and reopens it only over a file.
OpenOnFile ==
    /\ active => /\ live # NoDatabase /\ mode = "running"
                 /\ step \in {"idle", "stage", "prepare", "move_original"}
    /\ reopen => mode = "running"
    /\ step \in {"commit", "finish"} => live # NoDatabase

TypedBusy == TypeOK /\ Busy /\ OpenOnFile

\* Every file operation of the reset, its failure, a death and a start keep the
\* types and these two.
LEMMA TypeStep == TypedBusy /\ [Next]_vars => TypedBusy'
<1> SUFFICES ASSUME TypedBusy, [Next]_vars PROVE TypedBusy'
  OBVIOUS
<1> USE ResetAssumption, NoDatabaseAssumption, FaultTyped, FreshTyped
        DEF TypedBusy, TypeOK, Busy, OpenOnFile, Slot, files, Works, Ready, Steps, FaultKinds
<1>1. CASE Activate \/ SwitchAway
  BY <1>1 DEF Activate, SwitchAway
<1>2. CASE Edit
  <2>1. live \in Databases /\ live.edits + 1 \in 0..MaxEdits
    BY <1>2 DEF Edit, Databases
  <2>2. live' \in Databases
    BY <1>2, <2>1 DEF Edit, Databases
  <2> QED
    BY <1>2, <2>2 DEF Edit
<1>3. ASSUME NEW o \in Resets, Reset(o) \/ ResetAgain(o) PROVE TypedBusy'
  BY <1>3 DEF Reset, ResetAgain, Run, BackedUp
<1>4. CASE Stage
  BY <1>4 DEF Stage, Goto, GiveUp
<1>5. CASE Prepare
  BY <1>5 DEF Prepare, Goto, GiveUp, SaveJournal
<1>6. CASE MoveOriginal
  BY <1>6 DEF MoveOriginal, Suspend, FailSuspended, Shutdown
<1>7. CASE MoveReplacement
  BY <1>7 DEF MoveReplacement, Goto, Fail, UndoSwap, Shutdown
<1>8. CASE Validate
  BY <1>8 DEF Validate, Goto, Fail, UndoSwap, Shutdown
<1>9. CASE CommitJournal
  BY <1>9 DEF CommitJournal, Goto, Fail, UndoSwap, Shutdown, SaveJournal
<1>10. CASE Finish
  <2>1. op \in Resets /\ RemoveStage(op)
    BY <1>10 DEF Finish
  <2>2. /\ replacement' \in [Resets -> Slot] /\ rollback' \in [Resets -> Slot]
        /\ faults' \in Seq(FaultKinds)
    <3> HIDE DEF Slot, FaultKinds
    <3> QED BY <2>1, RemoveStageTyped
  <2>3. active' = FALSE \/ active' = reopen
    BY <1>10, Zenon DEF Finish
  <2>4. possible' \subseteq Databases
    BY <1>10, <2>1 DEF Finish
  <2>5. /\ UNCHANGED <<live, journal, backups, mode, crashes>> /\ step = "finish"
        /\ op' = NoReset /\ step' = "idle" /\ reopen' = FALSE /\ unvisited' = unvisited \ {op}
    BY <1>10, Zenon DEF Finish
  <2>6. TypeOK'
    BY <2>2, <2>3, <2>4, <2>5
  <2>7. (Busy /\ OpenOnFile)'
    BY <2>3, <2>5
  <2> QED
    BY <2>6, <2>7
<1>11. CASE RemoveLive
  BY <1>11 DEF RemoveLive, Goto
<1>12. CASE RestoreOriginal
  BY <1>12 DEF RestoreOriginal, Goto
<1>13. CASE DropJournal
  BY <1>13 DEF DropJournal, Goto, SaveJournal
<1>14. CASE Refuse
  BY <1>14 DEF Refuse
<1>15. CASE Crash
  <2>1. crashes' \in 0..MaxCrashes
    BY <1>15 DEF Crash
  <2> QED
    BY <1>15, <2>1 DEF Crash
<1>16. CASE Start
  BY <1>16 DEF Start
<1>17. ASSUME NEW o \in Resets, CleanCommitted(o) PROVE TypedBusy'
  <2>1. /\ replacement' \in [Resets -> Slot] /\ rollback' \in [Resets -> Slot]
        /\ faults' \in Seq(FaultKinds)
    <3> HIDE DEF Slot, FaultKinds
    <3> QED BY <1>17, RemoveStageTyped DEF CleanCommitted
  <2> QED
    BY <1>17, <2>1 DEF CleanCommitted, Visited, Visiting
<1>18. ASSUME NEW o \in Resets, DiscardJournal(o) PROVE TypedBusy'
  <2>1. /\ journal' \in [Resets -> {"none", "prepared", "committed"}]
        /\ faults' \in Seq(FaultKinds)
    BY <1>18 DEF DiscardJournal
  <2>2. CASE Visited(o)
    BY <1>18, <2>1, <2>2 DEF DiscardJournal, Visited, Visiting
  <2>3. CASE Shutdown
    BY <1>18, <2>1, <2>3 DEF DiscardJournal, Shutdown
  <2> QED
    BY <1>18, <2>2, <2>3 DEF DiscardJournal
<1>19. ASSUME NEW o \in Resets, PutBack(o) PROVE TypedBusy'
  BY <1>19 DEF PutBack, Visiting, Shutdown, Interrupted
<1>20. ASSUME NEW o \in Resets, Redo(o) PROVE TypedBusy'
  BY <1>20 DEF Redo, Run, Visiting
<1>21. CASE Started
  BY <1>21 DEF Started
<1>22. CASE UNCHANGED vars
  BY <1>22 DEF vars
<1> QED
  BY <1>1, <1>2, <1>3, <1>4, <1>5, <1>6, <1>7, <1>8, <1>9, <1>10, <1>11, <1>12, <1>13,
     <1>14, <1>15, <1>16, <1>17, <1>18, <1>19, <1>20, <1>21, <1>22
     DEF Next, ResetStep, ReconcileStep

LEMMA TypedInitially == Init => TypedBusy
<1> SUFFICES ASSUME Init PROVE TypedBusy
  OBVIOUS
<1>1. live \in Databases
  BY ResetAssumption DEF Init, Databases
<1>2. faults \in Seq(FaultKinds)
  BY DEF Init
<1>3. TypeOK
  <2>1. live \in Slot /\ possible \subseteq Databases
    BY <1>1 DEF Init, Slot
  <2>2. replacement \in [Resets -> Slot] /\ rollback \in [Resets -> Slot]
    BY DEF Init, Slot
  <2>3. journal \in [Resets -> {"none", "prepared", "committed"}]
    BY DEF Init
  <2>4. crashes \in 0..MaxCrashes
    BY ResetAssumption DEF Init
  <2>5. /\ backups \subseteq Databases /\ unvisited \subseteq Resets
        /\ mode \in {"down", "reconciling", "running"}
        /\ active \in BOOLEAN /\ reopen \in BOOLEAN
        /\ op \in Resets \cup {NoReset} /\ step \in Steps
    BY DEF Init, Steps
  <2> QED
    BY <1>2, <2>1, <2>2, <2>3, <2>4, <2>5 DEF TypeOK
<1>4. Busy /\ OpenOnFile
  BY DEF Init, Busy, OpenOnFile
<1> QED
  BY <1>3, <1>4 DEF TypedBusy

\* Every state of the reset and of its reconciliation is well typed, whatever
\* fails and wherever the process dies.
THEOREM TypeCorrect == Spec => []TypeOK
<1>1. TypedBusy => TypeOK
  BY DEF TypedBusy
<1> QED
  BY <1>1, TypedInitially, TypeStep, PTL DEF Spec
----------------------------------------------------------------------------
(* What a reset sets aside is in the backups, as long as no rename, removal *)
(* or sync has failed. The point is that a journal is then prepared only    *)
(* while its reset is under way or cut short, when nobody edits.            *)

Prepared(o) == journal[o] = "prepared"
Swapping == {"move_original", "move_replacement", "validate", "commit",
             "remove_live", "restore_original", "drop_journal"}

OneUnfinished == \A o, p \in Resets : Prepared(o) /\ Prepared(p) => o = p

\* A journal is prepared from the first rename to the last, and a start does not
\* end before it has visited it.
Announced ==
    /\ step \in Swapping => Prepared(op)
    /\ step \in {"stage", "prepare", "finish", "refuse"} \/ Ready
         => \A o \in Resets : ~Prepared(o)
    /\ mode = "reconciling" => \A o \in Resets : Prepared(o) => o \in unvisited

\* Where the original is.
SetAside ==
    /\ step \in {"move_replacement", "validate", "commit"} => rollback[op] # NoDatabase
    /\ step \in {"stage", "prepare", "move_original"} /\ mode = "running"
         => rollback[op] # NoDatabase \/ live # NoDatabase
    /\ step \in {"stage", "prepare", "refuse", "remove_live", "restore_original", "drop_journal"}
         => mode = "running"

\* The database the next rename would set aside is backed up already.
AtStake(o) == Prepared(o) \/ (o = op /\ step \in {"stage", "prepare"})
Covered ==
    \A o \in Resets :
        AtStake(o) /\ rollback[o] = NoDatabase /\ live # NoDatabase => live \in backups

SwapInv == OneUnfinished /\ Announced /\ SetAside /\ Covered /\ SwapIsBackedUp

\* A step adds at most one failure.
LEMMA OneFault == [Next]_vars => Works \/ \E kind \in FaultKinds : Fault(kind)
<1> SUFFICES ASSUME [Next]_vars PROVE Works \/ \E kind \in FaultKinds : Fault(kind)
  OBVIOUS
<1> USE DEF FaultKinds
<1>1. CASE Activate \/ SwitchAway \/ Edit \/ Refuse \/ Start \/ Started \/ Crash
  BY <1>1 DEF Activate, SwitchAway, Edit, Refuse, Start, Started, Crash, Works
<1>2. ASSUME NEW o \in Resets, Reset(o) \/ ResetAgain(o) PROVE Works
  BY <1>2 DEF Reset, ResetAgain, Works
<1>3. CASE Stage \/ Prepare
  BY <1>3 DEF Stage, Prepare
<1>4. CASE MoveOriginal \/ MoveReplacement
  BY <1>4 DEF MoveOriginal, MoveReplacement
<1>5. CASE Validate \/ CommitJournal
  BY <1>5 DEF Validate, CommitJournal
<1>6. CASE Finish \/ RemoveLive \/ RestoreOriginal \/ DropJournal
  BY <1>6, Zenon DEF Finish, RemoveStage, RemoveLive, RestoreOriginal, DropJournal
<1>7. ASSUME NEW o \in Resets, CleanCommitted(o) \/ DiscardJournal(o) \/ PutBack(o) \/ Redo(o)
      PROVE  Works \/ Fault("move")
  BY <1>7 DEF CleanCommitted, RemoveStage, DiscardJournal, PutBack, Redo, Works
<1>8. CASE UNCHANGED vars
  BY <1>8 DEF vars, Works
<1> QED
  BY <1>1, <1>2, <1>3, <1>4, <1>5, <1>6, <1>7, <1>8 DEF Next, ResetStep, ReconcileStep

\* Failures are kept: after an orderly step the past was orderly, and the step
\* failed in no rename, removal or sync.
LEMMA OrderlyStep ==
    ASSUME TypeOK, [Next]_vars, Orderly'
    PROVE  Orderly /\ ~Fault("move") /\ ~Fault("sync")
<1>1. ASSUME NEW kind \in FaultKinds, Fault(kind) PROVE Orderly /\ kind \in {"write", "read"}
  <2>1. faults \in Seq(FaultKinds) /\ faults' = Append(faults, kind)
    BY <1>1 DEF TypeOK, Fault
  <2>2. /\ Len(faults) \in Nat /\ DOMAIN faults = 1..Len(faults)
        /\ DOMAIN faults' = 1..Len(faults) + 1
        /\ \A i \in 1..Len(faults) : faults'[i] = faults[i]
        /\ faults'[Len(faults) + 1] = kind
    BY <2>1, AppendProperties, LenProperties
  <2> QED
    BY <2>2 DEF Orderly
<1>2. ~Fault("move") /\ ~Fault("sync")
  BY <1>1 DEF FaultKinds
<1>3. CASE Works
  BY <1>2, <1>3 DEF Works, Orderly
<1> QED
  BY <1>1, <1>2, <1>3, OneFault

LEMMA SwapStep == TypedBusy /\ SwapInv /\ TypedBusy' /\ [Next]_vars /\ Orderly' => SwapInv'
<1> SUFFICES ASSUME TypedBusy, SwapInv, TypedBusy', [Next]_vars, Orderly' PROVE SwapInv'
  OBVIOUS
<1>0. ~Fault("move") /\ ~Fault("sync")
  BY OrderlyStep DEF TypedBusy
<1> USE <1>0, ResetAssumption
        DEF SwapInv, OneUnfinished, Announced, SetAside, Covered, AtStake, SwapIsBackedUp,
            Prepared, Swapping, Ready, files, TypedBusy, TypeOK, Busy
<1>1. CASE Activate \/ SwitchAway
  BY <1>1 DEF Activate, SwitchAway
<1>2. CASE Edit
  BY <1>2 DEF Edit
<1>3. ASSUME NEW o \in Resets, Reset(o) PROVE SwapInv'
  BY <1>3 DEF Reset, Run, BackedUp
<1>4. ASSUME NEW o \in Resets, ResetAgain(o) PROVE SwapInv'
  BY <1>4 DEF ResetAgain
<1>5. CASE Stage
  BY <1>5 DEF Stage, Goto, GiveUp
<1>6. CASE Prepare
  BY <1>6 DEF Prepare, GiveUp, SaveJournal
<1>7. CASE MoveOriginal
  BY <1>7 DEF MoveOriginal, Suspend, FailSuspended, Shutdown
<1>8. CASE MoveReplacement
  BY <1>8 DEF MoveReplacement, Goto
<1>9. CASE Validate
  BY <1>9 DEF Validate, Goto, Fail, UndoSwap, Shutdown
<1>10. CASE CommitJournal
  BY <1>10 DEF CommitJournal, Goto, Fail, UndoSwap, Shutdown, SaveJournal
<1>11. CASE Finish
  BY <1>11 DEF Finish, RemoveStage
<1>12. CASE RemoveLive
  BY <1>12 DEF RemoveLive, Goto
<1>13. CASE RestoreOriginal
  BY <1>13 DEF RestoreOriginal, Goto
<1>14. CASE DropJournal
  BY <1>14 DEF DropJournal, Goto, SaveJournal
<1>15. CASE Refuse
  BY <1>15 DEF Refuse
<1>16. CASE Crash
  BY <1>16 DEF Crash
<1>17. CASE Start
  BY <1>17 DEF Start
<1>18. ASSUME NEW o \in Resets, CleanCommitted(o) PROVE SwapInv'
  BY <1>18 DEF CleanCommitted, RemoveStage, Visited, Visiting
<1>19. ASSUME NEW o \in Resets, DiscardJournal(o) PROVE SwapInv'
  BY <1>19 DEF DiscardJournal, Visited, Visiting
<1>20. ASSUME NEW o \in Resets, PutBack(o) PROVE SwapInv'
  BY <1>20 DEF PutBack, Visiting, Shutdown, Interrupted
<1>21. ASSUME NEW o \in Resets, Redo(o) PROVE SwapInv'
  BY <1>21 DEF Redo, Run, Visiting
<1>22. CASE Started
  BY <1>22 DEF Started
<1>23. CASE UNCHANGED vars
  BY <1>23 DEF vars
<1> QED
  BY <1>1, <1>2, <1>3, <1>4, <1>5, <1>6, <1>7, <1>8, <1>9, <1>10, <1>11, <1>12, <1>13,
     <1>14, <1>15, <1>16, <1>17, <1>18, <1>19, <1>20, <1>21, <1>22, <1>23
     DEF Next, ResetStep, ReconcileStep

\* Until a rename, a removal or a sync fails, what reset sets aside is in the
\* backups with its last edit, through any number of resets, deaths and failures
\* to write or to validate.
THEOREM SetAsideIsBackedUp == Spec => []BackedUpFirst
<1> DEFINE Inv == TypedBusy /\ (Orderly => SwapInv)
<1>1. Init => Inv
  <2>1. Init => SwapInv
    BY DEF Init, SwapInv, OneUnfinished, Announced, SetAside, Covered, AtStake, SwapIsBackedUp,
           Prepared, Swapping
  <2> QED
    BY <2>1, TypedInitially
<1>2. Inv /\ [Next]_vars => Inv'
  BY TypeStep, SwapStep, OrderlyStep DEF TypedBusy
<1>3. Inv => BackedUpFirst
  BY DEF BackedUpFirst, SwapInv
<1> QED
  BY <1>1, <1>2, <1>3, PTL DEF Spec
----------------------------------------------------------------------------
(* The user finds the complete old or the complete new database, and one of *)
(* them is always where a start looks for it, as long as no rename, removal *)
(* or sync has failed.                                                      *)

\* The database of before, while a journal is prepared.
Kept(o) == IF rollback[o] # NoDatabase THEN rollback[o] ELSE live

Staged == \A o \in Resets : replacement[o] = NoDatabase \/ replacement[o] = Fresh(o)

\* Nothing in use is what a reset still has to make.
NewIsNew ==
    \A o \in Resets :
        /\ journal[o] = "none" => rollback[o] = NoDatabase /\ live # Fresh(o)
        /\ journal[o] # "committed" => \A p \in Resets : rollback[p] # Fresh(o)

OldOrNew ==
    \A o \in Resets : Prepared(o) =>
        /\ possible = {Kept(o), Fresh(o)}
        /\ Kept(o) # NoDatabase /\ Kept(o) # Fresh(o)
        /\ rollback[o] # NoDatabase => live = NoDatabase \/ live = Fresh(o)

InPlace == (\A o \in Resets : ~Prepared(o)) => live # NoDatabase /\ live \in possible

\* What each step finds.
Expected ==
    /\ Ready \/ step \in {"stage", "prepare"} => possible = {live}
    /\ step \in {"stage", "prepare"} => journal[op] = "none"
    /\ step = "prepare" => replacement[op] = Fresh(op)
    /\ step \in {"move_original", "move_replacement"}
         => replacement[op] = Fresh(op) \/ live = Fresh(op)
    /\ step \in {"validate", "commit", "finish", "remove_live"} => live = Fresh(op)
    /\ step \in {"remove_live", "restore_original"} => rollback[op] # NoDatabase
    /\ step = "drop_journal" => rollback[op] = NoDatabase
    /\ step = "refuse" => possible = {live, Fresh(op)} /\ live # Fresh(op)

WholeInv == Staged /\ NewIsNew /\ OldOrNew /\ InPlace /\ Expected

\* The databases resets make differ from each other, from none and from an
\* edited one.
LEMMA FreshDiffers ==
    /\ \A o \in Resets : Fresh(o) # NoDatabase
    /\ \A o, p \in Resets : Fresh(o) = Fresh(p) => o = p
    /\ \A d \in Databases, o \in Resets : [d EXCEPT !.edits = @ + 1] # Fresh(o)
    /\ \A d \in Databases : [d EXCEPT !.edits = @ + 1] # NoDatabase \/ d.edits = MaxEdits
<1>1. \A o \in Resets : Fresh(o) # NoDatabase
  BY FreshTyped, NoDatabaseAssumption
<1>2. \A o, p \in Resets : Fresh(o) = Fresh(p) => o = p
  BY DEF Fresh
<1>3. \A d \in Databases, o \in Resets : [d EXCEPT !.edits = @ + 1] # Fresh(o)
  BY ResetAssumption DEF Fresh, Databases
<1>4. \A d \in Databases : [d EXCEPT !.edits = @ + 1] # NoDatabase \/ d.edits = MaxEdits
  <2> SUFFICES ASSUME NEW d \in Databases, d.edits # MaxEdits
               PROVE  [d EXCEPT !.edits = @ + 1] # NoDatabase
    OBVIOUS
  <2>1. [d EXCEPT !.edits = @ + 1] \in Databases
    BY ResetAssumption DEF Databases
  <2> QED
    BY <2>1, NoDatabaseAssumption
<1> QED
  BY <1>1, <1>2, <1>3, <1>4

LEMMA WholeStep ==
    TypedBusy /\ SwapInv /\ WholeInv /\ SwapInv' /\ [Next]_vars /\ Orderly' => WholeInv'
<1> SUFFICES ASSUME TypedBusy, SwapInv, WholeInv, SwapInv', [Next]_vars, Orderly' PROVE WholeInv'
  OBVIOUS
<1>0. ~Fault("move") /\ ~Fault("sync")
  BY OrderlyStep DEF TypedBusy
<1> USE <1>0, ResetAssumption, FreshDiffers
        DEF WholeInv, Staged, NewIsNew, OldOrNew, InPlace, Expected, Kept,
            OneUnfinished, Announced, SetAside, SwapInv,
            Prepared, Swapping, Ready, files, TypedBusy, TypeOK, Busy
<1>1. CASE Activate \/ SwitchAway
  BY <1>1 DEF Activate, SwitchAway
<1>2. CASE Edit
  <2>1. live \in Databases /\ live' = [live EXCEPT !.edits = @ + 1] /\ live.edits # MaxEdits
    BY <1>2 DEF Edit, OpenOnFile, Slot
  <2>2. live' # NoDatabase /\ \A o \in Resets : live' # Fresh(o)
    BY <2>1
  <2> QED
    BY <1>2, <2>2 DEF Edit
<1>3. ASSUME NEW o \in Resets, Reset(o) PROVE WholeInv'
  BY <1>3 DEF Reset, Run
<1>4. ASSUME NEW o \in Resets, ResetAgain(o) PROVE WholeInv'
  BY <1>4 DEF ResetAgain
<1>5. CASE Stage
  BY <1>5 DEF Stage, Goto, GiveUp
<1>6. CASE Prepare
  BY <1>6 DEF Prepare, GiveUp, SaveJournal
<1>7. CASE MoveOriginal
  BY <1>7 DEF MoveOriginal, Suspend, FailSuspended, Shutdown
<1>8. CASE MoveReplacement
  BY <1>8 DEF MoveReplacement, Goto
<1>9. CASE Validate
  BY <1>9 DEF Validate, Goto, Fail, UndoSwap, Shutdown
<1>10. CASE CommitJournal
  BY <1>10 DEF CommitJournal, Goto, Fail, UndoSwap, Shutdown, SaveJournal
<1>11. CASE Finish
  BY <1>11 DEF Finish, RemoveStage
<1>12. CASE RemoveLive
  BY <1>12 DEF RemoveLive, Goto
<1>13. CASE RestoreOriginal
  BY <1>13 DEF RestoreOriginal, Goto
<1>14. CASE DropJournal
  BY <1>14 DEF DropJournal, Goto, SaveJournal
<1>15. CASE Refuse
  BY <1>15 DEF Refuse
<1>16. CASE Crash
  BY <1>16 DEF Crash
<1>17. CASE Start
  BY <1>17 DEF Start
<1>18. ASSUME NEW o \in Resets, CleanCommitted(o) PROVE WholeInv'
  BY <1>18 DEF CleanCommitted, RemoveStage, Visited, Visiting
<1>19. ASSUME NEW o \in Resets, DiscardJournal(o) PROVE WholeInv'
  BY <1>19 DEF DiscardJournal, Visited, Visiting, Untouched
<1>20. ASSUME NEW o \in Resets, PutBack(o) PROVE WholeInv'
  BY <1>20 DEF PutBack, Visiting, Shutdown, Interrupted
<1>21. ASSUME NEW o \in Resets, Redo(o) PROVE WholeInv'
  BY <1>21 DEF Redo, Run, Visiting, Untouched, Interrupted
<1>22. CASE Started
  BY <1>22 DEF Started
<1>23. CASE UNCHANGED vars
  BY <1>23 DEF vars
<1> QED
  BY <1>1, <1>2, <1>3, <1>4, <1>5, <1>6, <1>7, <1>8, <1>9, <1>10, <1>11, <1>12, <1>13,
     <1>14, <1>15, <1>16, <1>17, <1>18, <1>19, <1>20, <1>21, <1>22, <1>23
     DEF Next, ResetStep, ReconcileStep

Whole == TypedBusy /\ (Orderly => SwapInv /\ WholeInv)

LEMMA WholeInitially == Init => Whole
<1> SUFFICES ASSUME Init PROVE Whole
  OBVIOUS
<1>1. SwapInv
  BY DEF Init, SwapInv, OneUnfinished, Announced, SetAside, Covered, AtStake, SwapIsBackedUp,
         Prepared, Swapping
<1>2. live \in Databases /\ \A o \in Resets : live # Fresh(o)
  BY ResetAssumption DEF Init, Databases, Fresh
<1>3. Staged /\ NewIsNew /\ OldOrNew
  BY <1>2, NoDatabaseAssumption, FreshTyped DEF Init, Staged, NewIsNew, OldOrNew, Prepared
<1>4. InPlace /\ Expected
  BY <1>2, NoDatabaseAssumption DEF Init, InPlace, Expected
<1> QED
  BY <1>1, <1>3, <1>4, TypedInitially DEF Whole, WholeInv

LEMMA WholeAlways == Spec => []Whole
<1>1. Whole /\ [Next]_vars => Whole'
  BY TypeStep, SwapStep, WholeStep, OrderlyStep DEF Whole, TypedBusy
<1> QED
  BY <1>1, WholeInitially, PTL DEF Spec

\* Until a rename, a removal or a sync fails, a profile that can be used holds
\* exactly the database its user was led to expect, whatever resets, deaths and
\* failures to write or to validate came before (reset.rs:83-150). Orderly, the
\* condition of the property, is needed: after a failed rename or sync it is
\* false (README, findings 5 and 6).
THEOREM OldOrNewIsFound == Spec => []CompleteOldOrNew
<1>1. Whole => CompleteOldOrNew
  BY DEF Whole, WholeInv, Expected, CompleteOldOrNew
<1> QED
  BY <1>1, WholeAlways, PTL

\* Until a rename, a removal or a sync fails, a database the user may expect is,
\* at every moment of a swap, its undoing or a start, in a place a start recovers
\* it from. One failed sync refutes it (README, finding 6).
THEOREM OneSurvives == Spec => []NeverLost
<1>1. Whole => NeverLost
  <2> SUFFICES ASSUME Whole, Orderly PROVE SomethingSurvives
    BY DEF NeverLost
  <2>1. CASE \A o \in Resets : ~Prepared(o)
    BY <2>1 DEF Whole, WholeInv, InPlace, SomethingSurvives
  <2>2. ASSUME NEW o \in Resets, Prepared(o) PROVE SomethingSurvives
    <3>1. Kept(o) \in possible
      BY <2>2 DEF Whole, WholeInv, OldOrNew
    <3>2. Kept(o) = live \/ Kept(o) \in Recoverable(o)
      BY <2>2 DEF Kept, Recoverable, Prepared
    <3> QED
      BY <3>1, <3>2 DEF SomethingSurvives
  <2> QED
    BY <2>1, <2>2
<1> QED
  BY <1>1, WholeAlways, PTL
=============================================================================
