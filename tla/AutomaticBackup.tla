-------------------------- MODULE AutomaticBackup --------------------------
(***************************************************************************)
(* Automatic backups of one profile (automatic_backup.rs on both levels),  *)
(* on the publication protocol of backup.rs, with the exports that share   *)
(* it: eligibility by revision and clock, one durable job, publication,    *)
(* verification, registration and retention.                               *)
(*                                                                         *)
(* Abstractions: an instant is counted in half days and an offset moves    *)
(* the local date by half a day; a week has DaysPerWeek days; the limits   *)
(* 7 and 4 of the code are Days and Weeks. files is the backup directory   *)
(* as the process sees it, disk what has been synced of it. Checks and     *)
(* exports hold the transition permit to themselves, so one of them runs   *)
(* at a time and no edit comes between its steps.                          *)
(***************************************************************************)
EXTENDS Integers, FiniteSets, FiniteSetsExt

CONSTANTS Days, Weeks, DaysPerWeek,
          MaxTime,      \* bound on instants
          MaxEdits,     \* bound on content revisions
          MaxSchema,    \* schema versions 1..MaxSchema
          MaxFaults     \* bound on changes of the clock by the user, resets, switches,
                        \* files taken, failed operations and power losses together

ASSUME BackupAssumption ==
    /\ {Days, Weeks, DaysPerWeek, MaxSchema, MaxEdits} \subseteq Nat \ {0}
    /\ {MaxTime, MaxFaults} \subseteq Nat

VARIABLES
    clock,    \* the machine's clock
    db,       \* automatic_backup_state and automatic_backup_copies
    schema,   \* the schema version of the live database
    files,    \* the snapshots in the backup directory
    disk,     \* those that survive a power loss
    target,   \* the file the user exports to: "none", "old" or "new"
    pc,       \* the step of the running check or export
    cur,      \* its local variables
    temp,     \* a staged copy of a publication lies in the directory
    jobs,     \* the last job id
    taken,    \* history: jobs whose file the user removed or damaged
    faults    \* faults so far

vars == <<clock, db, schema, files, disk, target, pc, cur, temp, jobs, taken, faults>>

Clock == [now : 0..MaxTime, off : {0, 1}]
NoClock == [now |-> 0, off |-> -1]
Date(c) == (c.now + c.off) \div 2
Week(c) == Date(c) \div DaysPerWeek
Job == [id : Nat, schema : 1..MaxSchema, rev : 0..MaxEdits, at : Clock]
NoJob == [id |-> 0, schema |-> 0, rev |-> 0, at |-> NoClock]
NoRun == [job |-> NoJob, prev |-> NoClock, protected |-> 0, victims |-> {}, existed |-> FALSE]

(* bind_automatic_owner: imported bookkeeping says nothing of this
   directory's files. *)
Bound(d) == [d EXCEPT !.copies = {}, !.backedUp = 0, !.last = NoClock, !.warning = "none",
                      !.prune = "none", !.pend = NoJob]
Foreign == [id |-> 1, schema |-> 1, rev |-> 1, at |-> [now |-> 0, off |-> 0]]
Imported == [enabled : {TRUE}, content : {1}, backedUp : {1}, last : {Foreign.at}, warning : {"none"},
             prune : {"none"}, pend : {NoJob}, copies : {{Foreign}}]
Fresh(on) == [enabled |-> on, content |-> 0, backedUp |-> 0, last |-> NoClock, warning |-> "none",
              prune |-> "none", pend |-> NoJob, copies |-> {}]

Init ==
    /\ clock = [now |-> 0, off |-> 0]
    /\ db \in {Bound(d) : d \in Imported} \cup {Fresh(TRUE)}
    /\ schema = 1
    /\ files = {} /\ disk = {} /\ temp = FALSE
    /\ target \in {"none", "old"}
    /\ pc = "idle" /\ cur = NoRun
    /\ jobs = 1 /\ taken = {}
    /\ faults = 0

Named(j) == {f \in files : f.job.id = j.id /\ f.job.schema = j.schema}
Verified(j) == [job |-> j, whole |-> TRUE] \in files

Idle == pc = "idle"
Quiet == UNCHANGED <<clock, schema, target, jobs, taken, faults>>
Stays == UNCHANGED <<files, disk, temp>>
Warn(key) == pc' = "idle" /\ cur' = NoRun /\ db' = [db EXCEPT !.warning = key]

----------------------------------------------------------------------------
(* The clock, the user and the rest of the program, between checks. *)

Fault == faults < MaxFaults /\ faults' = faults + 1
World == UNCHANGED <<files, disk, target, pc, cur, temp, jobs, taken>>

Tick ==
    /\ Idle /\ clock.now < MaxTime
    /\ clock' = [clock EXCEPT !.now = @ + 1]
    /\ World /\ UNCHANGED <<db, schema, faults>>

SetClock(c) ==
    /\ Idle /\ Fault
    /\ clock' = c
    /\ World /\ UNCHANGED <<db, schema>>

\* Every change of a content table counts, in the transaction that makes it.
Edit ==
    /\ Idle /\ db.content < MaxEdits
    /\ db' = [db EXCEPT !.content = @ + 1]
    /\ World /\ UNCHANGED <<clock, schema, faults>>

SetEnabled ==
    /\ Idle /\ Fault
    /\ db' = [db EXCEPT !.enabled = ~@]
    /\ World /\ UNCHANGED <<clock, schema>>

\* A reset of the profile puts a new database in place and leaves the files.
ResetProfile ==
    /\ Idle /\ Fault
    /\ db' = Fresh(db.enabled)
    /\ World /\ UNCHANGED <<clock, schema>>

Upgrade ==
    /\ Idle /\ schema < MaxSchema
    /\ schema' = schema + 1
    /\ World /\ UNCHANGED <<clock, db, faults>>

\* The user removes or damages a snapshot.
Take(f, whole) ==
    /\ Idle /\ Fault
    /\ f \in files
    /\ LET left == IF whole THEN {} ELSE {[f EXCEPT !.whole = FALSE]} IN
       /\ files' = (files \ {f}) \cup left
       /\ disk' = (disk \ {f}) \cup left
    /\ taken' = taken \cup {f.job.id}
    /\ UNCHANGED <<clock, db, schema, target, pc, cur, temp, jobs>>

----------------------------------------------------------------------------
(* run: what a check decides. *)

Before(c, last) == c.now < last.now \/ Date(c) < Date(last)
Backwards ==
    \/ db.last # NoClock /\ Before(clock, db.last)
    \/ db.pend # NoJob /\ Before(clock, db.pend.at)

\* automatic_backup_due and automatic_prune_clock_trusted.
Due ==
    /\ db.content > db.backedUp
    /\ db.last # NoClock => clock.now > db.last.now /\ Date(clock) > Date(db.last)
Trusted(before, now) == now.off = before.off /\ ~Before(now, before)

\* clock_warning: an earlier publication failure stays on record.
CheckBackwards ==
    /\ Idle /\ Backwards
    /\ Warn(IF db.warning = "failed" THEN "failed" ELSE "clock")
    /\ Stays /\ Quiet

Cleared == [db EXCEPT !.warning = IF @ = "clock" THEN "none" ELSE @]
MayRun == Idle /\ ~Backwards /\ db.enabled
RetriesPrune == db.prune = "failed" /\ db.last # NoClock /\ Trusted(db.last, clock)

CheckNothing ==
    /\ Idle /\ ~Backwards
    /\ db.enabled => db.pend = NoJob /\ ~Due /\ ~RetriesPrune
    /\ db' = Cleared
    /\ Stays /\ Quiet /\ UNCHANGED <<pc, cur>>

\* The newest row is the one whose local time is written last.
CheckPrune ==
    /\ MayRun /\ db.pend = NoJob /\ ~Due /\ RetriesPrune
    /\ IF db.copies = {} THEN /\ db' = [Cleared EXCEPT !.prune = "failed"]
                              /\ UNCHANGED <<pc, cur>>
       ELSE LET local(a) == a.at.now + a.at.off
                later(a, b) == local(a) > local(b) \/ (local(a) = local(b) /\ a.id >= b.id)
                newest == CHOOSE a \in db.copies : \A b \in db.copies : later(a, b)
            IN  /\ db' = Cleared
                /\ pc' = "scan" /\ cur' = [NoRun EXCEPT !.protected = newest.id]
    /\ Stays /\ Quiet

\* The file of an interrupted job is there: it is verified, synced and
\* registered, or the job stays as it is.
ResyncLater == Stays
Resync == disk' = files /\ UNCHANGED <<files, temp>>
CheckPending ==
    /\ MayRun /\ db.pend # NoJob /\ Named(db.pend) # {}
    /\ IF Verified(db.pend)
       THEN /\ db' = Cleared /\ Resync
            /\ pc' = "register" /\ cur' = [NoRun EXCEPT !.job = db.pend, !.prev = db.last]
       ELSE Warn("failed") /\ Stays
    /\ Quiet

\* Nothing was published: the job keeps its id and captures revision and clock
\* together.
BeginsNew == db.pend = NoJob /\ Due
Begins == IF db.pend = NoJob THEN Due ELSE Named(db.pend) = {}
CheckFresh ==
    /\ MayRun /\ Begins
    /\ LET id == IF db.pend = NoJob THEN jobs + 1 ELSE db.pend.id
           job == [id |-> id, schema |-> schema, rev |-> db.content, at |-> clock]
       IN  /\ jobs' = IF db.pend = NoJob THEN jobs + 1 ELSE jobs
           /\ db' = [Cleared EXCEPT !.pend = job]
           /\ cur' = [NoRun EXCEPT !.job = job, !.prev = db.last]
    /\ pc' = "publish" /\ temp' = TRUE
    /\ UNCHANGED <<clock, schema, files, disk, target, taken, faults>>

----------------------------------------------------------------------------
(* publish_backup_with_id and register. *)

Rest == UNCHANGED <<clock, schema, target, jobs, taken>>

Rename ==
    /\ pc = "publish"
    /\ files' = files \cup {[job |-> cur.job, whole |-> TRUE]}
    /\ temp' = FALSE /\ pc' = "sync"
    /\ UNCHANGED <<db, disk, cur>> /\ Quiet

SyncDirectory ==
    /\ pc = "sync"
    /\ disk' = files /\ pc' = "register"
    /\ UNCHANGED <<db, files, cur, temp>> /\ Quiet

\* A failure removes the staged copy and the file it was renamed to.
PublishFails ==
    /\ pc \in {"publish", "sync"}
    /\ Fault
    /\ files' = {f \in files : f.job # cur.job}
    /\ temp' = FALSE
    /\ Warn("failed")
    /\ UNCHANGED disk /\ Rest

RegisterFails ==
    /\ pc = "register"
    /\ Fault
    /\ Warn("failed")
    /\ Stays /\ Rest

\* One transaction: the copy, the revision it backs up, the clock of the job.
\* Deletion is authorised by the clock of the success before this one.
Register ==
    /\ pc = "register"
    /\ LET trusted == /\ cur.prev # NoClock
                      /\ Trusted(cur.prev, cur.job.at) /\ Trusted(cur.job.at, clock)
           prune == IF ~trusted /\ cur.prev # NoClock THEN "clock" ELSE db.prune
       IN  /\ db' = [db EXCEPT !.copies = @ \cup {cur.job}, !.backedUp = cur.job.rev,
                               !.last = cur.job.at, !.warning = "none", !.pend = NoJob,
                               !.prune = prune]
           /\ pc' = IF trusted THEN "scan" ELSE "idle"
           /\ cur' = IF trusted THEN [NoRun EXCEPT !.protected = cur.job.id] ELSE NoRun
    /\ Stays /\ Quiet

----------------------------------------------------------------------------
(* prune. *)

Newer(a, b) == a.at.now > b.at.now \/ (a.at.now = b.at.now /\ a.id > b.id)

RetentionDaily(copies, protected) ==
    {c \in copies : /\ c.id # protected
                    /\ Cardinality({Date(d.at) : d \in {d \in copies : Newer(d, c)}}) >= Days}

\* automatic_retention_ids: from the newest on, a copy is kept when it is the
\* first of its date, week or schema, for the first Days dates, Weeks weeks.
Retention(copies, protected) ==
    LET ahead(c) == {d \in copies : Newer(d, c)}
        dates(s) == {Date(d.at) : d \in s}
        weeks(s) == {Week(d.at) : d \in s}
        daily(c) == Cardinality(dates(ahead(c))) < Days /\ Date(c.at) \notin dates(ahead(c))
        weekly(c) == Cardinality(weeks(ahead(c))) < Weeks /\ Week(c.at) \notin weeks(ahead(c))
        first(c) == c.schema \notin {d.schema : d \in ahead(c)}
    IN  {c \in copies : c.id # protected /\ ~daily(c) /\ ~weekly(c) /\ ~first(c)}

Protected == {c \in db.copies : c.id = cur.protected /\ Verified(c)}
EndPrune(key) == pc' = "idle" /\ cur' = NoRun /\ db' = [db EXCEPT !.prune = key]

\* A row whose file is gone is forgotten, a file that does not verify stops all.
ForgetMissing(c) ==
    /\ pc = "scan" /\ Protected # {}
    /\ Named(c) = {}
    /\ db' = [db EXCEPT !.copies = @ \ {c}]
    /\ Stays /\ Quiet /\ UNCHANGED <<pc, cur>>
Scan ==
    /\ pc = "scan" /\ Protected # {}
    /\ \A c \in db.copies : Verified(c)
    /\ pc' = "unlink" /\ cur' = [cur EXCEPT !.victims = Retention(db.copies, cur.protected)]
    /\ Stays /\ Quiet /\ UNCHANGED db
ScanFails ==
    /\ pc = "scan"
    /\ Protected = {} \/ \E c \in db.copies : Named(c) # {} /\ ~Verified(c)
    /\ EndPrune("failed")
    /\ Stays /\ Quiet

Unlink ==
    /\ pc = "unlink"
    /\ \E c \in cur.victims :
          /\ \A d \in cur.victims \ {c} : Newer(c, d)
          /\ files' = {f \in files : f.job # c}
          /\ cur' = [cur EXCEPT !.victims = @ \ {c}, !.job = c]
    /\ pc' = "forget"
    /\ UNCHANGED <<db, disk, temp>> /\ Quiet
Forget ==
    /\ pc = "forget"
    /\ disk' = files
    /\ db' = [db EXCEPT !.copies = @ \ {cur.job}]
    /\ pc' = "unlink"
    /\ UNCHANGED <<files, cur, temp>> /\ Quiet
UnlinkFails ==
    /\ pc = "forget" \/ (pc = "unlink" /\ cur.victims # {})
    /\ Fault
    /\ EndPrune("failed")
    /\ Stays /\ Rest
Pruned ==
    /\ pc = "unlink" /\ cur.victims = {}
    /\ EndPrune("none")
    /\ Stays /\ Quiet

----------------------------------------------------------------------------
(* export_backup_to: the same protocol on a file the user names. *)

Export ==
    /\ Idle
    /\ pc' = "export" /\ cur' = [NoRun EXCEPT !.existed = target # "none"]
    /\ Stays /\ Quiet /\ UNCHANGED db
ExportRename ==
    /\ pc = "export"
    /\ target' = "new" /\ pc' = "exported"
    /\ Stays /\ UNCHANGED <<clock, db, schema, cur, jobs, taken, faults>>
ExportDone ==
    /\ pc = "exported"
    /\ target' = "old" /\ pc' = "idle" /\ cur' = NoRun
    /\ Stays /\ UNCHANGED <<clock, db, schema, jobs, taken, faults>>
\* Only a file this export created is removed.
UndoneAlways == IF pc = "exported" THEN "none" ELSE target
Undone == IF pc = "exported" /\ ~cur.existed THEN "none"
          ELSE IF pc = "exported" THEN "old" ELSE target
ExportFails ==
    /\ pc \in {"export", "exported"}
    /\ Fault
    /\ target' = Undone
    /\ pc' = "idle" /\ cur' = NoRun
    /\ Stays /\ UNCHANGED <<clock, db, schema, jobs, taken>>

----------------------------------------------------------------------------
(* A power loss keeps what was synced and any part of what was not; when only
   the process is killed, the files are as it left them. *)
Crash ==
    /\ pc # "down" /\ Fault
    /\ \/ UNCHANGED <<files, disk>>
       \/ \E left \in SUBSET (files \cup disk) :
             /\ files \cap disk \subseteq left
             /\ files' = left /\ disk' = left
    /\ target' \in IF pc = "exported" THEN {IF cur.existed THEN "old" ELSE "none", "old"}
                   ELSE {target}
    /\ pc' = "down" /\ cur' = NoRun
    /\ UNCHANGED <<clock, db, schema, temp, jobs, taken>>

\* Startup sweeps the staged copies.
Restart ==
    /\ pc = "down"
    /\ pc' = "idle" /\ temp' = FALSE
    /\ UNCHANGED <<db, files, disk, cur>> /\ Quiet

Check == CheckBackwards \/ CheckNothing \/ CheckPrune \/ CheckPending \/ CheckFresh
Step ==
    \/ Rename \/ SyncDirectory \/ Register \/ Scan \/ ScanFails \/ Unlink \/ Forget \/ Pruned
    \/ \E c \in db.copies : ForgetMissing(c)
    \/ ExportRename \/ ExportDone \/ Restart
Environment ==
    \/ Tick \/ Edit \/ SetEnabled \/ ResetProfile \/ Upgrade \/ Export
    \/ \E c \in Clock : SetClock(c)
    \/ \E f \in files, whole \in BOOLEAN : Take(f, whole)
    \/ PublishFails \/ RegisterFails \/ UnlinkFails \/ ExportFails \/ Crash
Next == Check \/ Step \/ Environment

Spec == Init /\ [][Next]_vars

\* The page checks every minute, the queue of the permit is first come first
\* served, and a job that runs goes on.
LiveSpec == Spec /\ SF_vars(Check) /\ WF_vars(Step)

----------------------------------------------------------------------------
\* Every variable stays in its set; a staged copy never outlives a restart.
TypeOK ==
    /\ clock \in Clock /\ schema \in 1..MaxSchema /\ jobs \in Nat
    /\ db.copies \subseteq Job /\ db.pend \in Job \cup {NoJob}
    /\ db.last \in Clock \cup {NoClock} /\ db.backedUp \in 0..db.content
    /\ {db.warning, db.prune} \subseteq {"none", "failed", "clock"}
    /\ \A f \in files \cup disk : f.job \in Job /\ f.whole \in BOOLEAN
    /\ temp => pc \in {"publish", "down"}

\* A revision the profile calls backed up is held by a registered copy whose
\* file is on the disk to stay, unless the user took it away.
BackedUpIsKept ==
    db.backedUp > 0 =>
       \E c \in db.copies :
          /\ c.rev = db.backedUp
          /\ c.id \in taken \/ [job |-> c, whole |-> TRUE] \in files \cap disk

\* Retention never thins the whole registered copies below Days dates and
\* Weeks weeks, nor takes the last copy of a schema version.
Cover(s) == {c \in db.copies : [job |-> c, whole |-> TRUE] \in s}
AtLeast(new, old, limit) == Cardinality(new) >= Min({Cardinality(old), limit})
PruneKeepsCover ==
    [][pc = "unlink" /\ pc' = "forget" =>
         LET old == Cover(files)
             new == Cover(files')
         IN  /\ AtLeast({Date(c.at) : c \in new}, {Date(c.at) : c \in old}, Days)
             /\ AtLeast({Week(c.at) : c \in new}, {Week(c.at) : c \in old}, Weeks)
             /\ {c.schema : c \in new} = {c.schema : c \in old}]_vars

\* An export may replace the user's file; it never leaves the user without one.
UserFileKept ==
    [][target # "none" /\ (pc = "exported" => cur.existed) => target' # "none"]_vars

\* A job that was begun is registered, whatever interrupts it, unless backups
\* are switched off, the clock runs behind it or its file was tampered with.
PendingSettles ==
    db.pend # NoJob ~> \/ db.pend = NoJob \/ ~db.enabled \/ Backwards
                       \/ db.pend.id \in taken
=============================================================================
