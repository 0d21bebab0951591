------------------------- MODULE DatabaseLifecycle -------------------------
(***************************************************************************)
(* The database boundary of one profile: the executor thread with its      *)
(* bounded queue and its lifecycle (executor.rs), initialize and retry     *)
(* with the schema inspection, the upgrade backup and the migrations       *)
(* (startup.rs, manifest.rs, migrations.rs), the restore in place          *)
(* (restore.rs), failures, cancelled callers and process deaths.           *)
(*                                                                         *)
(* Abstractions: the content of a database is its schema version and the   *)
(* callers whose edit it holds; a backup file is such a content, whole and *)
(* validated; a step of the executor is one SQLite commit or one file      *)
(* operation, and any step may fail or be the last before the process      *)
(* dies. SQLite makes each commit atomic, but a death between the sync and *)
(* the removal of its rollback journal leaves the journal hot: the next    *)
(* writer rolls back, a read-only reader is refused.                       *)
(***************************************************************************)
EXTENDS Naturals, Sequences, FiniteSets

CONSTANTS Callers,      \* asynchronous tasks that use the boundary
          NoCaller,
          Capacity,     \* places in the executor's queue
          Oldest,       \* MIN_SUPPORTED_SCHEMA_VERSION
          Latest,       \* LATEST_SCHEMA_VERSION
          MaxCalls,     \* bound on the calls made
          MaxFailures,  \* bound on failed steps
          MaxCrashes    \* bound on process deaths

ASSUME LifecycleAssumption ==
    /\ NoCaller \notin Callers
    /\ Oldest \in Nat \ {0} /\ Latest \in Nat /\ Oldest <= Latest
    /\ Capacity \in Nat \ {0}
    /\ MaxCalls \in Nat /\ MaxFailures \in Nat /\ MaxCrashes \in Nat

VARIABLES
    live,       \* the database file; version 0 when there is none
    hot,        \* whether a hot journal lies beside it
    torn,       \* whether a hot journal was removed instead of rolled back
    backups,    \* the published backups
    conn,       \* whether the executor stores the live connection
    alive,      \* whether the executor thread runs
    lifecycle,
    lock,       \* the holder of startup_lock
    queue,      \* of callers whose job is queued, or NoCaller for Shutdown
    call,       \* what each caller is doing
    task,       \* the job being run, with its next step
    calls, failures, crashes,
    abandoned,  \* history: a starting caller was dropped before it queued
    saved       \* history: callers told that their edit is saved

files == <<live, hot, torn, backups>>
bounds == <<calls, failures, crashes>>
vars == <<files, conn, alive, lifecycle, lock, queue, call, task, bounds,
          abandoned, saved>>

Content == [version : 0..Latest + 1, edits : SUBSET Callers]
Absent == [version |-> 0, edits |-> {}]
Supported == Oldest..Latest
Kinds == {"data", "start", "restore"}
Idle == [kind |-> "none", at |-> "idle", from |-> Absent]
NoTask == [by |-> NoCaller, step |-> "none"]
Committing == {"edit", "migrate", "stamp", "remigrate"}
Steps == Committing \cup {"none", "inspect", "bootstrap", "backup", "rollback",
                          "copy", "close", "retire", "rename", "install"}

Init ==
    /\ live \in {Absent} \cup [version : 1..Latest + 1, edits : {{}}]
    /\ hot = FALSE /\ torn = FALSE
    /\ backups = {}
    /\ conn = FALSE /\ alive = FALSE
    /\ lifecycle = "Uninitialized"
    /\ lock = NoCaller
    /\ queue = <<>>
    /\ call = [c \in Callers |-> Idle]
    /\ task = NoTask
    /\ calls = 0 /\ failures = 0 /\ crashes = 0
    /\ abandoned = FALSE
    /\ saved = {}

----------------------------------------------------------------------------
(* The callers. *)

Spawn ==
    /\ ~alive
    /\ \A c \in Callers : call[c] = Idle
    /\ alive' = TRUE
    /\ lifecycle' = "Uninitialized"
    /\ UNCHANGED <<files, conn, lock, queue, call, task, bounds, abandoned, saved>>

Ask(c, kind, from) ==
    /\ alive
    /\ call[c] = Idle
    /\ calls < MaxCalls
    /\ calls' = calls + 1
    /\ call' = [call EXCEPT ![c] = [kind |-> kind, at |-> "waiting", from |-> from]]
    /\ UNCHANGED <<files, conn, alive, queue, task, failures, crashes, abandoned, saved>>

\* ensure_ready looks at the lifecycle before the job has a place in the queue.
DataJob(c) ==
    /\ lifecycle = "Ready"
    /\ c \notin live.edits
    /\ Ask(c, "data", Absent)
    /\ UNCHANGED <<lifecycle, lock>>

Initialize(c) ==
    /\ lock = NoCaller
    /\ lifecycle \in {"Uninitialized", "RecoveryRequired"}
    /\ Ask(c, "start", Absent)
    /\ lifecycle' = "Initializing"
    /\ lock' = c

RestoreWhileReady(c) ==
    /\ lock = NoCaller
    /\ lifecycle \in {"Ready", "RecoveryRequired"}
    /\ \E b \in backups : Ask(c, "restore", b)
    /\ lock' = c
    /\ UNCHANGED lifecycle
RestoreDatabase(c) ==
    /\ lock = NoCaller
    /\ lifecycle \in {"Ready", "RecoveryRequired"}
    /\ \E b \in backups : Ask(c, "restore", b)
    /\ lifecycle' = "Restoring"
    /\ lock' = c

Release(c) == lock' = IF lock = c THEN NoCaller ELSE lock

\* try_send found room.
Send(c) ==
    /\ alive
    /\ call[c].at = "waiting"
    /\ Len(queue) < Capacity
    /\ queue' = Append(queue, c)
    /\ call' = [call EXCEPT ![c].at = "queued"]
    /\ UNCHANGED <<files, conn, alive, lifecycle, lock, task, bounds, abandoned, saved>>

\* The executor is gone: DatabaseNotReady.
RefusedWaiting(c) ==
    /\ ~alive
    /\ call[c].at = "waiting"
    /\ call' = [call EXCEPT ![c] = Idle]
    /\ Release(c)
    /\ UNCHANGED <<files, conn, alive, lifecycle, queue, task, bounds, abandoned, saved>>
Refused(c) ==
    /\ ~alive
    /\ call[c] # Idle
    /\ call' = [call EXCEPT ![c] = Idle]
    /\ Release(c)
    /\ UNCHANGED <<files, conn, alive, lifecycle, queue, task, bounds, abandoned, saved>>

\* The caller's future is dropped. A job that is queued runs all the same; one
\* that waits for room never will.
Cancel(c) ==
    /\ call[c].at \in {"waiting", "queued"}
    /\ call' = [call EXCEPT ![c] = IF @.at = "waiting" THEN Idle
                                   ELSE [@ EXCEPT !.at = "left"]]
    /\ abandoned' = (abandoned \/ (call[c].at = "waiting" /\ lock = c))
    /\ Release(c)
    /\ UNCHANGED <<files, conn, alive, lifecycle, queue, task, bounds, saved>>

ShutdownAtOnce ==
    /\ alive
    /\ \A i \in DOMAIN queue : queue[i] # NoCaller
    /\ calls < MaxCalls
    /\ calls' = calls + 1
    /\ queue' = Append(queue, NoCaller)
    /\ UNCHANGED <<files, conn, alive, lifecycle, lock, call, task, failures,
                   crashes, abandoned, saved>>
Shutdown ==
    /\ alive
    /\ Len(queue) < Capacity
    /\ \A i \in DOMAIN queue : queue[i] # NoCaller
    /\ calls < MaxCalls
    /\ calls' = calls + 1
    /\ queue' = Append(queue, NoCaller)
    /\ UNCHANGED <<files, conn, alive, lifecycle, lock, call, task, failures,
                   crashes, abandoned, saved>>

----------------------------------------------------------------------------
(* The executor thread. *)

FirstStep(kind) ==
    CASE kind = "data" -> "edit" [] kind = "start" -> "inspect" [] OTHER -> "rollback"

Take ==
    /\ alive /\ task = NoTask
    /\ queue # <<>> /\ Head(queue) # NoCaller
    /\ task' = [by |-> Head(queue), step |-> FirstStep(call[Head(queue)].kind)]
    /\ queue' = Tail(queue)
    /\ UNCHANGED <<files, conn, alive, lifecycle, lock, call, bounds, abandoned, saved>>

\* Shutdown ends the loop: the connection and what is queued are dropped.
Stop ==
    /\ alive /\ task = NoTask
    /\ queue # <<>> /\ Head(queue) = NoCaller
    /\ alive' = FALSE /\ conn' = FALSE /\ queue' = <<>>
    /\ UNCHANGED <<files, lifecycle, lock, call, task, bounds, abandoned, saved>>

\* The job is done: its caller is answered, if it still listens.
Answer ==
    /\ call' = [call EXCEPT ![task.by] = Idle]
    /\ Release(task.by)
    /\ task' = NoTask

At(step) == alive /\ task.step = step
Goto(step) == task' = [task EXCEPT !.step = step]
StepOnly == UNCHANGED <<alive, lifecycle, lock, queue, call, bounds, abandoned, saved>>

Edit ==
    /\ At("edit")
    /\ live' = IF conn THEN [live EXCEPT !.edits = @ \cup {task.by}] ELSE live
    /\ saved' = IF conn /\ call[task.by].at = "queued" THEN saved \cup {task.by} ELSE saved
    /\ Answer
    /\ UNCHANGED <<hot, torn, backups, conn, alive, lifecycle, queue, bounds, abandoned>>

Served ==
    /\ lifecycle' = "Ready"
    /\ Answer
    /\ UNCHANGED <<alive, queue, bounds, abandoned, saved>>

FailIfHeard ==
    /\ lifecycle' = IF call[task.by].at = "left" \/ task.step = "edit"
                    THEN lifecycle ELSE "RecoveryRequired"
    /\ Answer
    /\ UNCHANGED <<files, conn, alive, queue, crashes, calls, abandoned, saved>>
FailTask ==
    /\ lifecycle' = IF task.step = "edit" THEN lifecycle ELSE "RecoveryRequired"
    /\ Answer
    /\ UNCHANGED <<files, conn, alive, queue, crashes, calls, abandoned, saved>>

\* A read-only reader cannot roll a hot journal back.
Inspect ==
    CASE live = Absent -> "Fresh"
      [] live # Absent /\ (hot \/ torn) -> "Invalid"
      [] live # Absent /\ ~hot /\ ~torn /\ live.version \in Oldest..Latest - 1 -> "Older"
      [] live # Absent /\ ~hot /\ ~torn /\ live.version = Latest -> "Current"
      [] OTHER -> "Rejected"

Classify ==
    /\ At("inspect")
    /\ Inspect \in {"Fresh", "Older", "Current"}
    /\ Goto(CASE Inspect = "Fresh" -> "bootstrap"
              [] Inspect = "Older" -> "backup"
              [] OTHER -> "stamp")
    /\ StepOnly
    /\ UNCHANGED <<files, conn>>

\* Built and migrated in a temporary file, renamed into place.
Bootstrap ==
    /\ At("bootstrap")
    /\ live' = [version |-> Latest, edits |-> {}]
    /\ Goto("stamp")
    /\ StepOnly
    /\ UNCHANGED <<hot, torn, backups, conn>>

SkipUpgradeBackup == At("backup") /\ Goto("migrate") /\ StepOnly /\ UNCHANGED <<files, conn>>
UpgradeBackupOnce ==
    /\ At("backup")
    /\ live \notin backups
    /\ backups' = backups \cup {live}
    /\ Goto("migrate")
    /\ StepOnly
    /\ UNCHANGED <<live, hot, torn, conn>>
UpgradeBackup ==
    /\ At("backup")
    /\ backups' = backups \cup {live}
    /\ Goto("migrate")
    /\ StepOnly
    /\ UNCHANGED <<live, hot, torn, conn>>

\* One migration and its version, in one transaction.
Migrate(step, next) ==
    /\ At(step)
    /\ live' = IF live.version < Latest THEN [live EXCEPT !.version = @ + 1] ELSE live
    /\ Goto(IF live.version < Latest THEN step ELSE next)
    /\ StepOnly
    /\ UNCHANGED <<hot, torn, backups, conn>>

\* validate_manifest: SQLite's own checks, then every table against the version.
Matches(version) == ~torn /\ live.version = version

\* Metadata is written, then store_connection refuses to replace a connection.
Stamp ==
    /\ At("stamp")
    /\ ~conn
    /\ Matches(Latest)
    /\ conn' = TRUE
    /\ Served
    /\ UNCHANGED files

SkipRollback == At("rollback") /\ Goto("copy") /\ StepOnly /\ UNCHANGED <<files, conn>>
Rollback ==
    /\ At("rollback")
    /\ Inspect \in {"Older", "Current"}
    /\ backups' = backups \cup {live}
    /\ Goto("copy")
    /\ StepOnly
    /\ UNCHANGED <<live, hot, torn, conn>>

\* The token is checked again and its file copied, validated and synced.
CopyToken ==
    /\ At("copy")
    /\ call[task.by].from \in backups
    /\ Goto("close")
    /\ StepOnly
    /\ UNCHANGED <<files, conn>>

Close ==
    /\ At("close")
    /\ conn' = FALSE
    /\ Goto("retire")
    /\ StepOnly
    /\ UNCHANGED files

RetireJournals ==
    /\ At("retire")
    /\ hot' = FALSE
    /\ torn' = (torn \/ hot)
    /\ Goto("rename")
    /\ StepOnly
    /\ UNCHANGED <<live, backups, conn>>

Replace ==
    /\ At("rename")
    /\ live' = call[task.by].from
    /\ torn' = FALSE
    /\ Goto("remigrate")
    /\ StepOnly
    /\ UNCHANGED <<hot, backups, conn>>

Install ==
    /\ At("install")
    /\ Matches(Latest)
    /\ conn' = TRUE
    /\ Served
    /\ UNCHANGED files

\* What the code refuses by itself: a rejected schema, a stored connection, a
\* live database that cannot be backed up, a token whose file is gone.
Rejects ==
    \/ At("inspect") /\ Inspect \in {"Invalid", "Rejected"}
    \/ At("stamp") /\ (conn \/ ~Matches(Latest))
    \/ At("install") /\ ~Matches(Latest)
    \/ At("rollback") /\ Inspect \notin {"Older", "Current"}
    \/ At("copy") /\ call[task.by].from \notin backups
Reject == Rejects /\ FailTask /\ UNCHANGED failures

\* Any step may fail: I/O, disk, locks, validation.
Fail ==
    /\ alive /\ task # NoTask
    /\ failures < MaxFailures
    /\ failures' = failures + 1
    /\ FailTask

\* The process dies. In the middle of a commit its journal may stay, hot.
Crash ==
    /\ alive
    /\ crashes < MaxCrashes
    /\ crashes' = crashes + 1
    /\ hot' \in {hot, hot \/ (task.step \in Committing)}
    /\ alive' = FALSE /\ conn' = FALSE
    /\ lock' = NoCaller
    /\ queue' = <<>>
    /\ call' = [c \in Callers |-> Idle]
    /\ task' = NoTask
    /\ lifecycle' = "Uninitialized"
    /\ abandoned' = FALSE
    /\ UNCHANGED <<live, torn, backups, calls, failures, saved>>

Startup == Classify \/ Bootstrap \/ UpgradeBackup \/ Migrate("migrate", "stamp") \/ Stamp
Restore == Rollback \/ CopyToken \/ Close \/ RetireJournals \/ Replace
           \/ Migrate("remigrate", "install") \/ Install
Executor == Take \/ Stop \/ Edit \/ Startup \/ Restore \/ Reject

Next ==
    \/ Spawn \/ Shutdown \/ Executor \/ Fail \/ Crash
    \/ \E c \in Callers : \/ DataJob(c) \/ Initialize(c) \/ RestoreDatabase(c)
                          \/ Send(c) \/ Refused(c) \/ Cancel(c)

Spec == Init /\ [][Next]_vars

\* The executor thread runs whenever it has something to do; a caller that
\* waits for room is polled again.
Fairness == WF_vars(Executor) /\ \A c \in Callers : WF_vars(Send(c)) /\ WF_vars(Refused(c))
LiveSpec == Spec /\ Fairness

----------------------------------------------------------------------------
\* Every variable stays in its set.
TypeOK ==
    /\ live \in Content /\ backups \subseteq Content
    /\ hot \in BOOLEAN /\ torn \in BOOLEAN /\ conn \in BOOLEAN /\ alive \in BOOLEAN
    /\ lifecycle \in {"Uninitialized", "Initializing", "Ready", "RecoveryRequired",
                      "Restoring"}
    /\ lock \in Callers \cup {NoCaller}
    /\ queue \in Seq(Callers \cup {NoCaller}) /\ Len(queue) <= Capacity
    /\ call \in [Callers -> [kind : Kinds \cup {"none"}, from : Content,
                             at : {"idle", "waiting", "queued", "left"}]]
    /\ task \in [by : Callers \cup {NoCaller}, step : Steps]
    /\ calls \in 0..MaxCalls /\ failures \in 0..MaxFailures /\ crashes \in 0..MaxCrashes
    /\ abandoned \in BOOLEAN /\ saved \subseteq Callers

\* Whoever is let in by ensure_ready finds a stored connection to a whole
\* database of the current schema, without a journal left to roll back.
ReadyServes ==
    alive /\ lifecycle = "Ready" => conn /\ live.version = Latest /\ ~hot /\ ~torn

\* An edit that was answered "saved" is in the live database or in a published
\* backup, whatever is restored over it, fails or dies.
NothingLost ==
    \A c \in saved : (c \in live.edits /\ ~torn) \/ \E b \in backups : c \in b.edits

\* A migration never touches edits that no backup of an older schema holds.
MigratesWhatIsBackedUp ==
    [][live.version # 0 /\ live'.version # live.version
       => live.edits \in {b.edits : b \in {x \in backups : x.version <= live.version}}]_vars

\* Nobody waits for ever: jobs behind a shutdown, refused ones, failed ones and
\* those of a dead process included.
EveryCallEnds == \A c \in Callers : (call[c] # Idle) ~> (call[c] = Idle)

\* A start or a restore that is under way ends in Ready or RecoveryRequired,
\* though its caller is gone, unless it went before its job had a place.
Settles ==
    alive /\ lifecycle \in {"Initializing", "Restoring"}
        ~> ~alive \/ abandoned \/ lifecycle \in {"Ready", "RecoveryRequired"}

\* Whatever failed and wherever the process died before, a start that meets no
\* further trouble gets a supported database ready, if no hot journal lies
\* beside it and no connection is stored.
StartupConverges ==
    (/\ At("inspect") /\ failures = MaxFailures /\ crashes = MaxCrashes
     /\ live.version \in {0} \cup Supported /\ ~hot /\ ~conn)
        ~> lifecycle = "Ready"

\* "Backup publication and restore replacement remain recoverable across
\* process kill": the program's own database passes inspection after a death. It does not with
\* a hot journal beside it: see Findings in the README.
OwnDatabaseAccepted ==
    At("inspect") /\ live.version \in Supported => Inspect \in {"Older", "Current"}
=============================================================================
