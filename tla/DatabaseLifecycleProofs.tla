---------------------- MODULE DatabaseLifecycleProofs ----------------------
(***************************************************************************)
(* Theorems about DatabaseLifecycle, for any number of callers, places in  *)
(* the queue, schema versions, calls, failed steps and deaths.             *)
(***************************************************************************)
EXTENDS DatabaseLifecycle, TLAPS

StartSteps == {"inspect", "bootstrap", "backup", "migrate", "stamp"}
RestoreSteps == {"rollback", "copy", "close", "retire", "rename", "remigrate", "install"}

\* The steps that lead on within a job, and those that end it.
Goes == Classify \/ Bootstrap \/ UpgradeBackup \/ Migrate("migrate", "stamp") \/ Rollback
        \/ CopyToken \/ Close \/ RetireJournals \/ Replace \/ Migrate("remigrate", "install")
Ends == Edit \/ Stamp \/ Install \/ Reject \/ Fail
Asks(c) == DataJob(c) \/ Initialize(c) \/ RestoreDatabase(c)

LEMMA NextCases ==
    ASSUME [Next]_vars
    PROVE  \/ Spawn \/ Shutdown \/ Take \/ Stop \/ Goes \/ Ends \/ Crash \/ UNCHANGED vars
           \/ \E c \in Callers : Asks(c) \/ Send(c) \/ Refused(c) \/ Cancel(c)
BY DEF Next, Executor, Startup, Restore, Goes, Ends, Asks

----------------------------------------------------------------------------
\* Types, part by part.
FileTypes ==
    /\ live \in Content /\ backups \subseteq Content
    /\ hot \in BOOLEAN /\ torn \in BOOLEAN /\ conn \in BOOLEAN
Calling == [kind : Kinds \cup {"none"}, from : Content,
            at : {"idle", "waiting", "queued", "left"}]
CallTypes ==
    /\ alive \in BOOLEAN /\ abandoned \in BOOLEAN /\ saved \subseteq Callers
    /\ lifecycle \in {"Uninitialized", "Initializing", "Ready", "RecoveryRequired",
                      "Restoring"}
    /\ lock \in Callers \cup {NoCaller}
    /\ call \in [Callers -> Calling]
    /\ calls \in 0..MaxCalls /\ failures \in 0..MaxFailures /\ crashes \in 0..MaxCrashes
QueueTypes == queue \in Seq(Callers \cup {NoCaller}) /\ Len(queue) <= Capacity
TaskTypes == task \in [by : Callers \cup {NoCaller}, step : Steps]

LEMMA TypeParts == TypeOK <=> FileTypes /\ CallTypes /\ QueueTypes /\ TaskTypes
BY DEF TypeOK, FileTypes, CallTypes, Calling, QueueTypes, TaskTypes

\* A task is the job of a caller that was queued, at a step of that kind of job.
TaskInv ==
    task # NoTask =>
        /\ alive
        /\ task.by \in Callers /\ call[task.by].at \in {"queued", "left"}
        /\ \/ task.step = "edit" /\ call[task.by].kind = "data"
           \/ task.step \in StartSteps /\ call[task.by].kind = "start"
           \/ task.step \in RestoreSteps /\ call[task.by].kind = "restore"

\* The queue holds each job once, and not the one that is being run.
QueueInv ==
    /\ ~alive => queue = <<>>
    /\ \A i \in DOMAIN queue : queue[i] # NoCaller =>
          /\ call[queue[i]].at \in {"queued", "left"}
          /\ task # NoTask => queue[i] # task.by
    /\ \A i, j \in DOMAIN queue : queue[i] = queue[j] => i = j

\* Who is not idle has asked for something; a restore for a published backup.
CallInv ==
    \A c \in Callers :
        /\ call[c].at # "idle" => call[c].kind \in Kinds
        /\ call[c].kind = "restore" => call[c].from \in backups

MachineInv == TypeOK /\ TaskInv /\ QueueInv /\ CallInv

\* A step within a job leaves callers, queue and lifecycle alone.
LEMMA GoesOn ==
    ASSUME Goes, TypeOK
    PROVE  /\ task # NoTask /\ alive
           /\ \/ task.step \in StartSteps /\ task'.step \in StartSteps
              \/ task.step \in RestoreSteps /\ task'.step \in RestoreSteps
           /\ task' = [task EXCEPT !.step = task'.step]
           /\ task'.by = task.by /\ task' # NoTask
           /\ StepOnly
<1>1. TaskTypes /\ NoTask.step = "none"
  BY TypeParts DEF NoTask
<1>2. ASSUME NEW a \in StartSteps \cup RestoreSteps, NEW b \in StartSteps \cup RestoreSteps,
             At(a), Goto(b)
      PROVE  /\ task # NoTask /\ alive /\ task.step = a /\ task'.step = b
             /\ task' = [task EXCEPT !.step = task'.step]
             /\ task'.by = task.by /\ task' # NoTask
  BY <1>1, <1>2 DEF At, Goto, TaskTypes, StartSteps, RestoreSteps
<1>3. CASE Classify
  <2>1. PICK b \in {"bootstrap", "backup", "stamp"} : Goto(b)
    BY <1>3 DEF Classify
  <2> QED
    BY <1>2, <1>3, <2>1 DEF Classify, StartSteps, RestoreSteps
<1>4. CASE Bootstrap
  BY <1>2, <1>4 DEF Bootstrap, StartSteps, RestoreSteps
<1>5. CASE UpgradeBackup
  BY <1>2, <1>5 DEF UpgradeBackup, StartSteps, RestoreSteps
<1>6. CASE Migrate("migrate", "stamp")
  <2>1. PICK b \in {"migrate", "stamp"} : Goto(b)
    BY <1>6 DEF Migrate
  <2> QED
    BY <1>2, <1>6, <2>1 DEF Migrate, StartSteps, RestoreSteps
<1>7. CASE Rollback
  BY <1>2, <1>7 DEF Rollback, StartSteps, RestoreSteps
<1>8. CASE CopyToken
  BY <1>2, <1>8 DEF CopyToken, StartSteps, RestoreSteps
<1>9. CASE Close
  BY <1>2, <1>9 DEF Close, StartSteps, RestoreSteps
<1>10. CASE RetireJournals
  BY <1>2, <1>10 DEF RetireJournals, StartSteps, RestoreSteps
<1>11. CASE Replace
  BY <1>2, <1>11 DEF Replace, StartSteps, RestoreSteps
<1>12. CASE Migrate("remigrate", "install")
  <2>1. PICK b \in {"remigrate", "install"} : Goto(b)
    BY <1>12 DEF Migrate
  <2> QED
    BY <1>2, <1>12, <2>1 DEF Migrate, StartSteps, RestoreSteps
<1> QED
  BY <1>3, <1>4, <1>5, <1>6, <1>7, <1>8, <1>9, <1>10, <1>11, <1>12 DEF Goes

\* The end of a job answers its caller and leaves the queue and the backups alone.
LEMMA EndsJob ==
    ASSUME Ends
    PROVE  /\ task # NoTask /\ alive
           /\ Answer
           /\ lifecycle' \in {lifecycle, "Ready", "RecoveryRequired"}
           /\ UNCHANGED <<alive, queue, backups, hot, torn, calls, crashes, abandoned>>
<1>1. NoTask.step = "none"
  BY DEF NoTask
<1>2. CASE Edit
  BY <1>1, <1>2 DEF Edit, At, bounds
<1>3. CASE Stamp
  BY <1>1, <1>3 DEF Stamp, At, Served, files, bounds
<1>4. CASE Install
  BY <1>1, <1>4 DEF Install, At, Served, files, bounds
<1>5. CASE Reject
  BY <1>1, <1>5 DEF Reject, Rejects, At, FailTask, files, bounds
<1>6. CASE Fail
  BY <1>6 DEF Fail, FailTask, files
<1> QED
  BY <1>2, <1>3, <1>4, <1>5, <1>6 DEF Ends

\* A call that is made has a free caller and waits; a restore names a backup.
LEMMA AskedFor ==
    ASSUME FileTypes, NEW c \in Callers, Asks(c)
    PROVE  /\ alive /\ call[c] = Idle /\ calls < MaxCalls /\ calls' = calls + 1
           /\ \E kind \in Kinds, from \in Content :
                /\ call' = [call EXCEPT ![c] = [kind |-> kind, at |-> "waiting", from |-> from]]
                /\ kind = "data" => lifecycle = "Ready" /\ UNCHANGED <<lifecycle, lock>>
                /\ kind = "start" => lifecycle \in {"Uninitialized", "RecoveryRequired"}
                                     /\ lifecycle' = "Initializing"
                /\ kind = "restore" => from \in backups /\ lifecycle' = "Restoring"
                                       /\ lifecycle \in {"Ready", "RecoveryRequired"}
                /\ kind # "data" => lock = NoCaller /\ lock' = c
           /\ UNCHANGED <<files, conn, alive, queue, task, failures, crashes, abandoned, saved>>
<1>1. Absent \in Content
  BY LifecycleAssumption DEF Absent, Content
<1>2. CASE DataJob(c)
  <2>1. Ask(c, "data", Absent) /\ "data" \in Kinds
    BY <1>2 DEF DataJob, Kinds
  <2> QED
    BY <1>1, <1>2, <2>1 DEF DataJob, Ask
<1>3. CASE Initialize(c)
  <2>1. Ask(c, "start", Absent) /\ "start" \in Kinds
    BY <1>3 DEF Initialize, Kinds
  <2> QED
    BY <1>1, <1>3, <2>1 DEF Initialize, Ask
<1>4. CASE RestoreDatabase(c)
  <2>1. PICK b \in backups : Ask(c, "restore", b)
    BY <1>4 DEF RestoreDatabase
  <2>2. "restore" \in Kinds /\ b \in Content
    BY DEF Kinds, FileTypes
  <2> QED
    BY <1>4, <2>1, <2>2 DEF RestoreDatabase, Ask
<1> QED
  BY <1>2, <1>3, <1>4 DEF Asks

LEMMA FileTypesStep == TypeOK /\ CallInv /\ TaskInv /\ [Next]_vars => FileTypes'
<1> SUFFICES ASSUME TypeOK, CallInv, TaskInv, [Next]_vars PROVE FileTypes'
  OBVIOUS
<1>1. FileTypes /\ TaskTypes /\ CallTypes
  BY TypeParts
<1>2. ASSUME UNCHANGED <<live, backups>>, hot' \in BOOLEAN, torn' \in BOOLEAN, conn' \in BOOLEAN
      PROVE  FileTypes'
  BY <1>1, <1>2 DEF FileTypes
<1>3. CASE Goes
  <2>1. CASE Classify \/ CopyToken \/ Close \/ RetireJournals
    BY <1>1, <2>1 DEF Classify, CopyToken, Close, RetireJournals, files, FileTypes
  <2>2. CASE Bootstrap
    <3>1. live' \in Content
      BY <2>2, LifecycleAssumption DEF Bootstrap, Content
    <3> QED
      BY <1>1, <2>2, <3>1 DEF Bootstrap, FileTypes
  <2>3. CASE UpgradeBackup \/ Rollback
    BY <1>1, <2>3 DEF UpgradeBackup, Rollback, FileTypes
  <2>4. ASSUME NEW a, NEW b, Migrate(a, b) PROVE FileTypes'
    <3>1. live' \in Content
      BY <1>1, <2>4, LifecycleAssumption DEF Migrate, Content, FileTypes
    <3> QED
      BY <1>1, <2>4, <3>1 DEF Migrate, FileTypes
  <2>5. CASE Replace
    <3>1. task.by \in Callers
      <4>1. task # NoTask
        BY <2>5 DEF Replace, At, NoTask
      <4> QED
        BY <4>1 DEF TaskInv
    <3>2. live' \in Content
      BY <1>1, <2>5, <3>1 DEF Replace, CallTypes, Calling
    <3> QED
      BY <1>1, <2>5, <3>2 DEF Replace, FileTypes
  <2> QED
    BY <1>3, <2>1, <2>2, <2>3, <2>4, <2>5 DEF Goes
<1>4. CASE Ends
  <2>1. CASE Edit
    <3>1. task.by \in Callers
      <4>1. task # NoTask
        BY <2>1 DEF Edit, At, NoTask
      <4> QED
        BY <4>1 DEF TaskInv
    <3>2. live' \in Content
      BY <1>1, <2>1, <3>1 DEF Edit, Content, FileTypes
    <3> QED
      BY <1>1, <2>1, <3>2 DEF Edit, FileTypes
  <2>2. CASE Stamp \/ Install \/ Reject \/ Fail
    BY <1>1, <2>2 DEF Stamp, Install, Reject, Fail, FailTask, files, FileTypes
  <2> QED
    BY <1>4, <2>1, <2>2 DEF Ends
<1>5. CASE Spawn \/ Shutdown \/ Take \/ Stop \/ Crash \/ UNCHANGED vars
  BY <1>1, <1>5 DEF Spawn, Shutdown, Take, Stop, Crash, vars, files, FileTypes
<1>6. ASSUME NEW c \in Callers, Asks(c) PROVE FileTypes'
  BY <1>1, <1>2, <1>6, AskedFor DEF files, FileTypes
<1>7. ASSUME NEW c \in Callers, Send(c) \/ Refused(c) \/ Cancel(c) PROVE FileTypes'
  BY <1>1, <1>7 DEF Send, Refused, Cancel, files, FileTypes
<1> QED
  BY <1>3, <1>4, <1>5, <1>6, <1>7, NextCases

LEMMA CallTypesStep == TypeOK /\ TaskInv /\ [Next]_vars => CallTypes'
<1> SUFFICES ASSUME TypeOK, TaskInv, [Next]_vars PROVE CallTypes'
  OBVIOUS
<1>1. FileTypes /\ TaskTypes /\ CallTypes
  BY TypeParts
<1>2. Idle \in Calling
  BY LifecycleAssumption DEF Idle, Calling, Absent, Content
<1>3. MaxCalls \in Nat /\ MaxFailures \in Nat /\ MaxCrashes \in Nat
  BY LifecycleAssumption
<1>4. CASE Goes
  BY <1>1, <1>4, GoesOn DEF StepOnly, bounds, CallTypes
<1>5. CASE Ends
  <2>1. task.by \in Callers /\ saved' \in {saved, saved \cup {task.by}}
    BY <1>5, EndsJob DEF TaskInv, Ends, Edit, Stamp, Install, Served, Reject, Fail, FailTask
  <2>2. call' \in [Callers -> Calling] /\ lock' \in Callers \cup {NoCaller}
    BY <1>1, <1>2, <1>5, EndsJob DEF Answer, Release, CallTypes
  <2>3. failures' \in 0..MaxFailures
    <3>1. CASE Fail
      BY <1>1, <1>3, <3>1 DEF Fail, CallTypes
    <3>2. CASE Edit \/ Stamp \/ Install \/ Reject
      <4>1. failures' = failures
        BY <3>2 DEF Edit, Stamp, Install, Served, Reject, bounds
      <4> QED
        BY <1>1, <4>1 DEF CallTypes
    <3> QED
      BY <1>5, <3>1, <3>2 DEF Ends
  <2> QED
    BY <1>1, <1>5, <2>1, <2>2, <2>3, EndsJob DEF CallTypes
<1>6. CASE Shutdown
  BY <1>1, <1>3, <1>6 DEF Shutdown, CallTypes
<1>7. CASE Spawn \/ Take \/ Stop \/ UNCHANGED vars
  BY <1>1, <1>7 DEF Spawn, Take, Stop, vars, bounds, CallTypes
<1>8. CASE Crash
  <2>1. call' \in [Callers -> Calling]
    BY <1>2, <1>8 DEF Crash
  <2>2. crashes' \in 0..MaxCrashes
    BY <1>1, <1>3, <1>8 DEF Crash, CallTypes
  <2> QED
    BY <1>1, <1>8, <2>1, <2>2 DEF Crash, CallTypes
<1>9. ASSUME NEW c \in Callers, Asks(c) PROVE CallTypes'
  <2>1. PICK kind \in Kinds, from \in Content :
          /\ call' = [call EXCEPT ![c] = [kind |-> kind, at |-> "waiting", from |-> from]]
          /\ kind = "data" => UNCHANGED <<lifecycle, lock>>
          /\ kind = "start" => lifecycle' = "Initializing"
          /\ kind = "restore" => lifecycle' = "Restoring"
          /\ kind # "data" => lock' = c
    BY <1>1, <1>9, AskedFor
  <2>2. [kind |-> kind, at |-> "waiting", from |-> from] \in Calling
    BY DEF Calling
  <2>3. call' \in [Callers -> Calling] /\ lock' \in Callers \cup {NoCaller}
    BY <1>1, <2>1, <2>2 DEF CallTypes
  <2>4. calls' \in 0..MaxCalls
    BY <1>1, <1>3, <1>9, AskedFor DEF CallTypes
  <2>5. kind \in {"data", "start", "restore"}
    BY DEF Kinds
  <2> QED
    BY <1>1, <1>9, <2>1, <2>3, <2>4, <2>5, AskedFor DEF CallTypes
<1>10. ASSUME NEW c \in Callers, Send(c) PROVE CallTypes'
  <2>1. call' \in [Callers -> Calling]
    BY <1>1, <1>10 DEF Send, CallTypes, Calling
  <2> QED
    BY <1>1, <1>10, <2>1 DEF Send, bounds, CallTypes
<1>11. ASSUME NEW c \in Callers, Refused(c) PROVE CallTypes'
  <2>1. call' \in [Callers -> Calling]
    BY <1>1, <1>2, <1>11 DEF Refused, CallTypes
  <2> QED
    BY <1>1, <1>11, <2>1 DEF Refused, Release, bounds, CallTypes
<1>12. ASSUME NEW c \in Callers, Cancel(c) PROVE CallTypes'
  <2>1. [call[c] EXCEPT !.at = "left"] \in Calling
    BY <1>1 DEF CallTypes, Calling
  <2>2. call' \in [Callers -> Calling]
    BY <1>1, <1>2, <1>12, <2>1 DEF Cancel, CallTypes
  <2> QED
    BY <1>1, <1>12, <2>2 DEF Cancel, Release, bounds, CallTypes
<1> QED
  BY <1>4, <1>5, <1>6, <1>7, <1>8, <1>9, <1>10, <1>11, <1>12, NextCases

LEMMA TaskTypesStep == TypeOK /\ [Next]_vars => TaskTypes'
<1> SUFFICES ASSUME TypeOK, [Next]_vars PROVE TaskTypes'
  OBVIOUS
<1>1. FileTypes /\ TaskTypes /\ CallTypes /\ QueueTypes
  BY TypeParts
<1>2. NoTask \in [by : Callers \cup {NoCaller}, step : Steps]
  BY DEF NoTask, Steps
<1>3. CASE Goes
  <2>1. task'.step \in Steps /\ task' = [task EXCEPT !.step = task'.step]
    BY <1>3, GoesOn DEF Steps, Committing, StartSteps, RestoreSteps
  <2> QED
    BY <1>1, <2>1 DEF TaskTypes
<1>4. CASE Ends
  BY <1>2, <1>4, EndsJob DEF Answer, TaskTypes
<1>5. CASE Take
  <2>1. Head(queue) \in Callers \cup {NoCaller}
    BY <1>1, <1>5 DEF Take, QueueTypes
  <2>2. FirstStep(call[Head(queue)].kind) \in Steps
    BY DEF FirstStep, Steps, Committing
  <2> QED
    BY <1>5, <2>1, <2>2 DEF Take, TaskTypes
<1>6. CASE Crash
  BY <1>2, <1>6 DEF Crash, TaskTypes
<1>7. CASE Spawn \/ Shutdown \/ Stop \/ UNCHANGED vars
  BY <1>1, <1>7 DEF Spawn, Shutdown, Stop, vars, TaskTypes
<1>8. ASSUME NEW c \in Callers, Asks(c) PROVE TaskTypes'
  BY <1>1, <1>8, AskedFor DEF TaskTypes
<1>9. ASSUME NEW c \in Callers, Send(c) \/ Refused(c) \/ Cancel(c) PROVE TaskTypes'
  BY <1>1, <1>9 DEF Send, Refused, Cancel, TaskTypes
<1> QED
  BY <1>3, <1>4, <1>5, <1>6, <1>7, <1>8, <1>9, NextCases

LEMMA QueueTypesStep == TypeOK /\ [Next]_vars => QueueTypes'
<1> SUFFICES ASSUME TypeOK, [Next]_vars PROVE QueueTypes'
  OBVIOUS
<1>1. FileTypes /\ TaskTypes /\ CallTypes /\ QueueTypes
  BY TypeParts
<1>2. ASSUME NEW c \in Callers \cup {NoCaller}, Len(queue) < Capacity, queue' = Append(queue, c)
      PROVE  QueueTypes'
  BY <1>1, <1>2, LifecycleAssumption DEF QueueTypes
<1>3. CASE queue' = <<>>
  BY <1>3, LifecycleAssumption DEF QueueTypes
<1>4. CASE queue' = queue
  BY <1>1, <1>4 DEF QueueTypes
<1>5. CASE Shutdown
  BY <1>2, <1>5 DEF Shutdown
<1>6. CASE Take
  BY <1>1, <1>6, LifecycleAssumption DEF Take, QueueTypes
<1>7. CASE Stop \/ Crash
  BY <1>3, <1>7 DEF Stop, Crash
<1>8. CASE Spawn \/ Goes \/ Ends \/ UNCHANGED vars
  BY <1>4, <1>8, GoesOn, EndsJob DEF Spawn, StepOnly, vars
<1>9. ASSUME NEW c \in Callers, Asks(c) PROVE QueueTypes'
  BY <1>1, <1>4, <1>9, AskedFor
<1>10. ASSUME NEW c \in Callers, Send(c) PROVE QueueTypes'
  BY <1>2, <1>10 DEF Send
<1>11. ASSUME NEW c \in Callers, Refused(c) \/ Cancel(c) PROVE QueueTypes'
  BY <1>4, <1>11 DEF Refused, Cancel
<1> QED
  BY <1>5, <1>6, <1>7, <1>8, <1>9, <1>10, <1>11, NextCases

LEMMA CallInvStep == TypeOK /\ TaskInv /\ CallInv /\ [Next]_vars => CallInv'
<1> SUFFICES ASSUME TypeOK, TaskInv, CallInv, [Next]_vars, NEW c \in Callers
             PROVE  /\ call'[c].at # "idle" => call'[c].kind \in Kinds
                    /\ call'[c].kind = "restore" => call'[c].from \in backups'
  BY DEF CallInv
<1>1. FileTypes /\ CallTypes /\ Idle.at = "idle" /\ Idle.kind = "none"
  BY TypeParts DEF Idle
<1>2. /\ call[c].at # "idle" => call[c].kind \in Kinds
      /\ call[c].kind = "restore" => call[c].from \in backups
  BY DEF CallInv
<1>3. ASSUME call'[c] \in {call[c], Idle}, backups \subseteq backups'
      PROVE  /\ call'[c].at # "idle" => call'[c].kind \in Kinds
             /\ call'[c].kind = "restore" => call'[c].from \in backups'
  BY <1>1, <1>2, <1>3
<1>4. CASE Goes
  <2>1. backups \subseteq backups'
    BY <1>4 DEF Goes, Classify, Bootstrap, UpgradeBackup, Migrate, Rollback, CopyToken, Close,
                RetireJournals, Replace, files
  <2> QED
    BY <1>3, <1>4, <2>1, GoesOn DEF StepOnly
<1>5. CASE Ends
  BY <1>1, <1>3, <1>5, EndsJob DEF Answer, TaskInv, CallTypes
<1>6. CASE Spawn \/ Shutdown \/ Take \/ Stop \/ Crash \/ UNCHANGED vars
  BY <1>3, <1>6 DEF Spawn, Shutdown, Take, Stop, Crash, vars, files
<1>7. ASSUME NEW d \in Callers, Asks(d)
      PROVE  /\ call'[c].at # "idle" => call'[c].kind \in Kinds
             /\ call'[c].kind = "restore" => call'[c].from \in backups'
  <2>1. PICK kind \in Kinds, from \in Content :
          /\ call' = [call EXCEPT ![d] = [kind |-> kind, at |-> "waiting", from |-> from]]
          /\ kind = "restore" => from \in backups
    BY <1>1, <1>7, AskedFor
  <2> QED
    BY <1>1, <1>2, <1>7, <2>1, AskedFor DEF CallTypes, files
<1>8. ASSUME NEW d \in Callers, Send(d)
      PROVE  /\ call'[c].at # "idle" => call'[c].kind \in Kinds
             /\ call'[c].kind = "restore" => call'[c].from \in backups'
  BY <1>1, <1>2, <1>8 DEF Send, CallTypes, Calling, files
<1>9. ASSUME NEW d \in Callers, Refused(d)
      PROVE  /\ call'[c].at # "idle" => call'[c].kind \in Kinds
             /\ call'[c].kind = "restore" => call'[c].from \in backups'
  BY <1>1, <1>3, <1>9 DEF Refused, CallTypes, files
<1>10. ASSUME NEW d \in Callers, Cancel(d)
       PROVE  /\ call'[c].at # "idle" => call'[c].kind \in Kinds
              /\ call'[c].kind = "restore" => call'[c].from \in backups'
  BY <1>1, <1>2, <1>10 DEF Cancel, CallTypes, Calling, files
<1> QED
  BY <1>4, <1>5, <1>6, <1>7, <1>8, <1>9, <1>10, NextCases

LEMMA TaskInvStep ==
    TypeOK /\ TaskInv /\ CallInv /\ QueueInv /\ [Next]_vars => TaskInv'
<1> SUFFICES ASSUME TypeOK, TaskInv, CallInv, QueueInv, [Next]_vars, task' # NoTask
             PROVE  /\ alive'
                    /\ task'.by \in Callers /\ call'[task'.by].at \in {"queued", "left"}
                    /\ \/ task'.step = "edit" /\ call'[task'.by].kind = "data"
                       \/ task'.step \in StartSteps /\ call'[task'.by].kind = "start"
                       \/ task'.step \in RestoreSteps /\ call'[task'.by].kind = "restore"
  BY DEF TaskInv
<1>1. FileTypes /\ CallTypes /\ QueueTypes /\ Idle.at = "idle"
  BY TypeParts DEF Idle
<1>2. ASSUME task' = task, alive' = alive, call'[task.by].kind = call[task.by].kind,
             call'[task.by].at \in {"queued", "left"}
      PROVE  TaskInv'
  BY <1>2 DEF TaskInv
<1>3. CASE Goes
  <2>1. task'.by = task.by /\ alive' /\ call' = call
    BY <1>3, GoesOn DEF StepOnly
  <2>2. \/ task.step \in StartSteps /\ task'.step \in StartSteps
        \/ task.step \in RestoreSteps /\ task'.step \in RestoreSteps
    BY <1>3, GoesOn
  <2> QED
    BY <1>3, <2>1, <2>2, GoesOn DEF TaskInv, StartSteps, RestoreSteps
<1>4. CASE Ends \/ Crash
  BY <1>4, EndsJob DEF Answer, Crash
<1>5. CASE Take
  <2>1. Head(queue) = queue[1] /\ 1 \in DOMAIN queue /\ Head(queue) \in Callers
    BY <1>1, <1>5 DEF Take, QueueTypes
  <2>2. call[Head(queue)].at \in {"queued", "left"} /\ call[Head(queue)].kind \in Kinds
    BY <1>5, <2>1 DEF Take, QueueInv, CallInv
  <2> QED
    BY <1>5, <2>1, <2>2 DEF Take, FirstStep, Kinds, StartSteps, RestoreSteps
<1>6. CASE Spawn \/ Shutdown \/ Stop \/ UNCHANGED vars
  BY <1>2, <1>6 DEF Spawn, Shutdown, Stop, vars, TaskInv
<1>7. ASSUME NEW c \in Callers, Asks(c) PROVE TaskInv'
  <2>1. task' = task /\ alive' = alive /\ call[c].at = "idle"
    BY <1>1, <1>7, AskedFor
  <2>2. \A d \in Callers : d # c => call'[d] = call[d]
    BY <1>1, <1>7, AskedFor DEF CallTypes
  <2> QED
    BY <1>2, <2>1, <2>2 DEF TaskInv
<1>8. ASSUME NEW c \in Callers, Send(c) \/ Refused(c) \/ Cancel(c) PROVE TaskInv'
  <2>1. task' = task /\ alive' = alive /\ task # NoTask
    BY <1>8 DEF Send, Refused, Cancel
  <2>2. call'[task.by].kind = call[task.by].kind /\ call'[task.by].at \in {"queued", "left"}
    BY <1>1, <1>8, <2>1 DEF Send, Refused, Cancel, CallTypes, Calling, TaskInv
  <2> QED
    BY <1>2, <2>1, <2>2
<1> QED
  BY <1>3, <1>4, <1>5, <1>6, <1>7, <1>8, NextCases DEF TaskInv

LEMMA QueueInvStep ==
    TypeOK /\ TaskInv /\ CallInv /\ QueueInv /\ [Next]_vars => QueueInv'
<1> SUFFICES ASSUME TypeOK, TaskInv, CallInv, QueueInv, [Next]_vars PROVE QueueInv'
  OBVIOUS
<1>1. FileTypes /\ CallTypes /\ QueueTypes /\ Idle.at = "idle"
  BY TypeParts DEF Idle
<1>2. \A i \in DOMAIN queue : queue[i] \in Callers \cup {NoCaller}
  BY <1>1 DEF QueueTypes
<1>3. CASE queue' = <<>>
  BY <1>3 DEF QueueInv
<1>4. ASSUME queue' = queue, alive' = alive, task' \in {task, NoTask},
             \A i \in DOMAIN queue : queue[i] # NoCaller =>
                 call'[queue[i]].at \in {"queued", "left"}
      PROVE  QueueInv'
  BY <1>4 DEF QueueInv
<1>5. CASE Spawn
  BY <1>3, <1>5 DEF Spawn, QueueInv
<1>6. CASE Stop \/ Crash
  BY <1>3, <1>6 DEF Stop, Crash
<1>7. CASE Goes
  BY <1>7, GoesOn DEF StepOnly, QueueInv
<1>8. CASE Ends
  <2>1. task # NoTask /\ task.by \in Callers
    BY <1>8, EndsJob DEF TaskInv
  <2>2. \A i \in DOMAIN queue : queue[i] # NoCaller => call'[queue[i]] = call[queue[i]]
    BY <1>1, <1>2, <1>8, <2>1, EndsJob DEF Answer, QueueInv, CallTypes
  <2> QED
    BY <1>4, <1>8, <2>2, EndsJob DEF Answer, QueueInv
<1>9. CASE UNCHANGED vars
  BY <1>9 DEF vars, QueueInv
<1>10. ASSUME NEW c \in Callers, Asks(c) PROVE QueueInv'
  <2>1. \A d \in Callers : call[d].at # "idle" => call'[d] = call[d]
    BY <1>1, <1>10, AskedFor DEF CallTypes
  <2>2. queue' = queue /\ alive' = alive /\ task' = task
    BY <1>1, <1>10, AskedFor
  <2>3. \A i \in DOMAIN queue : queue[i] # NoCaller =>
            call'[queue[i]].at \in {"queued", "left"}
    BY <1>2, <2>1 DEF QueueInv
  <2> QED
    BY <1>4, <2>2, <2>3
<1>11. ASSUME NEW c \in Callers, Cancel(c) PROVE QueueInv'
  <2>1. \A d \in Callers : call[d].at \in {"queued", "left"}
                           => call'[d].at \in {"queued", "left"}
    BY <1>1, <1>11 DEF Cancel, CallTypes, Calling
  <2>2. \A i \in DOMAIN queue : queue[i] # NoCaller =>
            call'[queue[i]].at \in {"queued", "left"}
    BY <1>2, <2>1 DEF QueueInv
  <2> QED
    BY <1>4, <1>11, <2>2 DEF Cancel
<1>12. ASSUME NEW c \in Callers, Refused(c) PROVE QueueInv'
  BY <1>3, <1>12 DEF Refused, QueueInv
<1>13. CASE Shutdown
  <2>1. /\ DOMAIN queue' = 1..Len(queue) + 1 /\ DOMAIN queue = 1..Len(queue)
        /\ queue'[Len(queue) + 1] = NoCaller
        /\ \A i \in 1..Len(queue) : queue'[i] = queue[i]
    BY <1>1, <1>13 DEF Shutdown, QueueTypes
  <2>2. Len(queue) \in Nat
    BY <1>1 DEF QueueTypes
  <2>3. alive' /\ call' = call /\ task' = task
    BY <1>13 DEF Shutdown
  <2>4. \A i \in DOMAIN queue' : queue'[i] # NoCaller =>
          /\ call'[queue'[i]].at \in {"queued", "left"}
          /\ task' # NoTask => queue'[i] # task'.by
    BY <2>1, <2>2, <2>3 DEF QueueInv
  <2>5. \A i \in 1..Len(queue) : queue[i] # NoCaller
    BY <1>13, <2>1 DEF Shutdown
  <2>6. \A i, j \in DOMAIN queue' : queue'[i] = queue'[j] => i = j
    BY <2>1, <2>2, <2>5 DEF QueueInv
  <2> QED
    BY <2>3, <2>4, <2>6 DEF QueueInv
<1>14. ASSUME NEW c \in Callers, Send(c) PROVE QueueInv'
  <2>1. /\ DOMAIN queue' = 1..Len(queue) + 1 /\ DOMAIN queue = 1..Len(queue)
        /\ queue'[Len(queue) + 1] = c
        /\ \A i \in 1..Len(queue) : queue'[i] = queue[i]
    BY <1>1, <1>14 DEF Send, QueueTypes
  <2>2. Len(queue) \in Nat
    BY <1>1 DEF QueueTypes
  <2>3. alive' /\ task' = task /\ call'[c].at = "queued" /\ call[c].at = "waiting"
    BY <1>1, <1>14 DEF Send, CallTypes, Calling
  <2>4. \A d \in Callers : d # c => call'[d] = call[d]
    BY <1>1, <1>14 DEF Send, CallTypes
  <2>5. \A i \in 1..Len(queue) : queue[i] # c
    BY <2>1, <2>3, LifecycleAssumption DEF QueueInv
  <2>6. task # NoTask => task.by # c
    BY <2>3 DEF TaskInv
  <2>7. \A i \in DOMAIN queue' : queue'[i] # NoCaller =>
          /\ call'[queue'[i]].at \in {"queued", "left"}
          /\ task' # NoTask => queue'[i] # task'.by
    BY <1>2, <2>1, <2>2, <2>3, <2>4, <2>5, <2>6 DEF QueueInv
  <2>8. \A i, j \in DOMAIN queue' : queue'[i] = queue'[j] => i = j
    BY <2>1, <2>2, <2>5 DEF QueueInv
  <2> QED
    BY <2>3, <2>7, <2>8 DEF QueueInv
<1>15. CASE Take
  <2>1. /\ Len(queue) \in Nat \ {0} /\ DOMAIN queue = 1..Len(queue)
        /\ DOMAIN queue' = 1..Len(queue) - 1 /\ Head(queue) = queue[1]
        /\ \A i \in 1..Len(queue) - 1 : queue'[i] = queue[i + 1]
    BY <1>1, <1>15 DEF Take, QueueTypes
  <2>2. \A i \in DOMAIN queue' : i + 1 \in DOMAIN queue /\ i + 1 # 1
    BY <2>1
  <2>3. alive' /\ call' = call /\ task'.by = queue[1]
    BY <1>15, <2>1 DEF Take
  <2>4. \A i \in DOMAIN queue' : queue'[i] # NoCaller =>
          /\ call'[queue'[i]].at \in {"queued", "left"}
          /\ queue'[i] # task'.by
    BY <2>1, <2>2, <2>3 DEF QueueInv
  <2>5. \A i, j \in DOMAIN queue' : queue'[i] = queue'[j] => i = j
    <3> SUFFICES ASSUME NEW i \in DOMAIN queue', NEW j \in DOMAIN queue',
                        queue'[i] = queue'[j]
                 PROVE  i = j
      OBVIOUS
    <3>1. i + 1 = j + 1
      BY <2>1, <2>2 DEF QueueInv
    <3> QED
      BY <2>1, <3>1
  <2> QED
    BY <2>3, <2>4, <2>5 DEF QueueInv
<1> QED
  BY <1>5, <1>6, <1>7, <1>8, <1>9, <1>10, <1>11, <1>12, <1>13, <1>14, <1>15, NextCases

LEMMA MachineAlways == Spec => []MachineInv
<1>1. Init => MachineInv
  <2> SUFFICES ASSUME Init PROVE MachineInv
    OBVIOUS
  <2>1. Absent \in Content /\ Absent.version = 0
    BY LifecycleAssumption DEF Absent, Content
  <2>2. [version : 1..Latest + 1, edits : {{}}] \subseteq Content
    BY LifecycleAssumption DEF Content
  <2>3. live \in Content
    BY <2>1, <2>2 DEF Init
  <2>4. Idle \in Calling
    BY <2>1 DEF Idle, Calling
  <2>5. FileTypes
    BY <2>3 DEF Init, FileTypes
  <2>9. call \in [Callers -> Calling]
    BY <2>4 DEF Init
  <2>10. calls \in 0..MaxCalls /\ failures \in 0..MaxFailures /\ crashes \in 0..MaxCrashes
    BY LifecycleAssumption DEF Init
  <2>11. CallTypes
    BY <2>9, <2>10 DEF Init, CallTypes
  <2>6. TaskTypes
    BY DEF Init, TaskTypes, NoTask, Steps
  <2>7. QueueTypes
    BY LifecycleAssumption DEF Init, QueueTypes
  <2>8. CallInv /\ TaskInv /\ QueueInv
    BY DEF Init, CallInv, TaskInv, QueueInv, Idle
  <2> QED
    BY <2>5, <2>6, <2>7, <2>8, <2>11, TypeParts DEF MachineInv
<1>2. MachineInv /\ [Next]_vars => MachineInv'
  <2> SUFFICES ASSUME MachineInv, [Next]_vars PROVE MachineInv'
    OBVIOUS
  <2>1. FileTypes' /\ CallTypes' /\ TaskTypes' /\ QueueTypes'
    BY FileTypesStep, CallTypesStep, TaskTypesStep, QueueTypesStep DEF MachineInv
  <2>2. TypeOK'
    BY <2>1 DEF TypeOK, FileTypes, CallTypes, Calling, TaskTypes, QueueTypes
  <2> QED
    BY <2>2, CallInvStep, TaskInvStep, QueueInvStep DEF MachineInv
<1> QED
  BY <1>1, <1>2, PTL DEF Spec

\* Every variable stays in its set; a job is in the queue or run at most once
\* (executor.rs:193-262).
THEOREM TypeCorrect == Spec => []TypeOK
<1>1. MachineInv => TypeOK
  BY DEF MachineInv
<1> QED
  BY <1>1, MachineAlways, PTL

----------------------------------------------------------------------------
\* startup_lock and the lifecycle admit one start or restore at a time, and the
\* lifecycle says so until it is answered, though its caller has gone.
Starting(c) == call[c].kind \in {"start", "restore"}
OneStarter ==
    /\ \A c \in Callers : Starting(c) => lifecycle \in {"Initializing", "Restoring"}
    /\ \A c, d \in Callers : Starting(c) /\ Starting(d) => c = d

LEMMA OneStarterStep == MachineInv /\ OneStarter /\ [Next]_vars => OneStarter'
<1> SUFFICES ASSUME MachineInv, OneStarter, [Next]_vars PROVE OneStarter'
  OBVIOUS
<1>1. CallTypes /\ FileTypes /\ TypeOK /\ TaskInv /\ Idle.kind = "none"
  BY TypeParts DEF MachineInv, Idle
<1>2. ASSUME lifecycle' = lifecycle, \A c \in Callers : Starting(c)' => Starting(c)
      PROVE  OneStarter'
  BY <1>2 DEF OneStarter
<1>3. ASSUME \A c \in Callers : ~Starting(c)' PROVE OneStarter'
  BY <1>3 DEF OneStarter
<1>4. CASE Goes
  BY <1>1, <1>2, <1>4, GoesOn DEF StepOnly, Starting
<1>5. CASE Ends
  <2>1. task # NoTask /\ task.by \in Callers
    BY <1>1, <1>5, EndsJob DEF TaskInv
  <2>2. \A c \in Callers : call'[c] = IF c = task.by THEN Idle ELSE call[c]
    BY <1>1, <1>5, <2>1, EndsJob DEF Answer, CallTypes
  <2>3. CASE task.step = "edit"
    <3>1. lifecycle' = lifecycle
      BY <1>5, <2>3 DEF Ends, Edit, Stamp, Install, Reject, Rejects, Fail, FailTask, At
    <3> QED
      BY <1>1, <1>2, <2>2, <3>1 DEF Starting
  <2>4. CASE task.step # "edit"
    <3>1. Starting(task.by)
      BY <1>1, <2>1, <2>4 DEF TaskInv, Starting
    <3>2. \A c \in Callers : ~Starting(c)'
      BY <1>1, <2>1, <2>2, <3>1 DEF OneStarter, Starting
    <3> QED
      BY <1>3, <3>2
  <2> QED
    BY <2>3, <2>4
<1>6. CASE Spawn \/ Crash
  <2>1. \A c \in Callers : call'[c] = Idle
    BY <1>6 DEF Spawn, Crash
  <2> QED
    BY <1>1, <1>3, <2>1 DEF Starting
<1>7. CASE Shutdown \/ Take \/ Stop \/ UNCHANGED vars
  BY <1>2, <1>7 DEF Shutdown, Take, Stop, vars, Starting
<1>8. ASSUME NEW c \in Callers, Asks(c) PROVE OneStarter'
  <2>1. PICK kind \in Kinds, from \in Content :
          /\ call' = [call EXCEPT ![c] = [kind |-> kind, at |-> "waiting", from |-> from]]
          /\ kind = "data" => UNCHANGED <<lifecycle, lock>>
          /\ kind = "start" => lifecycle \in {"Uninitialized", "RecoveryRequired"}
                               /\ lifecycle' = "Initializing"
          /\ kind = "restore" => lifecycle' = "Restoring"
                                 /\ lifecycle \in {"Ready", "RecoveryRequired"}
    BY <1>1, <1>8, AskedFor
  <2>2. \A d \in Callers : call'[d].kind = IF d = c THEN kind ELSE call[d].kind
    BY <1>1, <2>1 DEF CallTypes
  <2>3. CASE kind = "data"
    BY <1>2, <2>1, <2>2, <2>3 DEF Starting
  <2>4. CASE kind \in {"start", "restore"}
    <3>1. \A d \in Callers : ~Starting(d)
      BY <2>1, <2>4 DEF OneStarter
    <3> QED
      BY <2>1, <2>2, <2>4, <3>1 DEF OneStarter, Starting
  <2> QED
    BY <2>3, <2>4 DEF Kinds
<1>9. ASSUME NEW c \in Callers, Send(c) \/ Refused(c) \/ Cancel(c) PROVE OneStarter'
  <2>1. \A d \in Callers : call'[d].kind \in {call[d].kind, "none"}
    BY <1>1, <1>9 DEF Send, Refused, Cancel, CallTypes, Calling
  <2> QED
    BY <1>2, <1>9, <2>1 DEF Send, Refused, Cancel, Starting
<1> QED
  BY <1>4, <1>5, <1>6, <1>7, <1>8, <1>9, NextCases

----------------------------------------------------------------------------
\* What the files are, at rest and at each step of a start or a restore.
WholeFiles ==
    /\ live.version = 0 => live = Absent
    /\ hot \/ torn => live.version # 0
    /\ \A b \in backups : b.version # 0
    /\ torn => live \in backups /\ ~conn
DataOnFile == \A c \in Callers : call[c].kind = "data" => live.version # 0
Covered == \E b \in backups : b.edits = live.edits /\ b.version <= live.version
StepInv ==
    /\ task.step = "bootstrap" => live = Absent
    /\ task.step \in {"backup", "migrate", "stamp", "remigrate", "install"}
          => live.version # 0 /\ ~hot /\ ~torn
    /\ task.step \in {"copy", "close", "retire", "rename"} => live \in backups
    /\ task.step \in {"retire", "rename", "remigrate", "install"} => ~conn
    /\ task.step = "rename" => ~hot
    /\ task.step \in {"migrate", "remigrate"} => Covered
FilesInv == WholeFiles /\ DataOnFile /\ StepInv /\ ReadyServes /\ NothingLost
LifecycleInv == MachineInv /\ OneStarter /\ FilesInv

LEMMA Inspected ==
    ASSUME TypeOK, WholeFiles
    PROVE  /\ Inspect = "Fresh" => live = Absent
           /\ Inspect \in {"Older", "Current"} => live.version # 0 /\ ~hot /\ ~torn
<1>1. Absent.version = 0
  BY DEF Absent
<1>2. CASE live = Absent
  BY <1>2 DEF Inspect
<1>3. CASE live # Absent /\ (hot \/ torn)
  BY <1>3 DEF Inspect
<1>4. CASE live # Absent /\ ~hot /\ ~torn
  BY <1>4 DEF Inspect, WholeFiles
<1> QED
  BY <1>2, <1>3, <1>4

\* A step within a start or a restore: the lifecycle is not Ready.
LEMMA FilesGoOn == LifecycleInv /\ Goes => FilesInv'
<1> SUFFICES ASSUME LifecycleInv, Goes PROVE FilesInv'
  OBVIOUS
<1>1. /\ TypeOK /\ FileTypes /\ TaskTypes /\ CallTypes /\ TaskInv /\ CallInv /\ OneStarter
      /\ WholeFiles /\ DataOnFile /\ StepInv /\ NothingLost
  BY TypeParts DEF LifecycleInv, MachineInv, FilesInv
<1>2. /\ task # NoTask /\ task.by \in Callers /\ Starting(task.by)
      /\ call' = call /\ lifecycle' = lifecycle /\ alive' = alive /\ saved' = saved
  BY <1>1, GoesOn DEF TaskInv, Starting, StartSteps, RestoreSteps, StepOnly
<1>3. ReadyServes'
  BY <1>1, <1>2 DEF OneStarter, ReadyServes
<1>4. live.version \in Nat /\ Absent.version = 0 /\ Absent.edits = {}
  BY <1>1, LifecycleAssumption DEF FileTypes, Content, Absent
<1>5. ASSUME NEW step, Goto(step) PROVE task'.step = step
  BY <1>1, <1>5 DEF Goto, TaskTypes
<1>6. CASE Classify
  <2>1. PICK step \in {"bootstrap", "backup", "stamp"} :
          /\ Goto(step) /\ UNCHANGED <<live, hot, torn, backups, conn>>
          /\ step = "bootstrap" => Inspect = "Fresh"
          /\ step # "bootstrap" => Inspect \in {"Older", "Current"}
    BY <1>6 DEF Classify, files
  <2>2. StepInv'
    BY <1>1, <1>5, <2>1, Inspected DEF StepInv
  <2> QED
    BY <1>1, <1>2, <1>3, <2>1, <2>2 DEF FilesInv, WholeFiles, DataOnFile, NothingLost
<1>7. CASE Bootstrap
  <2>1. task'.step = "stamp" /\ live = Absent /\ ~hot /\ ~torn
    BY <1>1, <1>4, <1>5, <1>7 DEF Bootstrap, At, StepInv, WholeFiles
  <2>2. live'.version = Latest /\ Latest # 0 /\ UNCHANGED <<hot, torn, backups, conn>>
    BY <1>7, LifecycleAssumption DEF Bootstrap
  <2>3. StepInv' /\ WholeFiles' /\ DataOnFile'
    BY <1>1, <2>1, <2>2 DEF StepInv, WholeFiles, DataOnFile
  <2>4. NothingLost'
    BY <1>1, <1>2, <1>4, <2>1, <2>2 DEF NothingLost
  <2> QED
    BY <1>3, <2>3, <2>4 DEF FilesInv
<1>8. CASE UpgradeBackup
  <2>1. /\ task.step = "backup" /\ task'.step = "migrate" /\ backups' = backups \cup {live}
        /\ UNCHANGED <<live, hot, torn, conn>>
    BY <1>5, <1>8 DEF UpgradeBackup, At
  <2>2. live.version # 0 /\ ~hot /\ ~torn
    BY <1>1, <2>1 DEF StepInv
  <2>3. Covered'
    BY <1>4, <2>1 DEF Covered
  <2>4. StepInv' /\ WholeFiles' /\ DataOnFile'
    BY <1>1, <1>2, <2>1, <2>2, <2>3 DEF StepInv, WholeFiles, DataOnFile
  <2>5. NothingLost'
    BY <1>1, <1>2, <2>1 DEF NothingLost
  <2> QED
    BY <1>3, <2>4, <2>5 DEF FilesInv
<1>9. ASSUME NEW step \in {"migrate", "remigrate"}, NEW next \in {"stamp", "install"},
             step = "migrate" <=> next = "stamp", Migrate(step, next)
      PROVE  FilesInv'
  <2>1. /\ task.step = step /\ task'.step \in {step, next}
        /\ UNCHANGED <<hot, torn, backups, conn>>
    <3>1. PICK to \in {step, next} : Goto(to)
      BY <1>9 DEF Migrate
    <3> QED
      BY <1>5, <1>9, <3>1 DEF Migrate, At
  <2>2. live'.version \in Nat /\ live'.version >= live.version /\ live'.edits = live.edits
    BY <1>1, <1>4, <1>9 DEF Migrate, FileTypes, Content
  <2>3. live.version # 0 /\ ~hot /\ ~torn /\ Covered /\ (step = "remigrate" => ~conn)
    BY <1>1, <2>1 DEF StepInv
  <2>4. Covered'
    <3>1. PICK b \in backups : b.edits = live.edits /\ b.version <= live.version
      BY <2>3 DEF Covered
    <3>2. b.version \in Nat
      BY <1>1, LifecycleAssumption DEF FileTypes, Content
    <3> QED
      BY <1>4, <2>1, <2>2, <3>1, <3>2 DEF Covered
  <2>5. live'.version # 0
    BY <1>4, <2>2, <2>3
  <2>6. StepInv'
    BY <1>9, <2>1, <2>3, <2>4, <2>5 DEF StepInv
  <2>7. WholeFiles' /\ DataOnFile'
    BY <1>1, <2>1, <2>3, <2>5 DEF WholeFiles, DataOnFile
  <2>8. NothingLost'
    BY <1>1, <1>2, <2>1, <2>2 DEF NothingLost
  <2> QED
    BY <1>3, <2>6, <2>7, <2>8 DEF FilesInv
<1>10. CASE Rollback
  <2>1. /\ task'.step = "copy" /\ backups' = backups \cup {live}
        /\ UNCHANGED <<live, hot, torn, conn>> /\ live.version # 0 /\ ~hot /\ ~torn
    BY <1>1, <1>5, <1>10, Inspected DEF Rollback
  <2>2. StepInv' /\ WholeFiles' /\ DataOnFile'
    BY <1>1, <1>2, <2>1 DEF StepInv, WholeFiles, DataOnFile
  <2>3. NothingLost'
    BY <1>1, <1>2, <2>1 DEF NothingLost
  <2> QED
    BY <1>3, <2>2, <2>3 DEF FilesInv
<1>11. CASE CopyToken
  <2>1. /\ task.step = "copy" /\ task'.step = "close"
        /\ UNCHANGED <<live, hot, torn, backups, conn>>
    BY <1>5, <1>11 DEF CopyToken, At, files
  <2>2. StepInv' /\ WholeFiles' /\ DataOnFile' /\ NothingLost'
    BY <1>1, <1>2, <2>1 DEF StepInv, WholeFiles, DataOnFile, NothingLost
  <2> QED
    BY <1>3, <2>2 DEF FilesInv
<1>12. CASE Close
  <2>1. /\ task.step = "close" /\ task'.step = "retire" /\ ~conn'
        /\ UNCHANGED <<live, hot, torn, backups>>
    BY <1>5, <1>12 DEF Close, At, files
  <2>2. StepInv' /\ WholeFiles' /\ DataOnFile' /\ NothingLost'
    BY <1>1, <1>2, <2>1 DEF StepInv, WholeFiles, DataOnFile, NothingLost
  <2> QED
    BY <1>3, <2>2 DEF FilesInv
<1>13. CASE RetireJournals
  <2>1. /\ task.step = "retire" /\ task'.step = "rename" /\ ~hot' /\ torn' = (torn \/ hot)
        /\ UNCHANGED <<live, backups, conn>>
    BY <1>5, <1>13 DEF RetireJournals, At
  <2>2. live \in backups /\ ~conn
    BY <1>1, <2>1 DEF StepInv
  <2>3. StepInv' /\ WholeFiles' /\ DataOnFile'
    BY <1>1, <1>2, <2>1, <2>2 DEF StepInv, WholeFiles, DataOnFile
  <2>4. NothingLost'
    BY <1>1, <1>2, <2>1, <2>2 DEF NothingLost
  <2> QED
    BY <1>3, <2>3, <2>4 DEF FilesInv
<1>14. CASE Replace
  <2>1. /\ task.step = "rename" /\ task'.step = "remigrate" /\ ~torn'
        /\ live' = call[task.by].from /\ UNCHANGED <<hot, backups, conn>>
    BY <1>5, <1>14 DEF Replace, At
  <2>2. live \in backups /\ ~conn /\ ~hot
    BY <1>1, <2>1 DEF StepInv
  <2>3. live' \in backups
    BY <1>1, <1>2, <2>1 DEF TaskInv, CallInv, StartSteps
  <2>4. live'.version # 0 /\ live'.version \in Nat
    BY <1>1, <2>3, LifecycleAssumption DEF WholeFiles, FileTypes, Content
  <2>5. Covered'
    BY <2>1, <2>3, <2>4 DEF Covered
  <2>6. StepInv' /\ WholeFiles' /\ DataOnFile'
    BY <1>1, <2>1, <2>2, <2>4, <2>5 DEF StepInv, WholeFiles, DataOnFile
  <2>7. NothingLost'
    BY <1>1, <1>2, <2>1, <2>2 DEF NothingLost
  <2> QED
    BY <1>3, <2>6, <2>7 DEF FilesInv
<1> QED
  BY <1>6, <1>7, <1>8, <1>9, <1>10, <1>11, <1>12, <1>13, <1>14 DEF Goes

\* The end of a job: an edit, a connection that is stored, or a failure.
LEMMA FilesEnd == LifecycleInv /\ Ends => FilesInv'
<1> SUFFICES ASSUME LifecycleInv, Ends PROVE FilesInv'
  OBVIOUS
<1>1. /\ TypeOK /\ FileTypes /\ CallTypes /\ TaskInv /\ OneStarter
      /\ WholeFiles /\ DataOnFile /\ StepInv /\ ReadyServes /\ NothingLost
  BY TypeParts DEF LifecycleInv, MachineInv, FilesInv
<1>2. /\ task # NoTask /\ task.by \in Callers /\ alive /\ alive'
      /\ task' = NoTask /\ NoTask.step = "none"
      /\ \A c \in Callers : call'[c] = IF c = task.by THEN Idle ELSE call[c]
      /\ UNCHANGED <<backups, hot, torn>>
  BY <1>1, EndsJob DEF Answer, TaskInv, NoTask, CallTypes
<1>3. StepInv'
  BY <1>2 DEF StepInv
<1>4. \A c \in Callers : call'[c].kind = "data" => call[c].kind = "data"
  BY <1>2 DEF Idle
<1>5. CASE Edit
  <2>1. task.step = "edit" /\ call[task.by].kind = "data" /\ live.version # 0
    BY <1>1, <1>2, <1>5 DEF Edit, At, TaskInv, StartSteps, RestoreSteps, DataOnFile
  <2>2. /\ live'.version = live.version /\ UNCHANGED <<conn, lifecycle>>
        /\ live.edits \subseteq live'.edits
        /\ ~conn => live' = live /\ saved' = saved
        /\ saved' \subseteq saved \cup {task.by}
        /\ conn => task.by \in live'.edits
    BY <1>1, <1>5 DEF Edit, FileTypes, Content
  <2>3. WholeFiles'
    BY <1>1, <1>2, <2>1, <2>2 DEF WholeFiles
  <2>4. DataOnFile' /\ ReadyServes'
    BY <1>1, <1>2, <2>1, <2>2 DEF DataOnFile, ReadyServes
  <2>5. NothingLost'
    <3> SUFFICES ASSUME NEW c \in saved'
                 PROVE  (c \in live'.edits /\ ~torn') \/ \E b \in backups' : c \in b.edits
      BY DEF NothingLost
    <3>1. CASE c \in saved
      BY <1>1, <1>2, <2>2, <3>1 DEF NothingLost
    <3>2. CASE c \notin saved
      <4>1. conn /\ c = task.by
        BY <2>2, <3>2
      <4>2. ~torn
        BY <1>1, <4>1 DEF WholeFiles
      <4> QED
        BY <1>2, <2>2, <4>1, <4>2
    <3> QED
      BY <3>1, <3>2
  <2> QED
    BY <1>3, <2>3, <2>4, <2>5 DEF FilesInv
<1>6. CASE Stamp \/ Install
  <2>1. task.step \in {"stamp", "install"} /\ conn' /\ live.version = Latest /\ ~torn
        /\ UNCHANGED <<live, saved>>
    BY <1>6 DEF Stamp, Install, At, Matches, Served, files
  <2>2. ~hot
    BY <1>1, <2>1 DEF StepInv
  <2>3. WholeFiles' /\ DataOnFile' /\ ReadyServes' /\ NothingLost'
    BY <1>1, <1>2, <1>4, <2>1, <2>2 DEF WholeFiles, DataOnFile, ReadyServes, NothingLost
  <2> QED
    BY <1>3, <2>3 DEF FilesInv
<1>7. CASE Reject \/ Fail
  <2>1. UNCHANGED <<live, conn, saved>> /\ lifecycle' \in {lifecycle, "RecoveryRequired"}
    BY <1>7 DEF Reject, Fail, FailTask, files
  <2>2. WholeFiles' /\ DataOnFile' /\ ReadyServes' /\ NothingLost'
    BY <1>1, <1>2, <1>4, <2>1 DEF WholeFiles, DataOnFile, ReadyServes, NothingLost
  <2> QED
    BY <1>3, <2>2 DEF FilesInv
<1> QED
  BY <1>5, <1>6, <1>7 DEF Ends

\* Steps of the callers, and of the process, leave the content of the files alone.
LEMMA FilesRest ==
    LifecycleInv /\ [Next]_vars /\ ~Goes /\ ~Ends => FilesInv'
<1> SUFFICES ASSUME LifecycleInv, [Next]_vars, ~Goes, ~Ends PROVE FilesInv'
  OBVIOUS
<1>1. /\ TypeOK /\ FileTypes /\ CallTypes /\ TaskInv
      /\ WholeFiles /\ DataOnFile /\ StepInv /\ ReadyServes /\ NothingLost
  BY TypeParts DEF LifecycleInv, MachineInv, FilesInv
<1>2. NoTask.step = "none" /\ Idle.kind = "none"
  BY DEF NoTask, Idle
<1>3. ASSUME UNCHANGED <<files, saved>>, conn' => conn,
             \A c \in Callers : call'[c].kind = "data" => call[c].kind = "data" \/ live.version # 0,
             task'.step \in {task.step, "none", "edit", "inspect", "rollback"},
             alive' /\ lifecycle' = "Ready" => alive /\ lifecycle = "Ready" /\ (conn => conn')
      PROVE  FilesInv'
  <2>1. UNCHANGED <<live, hot, torn, backups>>
    BY <1>3 DEF files
  <2>2. StepInv'
    BY <1>1, <1>3, <2>1 DEF StepInv, Covered
  <2>3. WholeFiles'
    BY <1>1, <1>3, <2>1 DEF WholeFiles
  <2>4. DataOnFile' /\ NothingLost'
    BY <1>1, <1>3, <2>1 DEF DataOnFile, NothingLost
  <2>5. ReadyServes'
    BY <1>1, <1>3, <2>1 DEF ReadyServes
  <2> QED
    BY <2>2, <2>3, <2>4, <2>5 DEF FilesInv
<1>4. CASE Spawn \/ Shutdown \/ Stop \/ UNCHANGED vars
  <2>1. CASE Spawn
    BY <1>3, <2>1 DEF Spawn
  <2>2. CASE Shutdown
    BY <1>3, <2>2 DEF Shutdown
  <2>3. CASE Stop
    BY <1>3, <2>3 DEF Stop
  <2>4. CASE UNCHANGED vars
    BY <1>3, <2>4 DEF vars
  <2> QED
    BY <1>4, <2>1, <2>2, <2>3, <2>4
<1>5. CASE Take
  <2>1. task'.step \in {"edit", "inspect", "rollback"}
    BY <1>5 DEF Take, FirstStep
  <2> QED
    BY <1>3, <1>5, <2>1 DEF Take
<1>6. CASE Crash
  <2>1. /\ UNCHANGED <<live, torn, backups, saved>> /\ ~alive' /\ ~conn' /\ task' = NoTask
        /\ hot' => hot \/ task.step \in Committing
        /\ \A c \in Callers : call'[c] = Idle
    BY <1>6 DEF Crash
  <2>2. task.step \in Committing => live.version # 0
    BY <1>1, <1>2 DEF Committing, TaskInv, StepInv, DataOnFile, StartSteps, RestoreSteps
  <2>3. WholeFiles'
    BY <1>1, <2>1, <2>2 DEF WholeFiles
  <2>4. StepInv' /\ DataOnFile' /\ ReadyServes' /\ NothingLost'
    BY <1>1, <1>2, <2>1 DEF StepInv, DataOnFile, ReadyServes, NothingLost
  <2> QED
    BY <2>3, <2>4 DEF FilesInv
<1>7. ASSUME NEW c \in Callers, Asks(c) PROVE FilesInv'
  <2>1. PICK kind \in Kinds, from \in Content :
          /\ call' = [call EXCEPT ![c] = [kind |-> kind, at |-> "waiting", from |-> from]]
          /\ kind = "data" => lifecycle = "Ready" /\ lifecycle' = lifecycle
          /\ kind = "start" => lifecycle' = "Initializing"
          /\ kind = "restore" => lifecycle' = "Restoring"
    BY <1>1, <1>7, AskedFor
  <2>2. alive /\ UNCHANGED <<files, conn, alive, task, saved>>
    BY <1>1, <1>7, AskedFor
  <2>3. \A d \in Callers : call'[d].kind = IF d = c THEN kind ELSE call[d].kind
    BY <1>1, <2>1 DEF CallTypes
  <2>4. kind = "data" => live.version # 0
    BY <1>1, <2>1, <2>2, LifecycleAssumption DEF ReadyServes
  <2>5. lifecycle' = "Ready" => lifecycle = "Ready"
    BY <2>1 DEF Kinds
  <2> QED
    BY <1>3, <2>2, <2>3, <2>4, <2>5
<1>8. ASSUME NEW c \in Callers, Send(c) \/ Refused(c) \/ Cancel(c) PROVE FilesInv'
  <2>1. \A d \in Callers : call'[d].kind \in {call[d].kind, "none"}
    BY <1>1, <1>2, <1>8 DEF Send, Refused, Cancel, CallTypes, Calling
  <2> QED
    BY <1>3, <1>8, <2>1 DEF Send, Refused, Cancel
<1> QED
  BY <1>4, <1>5, <1>6, <1>7, <1>8, NextCases

LEMMA LifecycleAlways == Spec => []LifecycleInv
<1>1. Init => OneStarter /\ FilesInv
  <2> SUFFICES ASSUME Init PROVE OneStarter /\ FilesInv
    OBVIOUS
  <2>1. Idle.kind = "none" /\ Absent.version = 0 /\ NoTask.step = "none"
    BY DEF Idle, Absent, NoTask
  <2>2. live = Absent \/ live.version \in 1..Latest + 1
    BY DEF Init
  <2> QED
    BY <2>1, <2>2, LifecycleAssumption
       DEF Init, OneStarter, Starting, FilesInv, WholeFiles, DataOnFile, StepInv, ReadyServes,
           NothingLost
<1>2. LifecycleInv /\ MachineInv' /\ [Next]_vars => LifecycleInv'
  BY OneStarterStep, FilesGoOn, FilesEnd, FilesRest DEF LifecycleInv
<1> QED
  BY <1>1, <1>2, MachineAlways, PTL DEF Spec, LifecycleInv

\* Whoever ensure_ready lets in finds a connection to a whole database of the
\* current schema (executor.rs:182-215, startup.rs:186-285, restore.rs:69-127).
THEOREM ReadyIsServed == Spec => []ReadyServes
<1>1. LifecycleInv => ReadyServes
  BY DEF LifecycleInv, FilesInv
<1> QED
  BY <1>1, LifecycleAlways, PTL

\* An edit that was answered "saved" is in the live database or in a published
\* backup, whatever is restored over it, fails or dies (restore.rs:130-262).
THEOREM SavedIsNeverLost == Spec => []NothingLost
<1>1. LifecycleInv => NothingLost
  BY DEF LifecycleInv, FilesInv
<1> QED
  BY <1>1, LifecycleAlways, PTL

\* A schema is changed only over edits that a backup of an older schema holds
\* (startup.rs:225-250, migrations.rs:76-120).
THEOREM MigrationIsBackedUp == Spec => MigratesWhatIsBackedUp
<1> DEFINE BackedUp == live.edits \in {b.edits : b \in {x \in backups : x.version <= live.version}}
<1>1. LifecycleInv /\ [Next]_vars
        => (live.version # 0 /\ live'.version # live.version => BackedUp)
  <2> SUFFICES ASSUME LifecycleInv, [Next]_vars, live.version # 0, live'.version # live.version
               PROVE  BackedUp
    OBVIOUS
  <2>1. /\ TypeOK /\ FileTypes /\ StepInv /\ live.version \in Nat /\ Absent.version = 0
    BY TypeParts, LifecycleAssumption
       DEF LifecycleInv, MachineInv, FilesInv, FileTypes, Content, Absent
  <2>2. CASE Covered
    BY <2>2 DEF Covered
  <2>3. CASE live \in backups
    BY <2>1, <2>3
  <2>4. CASE Goes
    <3>1. CASE Bootstrap
      BY <2>1, <3>1 DEF Bootstrap, At, StepInv
    <3>2. CASE Replace
      BY <2>1, <2>3, <3>2 DEF Replace, At, StepInv
    <3>3. CASE Migrate("migrate", "stamp") \/ Migrate("remigrate", "install")
      BY <2>1, <2>2, <3>3 DEF Migrate, At, StepInv
    <3>4. CASE Classify \/ UpgradeBackup \/ Rollback \/ CopyToken \/ Close \/ RetireJournals
      BY <3>4 DEF Classify, UpgradeBackup, Rollback, CopyToken, Close, RetireJournals, files
    <3> QED
      BY <2>4, <3>1, <3>2, <3>3, <3>4 DEF Goes
  <2>5. CASE Ends
    BY <2>1, <2>5 DEF Ends, Edit, Stamp, Install, Reject, Fail, FailTask, files, FileTypes, Content
  <2>6. CASE Spawn \/ Shutdown \/ Take \/ Stop \/ Crash \/ UNCHANGED vars
    BY <2>6 DEF Spawn, Shutdown, Take, Stop, Crash, vars, files
  <2>7. ASSUME NEW c \in Callers, Asks(c) \/ Send(c) \/ Refused(c) \/ Cancel(c) PROVE FALSE
    BY <2>1, <2>7, AskedFor DEF Send, Refused, Cancel, files
  <2> QED
    BY <2>4, <2>5, <2>6, <2>7, NextCases
<1> QED
  BY <1>1, LifecycleAlways, PTL DEF Spec, MigratesWhatIsBackedUp

=============================================================================
