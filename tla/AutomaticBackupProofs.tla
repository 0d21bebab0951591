----------------------- MODULE AutomaticBackupProofs -----------------------
(***************************************************************************)
(* Theorems about AutomaticBackup, for any limits of the retention, any    *)
(* calendar week, any number of snapshots, edits, schemas and faults.      *)
(***************************************************************************)
EXTENDS AutomaticBackup, FiniteSetTheorems, TLAPS

Publishing == {"publish", "sync", "register"}
Deleting == {"unlink", "forget"}
Pruning == {"scan"} \cup Deleting
PcSteps == {"idle", "export", "exported", "down"} \cup Publishing \cup Pruning
Keys == {"none", "failed", "clock"}
Snapshot == [job : Job, whole : BOOLEAN]
Bookkeeping == [enabled : BOOLEAN, content : 0..MaxEdits, backedUp : 0..MaxEdits,
                last : Clock \cup {NoClock}, warning : Keys, prune : Keys,
                pend : Job \cup {NoJob}, copies : SUBSET Job]
Run == [job : Job \cup {NoJob}, prev : Clock \cup {NoClock}, protected : Nat,
        victims : SUBSET Job, existed : BOOLEAN]

Typed ==
    /\ clock \in Clock /\ schema \in 1..MaxSchema
    /\ db \in Bookkeeping /\ cur \in Run
    /\ files \subseteq Snapshot /\ disk \subseteq Snapshot
    /\ target \in {"none", "old", "new"}
    /\ pc \in PcSteps
    /\ temp \in BOOLEAN
    /\ jobs \in Nat /\ faults \in Nat

\* The job on record is younger than all copies, in its id and by the calendar.
Later(at, last) == last # NoClock => at.now > last.now /\ Date(at) > Date(last)
JobInv ==
    /\ db.backedUp <= db.content
    /\ \A c \in db.copies : c.id <= jobs
    /\ db.pend # NoJob =>
          /\ db.pend.rev <= db.content /\ db.pend.id <= jobs
          /\ \A c \in db.copies : c.id < db.pend.id
          /\ Later(db.pend.at, db.last)
    /\ pc \in Publishing => cur.job = db.pend /\ cur.job # NoJob
    /\ temp => pc \in {"publish", "down"}

Whole(c) == [job |-> c, whole |-> TRUE]
FileInv ==
    /\ pc \in {"sync", "register"} => Whole(cur.job) \in files
    /\ pc = "register" => Whole(cur.job) \in disk

\* The copy of the last success is the newest one and is there to stay.
Held(c) ==
    /\ c.at = db.last /\ c.rev = db.backedUp
    /\ c.id \in taken \/ Whole(c) \in files \cap disk
    /\ \A d \in db.copies \ {c} : d.id < c.id /\ Later(c.at, d.at)
    /\ pc \in Pruning => c.id = cur.protected
LastInv ==
    IF db.last = NoClock THEN db.copies = {} /\ db.backedUp = 0 /\ pc \notin Pruning
    ELSE \E c \in db.copies : Held(c)

\* What a prune leaves covers what it found.
AtLeastOf(new, old, limit) == Cardinality(new) >= limit \/ Cardinality(new) >= Cardinality(old)
Covers(new, old) ==
    /\ AtLeastOf({Date(c.at) : c \in new}, {Date(c.at) : c \in old}, Days)
    /\ AtLeastOf({Week(c.at) : c \in new}, {Week(c.at) : c \in old}, Weeks)
    /\ {c.schema : c \in new} = {c.schema : c \in old}
Condemned == IF pc = "forget" THEN cur.victims \cup {cur.job} ELSE cur.victims
PruneInv ==
    pc \in Deleting =>
       /\ \A c \in Condemned : c \in db.copies /\ c.id # cur.protected
       /\ pc = "forget" => cur.job \notin cur.victims
       /\ \A c \in db.copies : (pc = "forget" /\ c = cur.job) \/ Whole(c) \in files
       /\ Covers(db.copies \ Condemned, db.copies)

BackupInv == Typed /\ JobInv /\ FileInv /\ LastInv /\ PruneInv

----------------------------------------------------------------------------
(* Types. *)

\* The clock that stands for none is no clock, and so for jobs.
LEMMA NotTyped == NoClock \notin Clock /\ NoJob \notin Job
<1>1. \A c \in Clock : c.off \in {0, 1}
  BY DEF Clock
<1>2. \A j \in Job : j.schema \in 1..MaxSchema
  BY DEF Job
<1>3. NoClock.off = -1 /\ NoJob.schema = 0
  BY DEF NoClock, NoJob
<1>4. MaxSchema \in Nat
  BY BackupAssumption
<1> QED
  BY <1>1, <1>2, <1>3, <1>4

\* What a check starts from is typed, and so is a job it begins.
LEMMA Blank ==
    /\ NoRun \in Run /\ NoJob \in Job \cup {NoJob} /\ NoClock \in Clock \cup {NoClock}
    /\ \A p \in Nat : [NoRun EXCEPT !.protected = p] \in Run
    /\ \A j \in Job, p \in Clock \cup {NoClock} : [NoRun EXCEPT !.job = j, !.prev = p] \in Run
    /\ \A e \in BOOLEAN : [NoRun EXCEPT !.existed = e] \in Run
    /\ \A on \in BOOLEAN : Fresh(on) \in Bookkeeping
    /\ "none" \in Keys /\ "failed" \in Keys /\ "clock" \in Keys
<1>1. MaxEdits \in Nat \ {0}
  BY BackupAssumption
<1>2. Run = [job : Job \cup {NoJob}, prev : Clock \cup {NoClock}, protected : Nat,
             victims : SUBSET Job, existed : BOOLEAN]
  BY DEF Run
<1>3. NoRun = [job |-> NoJob, prev |-> NoClock, protected |-> 0, victims |-> {}, existed |-> FALSE]
  BY DEF NoRun
<1>4. \A on \in BOOLEAN : Fresh(on) \in Bookkeeping
  BY <1>1 DEF Fresh, Bookkeeping, Keys
<1> QED
  BY <1>2, <1>3, <1>4 DEF Keys

\* Every field of the bookkeeping keeps its set when an operation writes it.
LEMMA Written ==
    ASSUME NEW d \in Bookkeeping, NEW k \in Keys
    PROVE  /\ [d EXCEPT !.warning = k] \in Bookkeeping
           /\ [d EXCEPT !.prune = k] \in Bookkeeping
           /\ [d EXCEPT !.enabled = ~@] \in Bookkeeping
           /\ \A j \in Job \cup {NoJob} : [d EXCEPT !.pend = j] \in Bookkeeping
           /\ \A s \in SUBSET Job : [d EXCEPT !.copies = s] \in Bookkeeping
BY DEF Bookkeeping

LEMMA ClearedTyped ==
    ASSUME Typed
    PROVE  /\ Cleared \in Bookkeeping
           /\ \E k \in Keys : Cleared = [db EXCEPT !.warning = k]
<1>1. db \in Bookkeeping /\ db.warning \in Keys
  BY DEF Typed, Bookkeeping
<1>2. PICK k \in Keys : Cleared = [db EXCEPT !.warning = k]
  BY <1>1 DEF Cleared, Keys
<1> QED
  BY <1>1, <1>2, Written

\* The first state is typed: a profile restored from a backup has content already.
LEMMA TypedInit == Init => Typed
<1> SUFFICES ASSUME Init PROVE Typed
  OBVIOUS
<1>1. /\ MaxEdits \in Nat \ {0} /\ MaxTime \in Nat /\ MaxSchema \in Nat \ {0}
  BY BackupAssumption
<1>2. clock \in Clock /\ schema \in 1..MaxSchema
  BY <1>1 DEF Init, Clock
<1>3. db \in Bookkeeping
  <2>1. CASE \E d \in Imported : db = Bound(d)
    <3>1. PICK d \in Imported : db = Bound(d)
      BY <2>1
    <3>2. /\ d = [enabled |-> TRUE, content |-> 1, backedUp |-> 1, last |-> Foreign.at, warning |-> "none",
                  prune |-> "none", pend |-> NoJob, copies |-> {Foreign}]
      BY <3>1 DEF Imported
    <3>3. db = [enabled |-> TRUE, content |-> 1, backedUp |-> 0, last |-> NoClock, warning |-> "none",
                prune |-> "none", pend |-> NoJob, copies |-> {}]
      BY <3>1, <3>2 DEF Bound
    <3> QED
      BY <1>1, <3>3 DEF Bookkeeping, Keys
  <2>2. CASE db = Fresh(TRUE)
    BY <2>2, Blank
  <2> QED
    BY <2>1, <2>2 DEF Init
<1>4. cur \in Run
  BY Blank DEF Init
<1>5. pc \in PcSteps
  BY DEF Init, PcSteps
<1> QED
  BY <1>2, <1>3, <1>4, <1>5 DEF Init, Typed

(* The copy whose local time is written last: the copy of the last success. *)
Newest(copies) ==
    LET local(a) == a.at.now + a.at.off
        later(a, b) == local(a) > local(b) \/ (local(a) = local(b) /\ a.id >= b.id)
    IN  CHOOSE a \in copies : \A b \in copies : later(a, b)

LEMMA LaterIsLocal ==
    ASSUME NEW c \in Clock, NEW d \in Clock, Later(c, d)
    PROVE  c.now + c.off > d.now + d.off
<1>1. /\ c.now \in Nat /\ d.now \in Nat /\ c.off \in {0, 1} /\ d.off \in {0, 1}
  BY BackupAssumption DEF Clock
<1>2. (c.now + c.off) \div 2 > (d.now + d.off) \div 2
  BY NotTyped DEF Later, Date
<1> QED
  BY <1>1, <1>2

LEMMA NewestIsHeld ==
    ASSUME Typed, LastInv, db.last # NoClock
    PROVE  \E c \in db.copies : Held(c) /\ Newest(db.copies) = c
<1> DEFINE local(a) == a.at.now + a.at.off
           later(a, b) == local(a) > local(b) \/ (local(a) = local(b) /\ a.id >= b.id)
<1>1. PICK c \in db.copies : Held(c)
  BY DEF LastInv
<1>2. \A a \in db.copies : a.at \in Clock /\ a.id \in Nat /\ local(a) \in Nat
  <2>1. db.copies \subseteq Job
    BY DEF Typed, Bookkeeping
  <2> QED
    BY <2>1, BackupAssumption DEF Job, Clock
<1>3. \A d \in db.copies \ {c} : local(c) > local(d)
  BY <1>1, <1>2, LaterIsLocal DEF Held
<1>4. \A b \in db.copies : later(c, b)
  BY <1>2, <1>3
<1>5. \A a \in db.copies : (\A b \in db.copies : later(a, b)) => a = c
  BY <1>2, <1>3
<1>6. Newest(db.copies) = c
  BY <1>4, <1>5 DEF Newest
<1> QED
  BY <1>1, <1>6

\* What one step does to the types of the variables, a check first.
LEMMA TypedCheck ==
    ASSUME Typed, LastInv, Check
    PROVE  Typed'
<1> USE DEF PcSteps, Publishing, Pruning, Deleting
<1>1. /\ clock \in Clock /\ schema \in 1..MaxSchema /\ db \in Bookkeeping /\ cur \in Run
      /\ files \subseteq Snapshot /\ disk \subseteq Snapshot
      /\ target \in {"none", "old", "new"} /\ pc \in PcSteps /\ temp \in BOOLEAN
      /\ jobs \in Nat /\ faults \in Nat
  BY DEF Typed
<1>2. /\ db.pend \in Job \cup {NoJob} /\ db.last \in Clock \cup {NoClock} /\ db.copies \subseteq Job
      /\ db.content \in 0..MaxEdits
  BY <1>1 DEF Bookkeeping
<1>3. Cleared \in Bookkeeping
  BY ClearedTyped
<1>4. \A k \in Keys : [db EXCEPT !.warning = k] \in Bookkeeping
  BY <1>1, Written
<1>5. CASE CheckBackwards
  <2>1. cur' = NoRun /\ pc' = "idle" /\ \E k \in Keys : db' = [db EXCEPT !.warning = k]
    BY <1>5 DEF CheckBackwards, Warn, Keys
  <2>2. db' \in Bookkeeping /\ cur' \in Run
    BY <2>1, <1>4, Blank
  <2> QED
    BY <1>1, <1>5, <2>1, <2>2 DEF Typed, CheckBackwards, Stays, Quiet
<1>6. CASE CheckNothing
  BY <1>1, <1>3, <1>6 DEF Typed, CheckNothing, Stays, Quiet
<1>7. CASE CheckPrune
  <2>1. CASE db.copies = {}
    <3>1. db' = [Cleared EXCEPT !.prune = "failed"] /\ pc' = pc /\ cur' = cur
      BY <1>7, <2>1 DEF CheckPrune
    <3>2. db' \in Bookkeeping
      BY <1>3, <3>1, Written, Blank
    <3> QED
      BY <1>1, <1>7, <3>1, <3>2 DEF Typed, CheckPrune, Stays, Quiet
  <2>2. CASE db.copies # {}
    <3>1. PICK c \in db.copies : Held(c) /\ Newest(db.copies) = c
      BY <1>7, NewestIsHeld DEF CheckPrune, RetriesPrune
    <3>2. db' = Cleared /\ pc' = "scan" /\ cur' = [NoRun EXCEPT !.protected = c.id]
      BY <1>7, <2>2, <3>1 DEF CheckPrune, Newest
    <3>3. c.id \in Nat
      BY <1>2 DEF Job
    <3> QED
      BY <1>1, <1>3, <1>7, <3>2, <3>3, Blank DEF Typed, CheckPrune, Stays, Quiet
  <2> QED
    BY <2>1, <2>2
<1>8. CASE CheckPending
  <2>1. CASE Verified(db.pend)
    <3>1. /\ db' = Cleared /\ disk' = files /\ files' = files /\ temp' = temp
          /\ pc' = "register" /\ cur' = [NoRun EXCEPT !.job = db.pend, !.prev = db.last]
      BY <1>8, <2>1 DEF CheckPending, Resync
    <3>2. cur' \in Run
      BY <1>2, <1>8, <3>1, Blank DEF CheckPending
    <3> QED
      BY <1>1, <1>3, <1>8, <3>1, <3>2 DEF Typed, CheckPending, Quiet
  <2>2. CASE ~Verified(db.pend)
    <3>1. cur' = NoRun /\ pc' = "idle" /\ db' = [db EXCEPT !.warning = "failed"] /\ Stays
      BY <1>8, <2>2 DEF CheckPending, Warn
    <3>2. db' \in Bookkeeping /\ cur' \in Run
      BY <3>1, <1>4, Blank
    <3> QED
      BY <1>1, <1>8, <3>1, <3>2 DEF Typed, CheckPending, Stays, Quiet
  <2> QED
    BY <2>1, <2>2
<1>9. CASE CheckFresh
  <2> DEFINE id == IF db.pend = NoJob THEN jobs + 1 ELSE db.pend.id
             job == [id |-> id, schema |-> schema, rev |-> db.content, at |-> clock]
  <2>1. id \in Nat
    BY <1>1, <1>2 DEF Job
  <2>2. job \in Job
    BY <1>1, <1>2, <2>1 DEF Job
  <2>3. /\ jobs' \in Nat /\ db' = [Cleared EXCEPT !.pend = job]
        /\ cur' = [NoRun EXCEPT !.job = job, !.prev = db.last]
        /\ pc' = "publish" /\ temp' = TRUE
    BY <1>1, <1>9 DEF CheckFresh
  <2> HIDE DEF job
  <2>4. db' \in Bookkeeping /\ cur' \in Run
    BY <1>2, <1>3, <2>2, <2>3, Written, Blank
  <2> QED
    BY <1>1, <1>9, <2>3, <2>4 DEF Typed, CheckFresh
<1> QED
  BY <1>5, <1>6, <1>7, <1>8, <1>9 DEF Check

\* A publication runs for a job.
LEMMA PublishedJob ==
    ASSUME Typed, JobInv, pc \in Publishing
    PROVE  cur.job \in Job /\ cur.job = db.pend
BY DEF Typed, Run, JobInv

LEMMA TypedStep ==
    ASSUME Typed, JobInv, Step
    PROVE  Typed'
<1> USE DEF PcSteps, Publishing, Pruning, Deleting
<1>1. /\ clock \in Clock /\ schema \in 1..MaxSchema /\ db \in Bookkeeping /\ cur \in Run
      /\ files \subseteq Snapshot /\ disk \subseteq Snapshot
      /\ target \in {"none", "old", "new"} /\ pc \in PcSteps /\ temp \in BOOLEAN
      /\ jobs \in Nat /\ faults \in Nat
  BY DEF Typed
<1>2. /\ db.copies \subseteq Job /\ cur.job \in Job \cup {NoJob} /\ cur.victims \subseteq Job
      /\ cur.prev \in Clock \cup {NoClock} /\ db.prune \in Keys
  BY <1>1 DEF Bookkeeping, Run
<1>3. \A k \in Keys : [db EXCEPT !.prune = k] \in Bookkeeping
  BY <1>1, Written
<1>4. CASE Rename
  <2>1. cur.job \in Job
    BY <1>4, PublishedJob DEF Rename
  <2>2. files' = files \cup {[job |-> cur.job, whole |-> TRUE]}
    BY <1>4 DEF Rename
  <2>3. [job |-> cur.job, whole |-> TRUE] \in Snapshot
    BY <2>1 DEF Snapshot
  <2>4. files' \subseteq Snapshot
    BY <1>1, <2>2, <2>3
  <2> QED
    BY <1>1, <1>4, <2>4 DEF Typed, Rename, Quiet
<1>5. CASE SyncDirectory
  BY <1>1, <1>5 DEF Typed, SyncDirectory, Quiet
<1>6. CASE Register
  <2> DEFINE trusted == /\ cur.prev # NoClock
                        /\ Trusted(cur.prev, cur.job.at) /\ Trusted(cur.job.at, clock)
             prune == IF ~trusted /\ cur.prev # NoClock THEN "clock" ELSE db.prune
  <2> HIDE DEF trusted
  <2>1. /\ db' = [db EXCEPT !.copies = @ \cup {cur.job}, !.backedUp = cur.job.rev,
                            !.last = cur.job.at, !.warning = "none", !.pend = NoJob,
                            !.prune = prune]
        /\ pc' = IF trusted THEN "scan" ELSE "idle"
        /\ cur' = IF trusted THEN [NoRun EXCEPT !.protected = cur.job.id] ELSE NoRun
    BY <1>6 DEF Register, trusted
  <2>2. prune \in Keys
    BY <1>2 DEF Keys
  <2> HIDE DEF prune
  <2>3. cur.job \in Job /\ cur.job.rev \in 0..MaxEdits /\ cur.job.at \in Clock /\ cur.job.id \in Nat
    BY <1>6, PublishedJob DEF Register, Job
  <2>4. db' \in Bookkeeping
    BY <1>1, <1>2, <2>1, <2>2, <2>3 DEF Bookkeeping, Keys
  <2>5. cur' \in Run
    BY <2>1, <2>3, Blank
  <2>6. pc' \in PcSteps
    BY <2>1
  <2> QED
    BY <1>1, <1>6, <2>4, <2>5, <2>6 DEF Typed, Register, Stays, Quiet
<1>7. CASE Scan
  <2>1. Retention(db.copies, cur.protected) \subseteq db.copies
    BY DEF Retention
  <2>2. cur' = [cur EXCEPT !.victims = Retention(db.copies, cur.protected)]
    BY <1>7 DEF Scan
  <2>3. cur' \in Run
    BY <1>1, <1>2, <2>1, <2>2 DEF Run
  <2> QED
    BY <1>1, <1>7, <2>3 DEF Typed, Scan, Stays, Quiet
<1>8. CASE ScanFails
  <2>1. db' = [db EXCEPT !.prune = "failed"] /\ cur' = NoRun /\ pc' = "idle"
    BY <1>8 DEF ScanFails, EndPrune
  <2>2. db' \in Bookkeeping /\ cur' \in Run
    BY <1>3, <2>1, Blank
  <2> QED
    BY <1>1, <1>8, <2>1, <2>2 DEF Typed, ScanFails, Stays, Quiet
<1>9. CASE Unlink
  <2>1. PICK c \in cur.victims :
           /\ files' = {f \in files : f.job # c}
           /\ cur' = [cur EXCEPT !.victims = @ \ {c}, !.job = c]
    BY <1>9 DEF Unlink
  <2>2. cur' \in Run
    BY <1>1, <1>2, <2>1 DEF Run
  <2> QED
    BY <1>1, <1>9, <2>1, <2>2 DEF Typed, Unlink, Quiet
<1>10. CASE Forget
  <2>1. db' = [db EXCEPT !.copies = db.copies \ {cur.job}]
    BY <1>10 DEF Forget
  <2>2. db' \in Bookkeeping
    BY <1>1, <1>2, <2>1, Written, Blank
  <2> QED
    BY <1>1, <1>10, <2>2 DEF Typed, Forget, Quiet
<1>11. CASE Pruned
  <2>1. db' = [db EXCEPT !.prune = "none"] /\ cur' = NoRun /\ pc' = "idle"
    BY <1>11 DEF Pruned, EndPrune
  <2>2. db' \in Bookkeeping /\ cur' \in Run
    BY <1>3, <2>1, Blank
  <2> QED
    BY <1>1, <1>11, <2>1, <2>2 DEF Typed, Pruned, Stays, Quiet
<1>12. ASSUME NEW c \in db.copies, ForgetMissing(c) PROVE Typed'
  <2>1. db' = [db EXCEPT !.copies = db.copies \ {c}]
    BY <1>12 DEF ForgetMissing
  <2>2. db' \in Bookkeeping
    BY <1>1, <1>2, <2>1, Written, Blank
  <2> QED
    BY <1>1, <1>12, <2>2 DEF Typed, ForgetMissing, Stays, Quiet
<1>13. CASE ExportRename
  BY <1>1, <1>13 DEF Typed, ExportRename, Stays
<1>14. CASE ExportDone
  BY <1>1, <1>14, Blank DEF Typed, ExportDone, Stays
<1>15. CASE Restart
  BY <1>1, <1>15 DEF Typed, Restart, Quiet
<1> QED
  BY <1>4, <1>5, <1>6, <1>7, <1>8, <1>9, <1>10, <1>11, <1>12, <1>13, <1>14, <1>15 DEF Step

LEMMA TypedEnvironment ==
    ASSUME Typed, Environment
    PROVE  Typed'
<1> USE DEF PcSteps, Publishing, Pruning, Deleting
<1>1. /\ clock \in Clock /\ schema \in 1..MaxSchema /\ db \in Bookkeeping /\ cur \in Run
      /\ files \subseteq Snapshot /\ disk \subseteq Snapshot
      /\ target \in {"none", "old", "new"} /\ pc \in PcSteps /\ temp \in BOOLEAN
      /\ jobs \in Nat /\ faults \in Nat
  BY DEF Typed
<1>2. MaxTime \in Nat /\ MaxEdits \in Nat /\ MaxSchema \in Nat
  BY BackupAssumption
<1>3. Fault => faults' \in Nat
  BY <1>1 DEF Fault
<1>4. CASE Tick
  <2>1. clock' \in Clock
    BY <1>1, <1>2, <1>4 DEF Tick, Clock
  <2> QED
    BY <1>1, <1>4, <2>1 DEF Typed, Tick, World
<1>5. CASE Edit
  <2>1. db' \in Bookkeeping
    BY <1>1, <1>2, <1>5 DEF Edit, Bookkeeping
  <2> QED
    BY <1>1, <1>5, <2>1 DEF Typed, Edit, World
<1>6. CASE SetEnabled
  <2>1. db' \in Bookkeeping
    BY <1>1, <1>6, Written, Blank DEF SetEnabled
  <2> QED
    BY <1>1, <1>3, <1>6, <2>1 DEF Typed, SetEnabled, World
<1>7. CASE ResetProfile
  <2>1. db' \in Bookkeeping
    BY <1>1, <1>7, Blank DEF ResetProfile, Bookkeeping
  <2> QED
    BY <1>1, <1>3, <1>7, <2>1 DEF Typed, ResetProfile, World
<1>8. CASE Upgrade
  BY <1>1, <1>2, <1>8 DEF Typed, Upgrade, World
<1>9. CASE Export
  <2>1. cur' \in Run
    BY <1>9, Blank DEF Export
  <2> QED
    BY <1>1, <1>9, <2>1 DEF Typed, Export, Stays, Quiet
<1>10. ASSUME NEW c \in Clock, SetClock(c) PROVE Typed'
  BY <1>1, <1>3, <1>10 DEF Typed, SetClock, World
<1>11. ASSUME NEW f \in files, NEW whole \in BOOLEAN, Take(f, whole) PROVE Typed'
  <2> DEFINE left == IF whole THEN {} ELSE {[f EXCEPT !.whole = FALSE]}
  <2>1. left \subseteq Snapshot
    BY <1>1 DEF Snapshot
  <2>2. files' = (files \ {f}) \cup left /\ disk' = (disk \ {f}) \cup left
    BY <1>11 DEF Take
  <2> HIDE DEF left
  <2> QED
    BY <1>1, <1>3, <1>11, <2>1, <2>2 DEF Typed, Take
<1>12. CASE PublishFails \/ RegisterFails
  <2>1. db' = [db EXCEPT !.warning = "failed"] /\ cur' = NoRun /\ pc' = "idle"
    BY <1>12 DEF PublishFails, RegisterFails, Warn
  <2>2. db' \in Bookkeeping /\ cur' \in Run
    BY <1>1, <2>1, Written, Blank
  <2> QED
    BY <1>1, <1>3, <1>12, <2>1, <2>2 DEF Typed, PublishFails, RegisterFails, Stays, Rest
<1>13. CASE UnlinkFails
  <2>1. db' = [db EXCEPT !.prune = "failed"] /\ cur' = NoRun /\ pc' = "idle"
    BY <1>13 DEF UnlinkFails, EndPrune
  <2>2. db' \in Bookkeeping /\ cur' \in Run
    BY <1>1, <2>1, Written, Blank
  <2> QED
    BY <1>1, <1>3, <1>13, <2>1, <2>2 DEF Typed, UnlinkFails, Stays, Rest
<1>14. CASE ExportFails
  <2>1. target' \in {"none", "old", "new"}
    BY <1>1, <1>14 DEF ExportFails, Undone
  <2> QED
    BY <1>1, <1>3, <1>14, <2>1, Blank DEF Typed, ExportFails, Stays
<1>15. CASE Crash
  <2>1. files' \subseteq Snapshot /\ disk' \subseteq Snapshot
    BY <1>1, <1>15 DEF Crash
  <2>2. target' \in {"none", "old", "new"}
    BY <1>1, <1>15 DEF Crash
  <2> QED
    BY <1>1, <1>3, <1>15, <2>1, <2>2, Blank DEF Typed, Crash
<1> QED
  BY <1>4, <1>5, <1>6, <1>7, <1>8, <1>9, <1>10, <1>11, <1>12, <1>13, <1>14, <1>15 DEF Environment

----------------------------------------------------------------------------
(* Jobs. *)

\* Two states of the bookkeeping that differ by its flags only.
SameJobs(e, d) ==
    /\ e.content = d.content /\ e.backedUp = d.backedUp /\ e.last = d.last
    /\ e.pend = d.pend /\ e.copies = d.copies

LEMMA FlagsOnly ==
    ASSUME NEW d \in Bookkeeping, NEW k \in Keys
    PROVE  /\ SameJobs(d, d)
           /\ SameJobs([d EXCEPT !.warning = k], d)
           /\ SameJobs([d EXCEPT !.prune = k], d)
           /\ SameJobs([d EXCEPT !.enabled = ~@], d)
BY DEF Bookkeeping, SameJobs

LEMMA ClearedOnly == Typed => SameJobs(Cleared, db) /\ Cleared \in Bookkeeping
<1> SUFFICES ASSUME Typed PROVE SameJobs(Cleared, db) /\ Cleared \in Bookkeeping
  OBVIOUS
<1>1. PICK k \in Keys : Cleared = [db EXCEPT !.warning = k]
  BY ClearedTyped
<1>2. db \in Bookkeeping
  BY DEF Typed
<1> QED
  BY <1>1, <1>2, FlagsOnly, ClearedTyped

\* What the invariant of the jobs depends on.
LEMMA JobsKept ==
    ASSUME JobInv, SameJobs(db', db) \/ (\E s \in SUBSET db.copies : db' = [db EXCEPT !.copies = s]),
           db \in Bookkeeping, jobs' = jobs,
           pc' \in Publishing => cur'.job = db.pend /\ db.pend # NoJob,
           temp' => pc' \in {"publish", "down"}
    PROVE  JobInv'
<1>1. /\ db'.content = db.content /\ db'.backedUp = db.backedUp /\ db'.last = db.last
      /\ db'.pend = db.pend /\ db'.copies \subseteq db.copies
  BY DEF SameJobs, Bookkeeping
<1> QED
  BY <1>1 DEF JobInv

LEMMA JobInit == Init => JobInv
<1> SUFFICES ASSUME Init PROVE JobInv
  OBVIOUS
<1>1. db.backedUp = 0 /\ db.content \in Nat /\ db.copies = {} /\ db.pend = NoJob
  <2>1. \A d \in Imported : /\ Bound(d).backedUp = 0 /\ Bound(d).content = 1
                            /\ Bound(d).copies = {} /\ Bound(d).pend = NoJob
    BY DEF Imported, Bound
  <2>2. CASE db = Fresh(TRUE)
    BY <2>2 DEF Fresh
  <2>3. ASSUME NEW d \in Imported, db = Bound(d)
        PROVE  db.backedUp = 0 /\ db.content \in Nat /\ db.copies = {} /\ db.pend = NoJob
    BY <2>1, <2>3
  <2> QED
    BY <2>2, <2>3 DEF Init
<1> QED
  BY <1>1 DEF Init, JobInv, Publishing

LEMMA JobCheck ==
    ASSUME Typed, JobInv, LastInv, Check
    PROVE  JobInv'
<1> USE DEF Publishing
<1>1. db \in Bookkeeping /\ jobs \in Nat /\ Cleared \in Bookkeeping /\ SameJobs(Cleared, db)
  BY ClearedOnly DEF Typed
<1>2. temp => pc \in {"publish", "down"}
  BY DEF JobInv
<1>3. CASE CheckBackwards
  <2>1. pc' = "idle" /\ \E k \in Keys : db' = [db EXCEPT !.warning = k]
    BY <1>3 DEF CheckBackwards, Warn, Keys
  <2> QED
    BY <1>1, <1>2, <1>3, <2>1, FlagsOnly, JobsKept DEF CheckBackwards, Idle, Stays, Quiet
<1>4. CASE CheckNothing
  BY <1>1, <1>2, <1>4, JobsKept DEF CheckNothing, Idle, Stays, Quiet
<1>5. CASE CheckPrune
  <2>1. SameJobs(db', db)
    <3>1. db' = Cleared \/ db' = [Cleared EXCEPT !.prune = "failed"]
      BY <1>5 DEF CheckPrune
    <3>2. SameJobs([Cleared EXCEPT !.prune = "failed"], Cleared)
      BY <1>1, FlagsOnly, Blank
    <3> QED
      BY <1>1, <3>1, <3>2 DEF SameJobs
  <2>2. pc' \in {"idle", "scan"} /\ pc = "idle" /\ temp' = temp /\ jobs' = jobs
    BY <1>5 DEF CheckPrune, MayRun, Idle, Stays, Quiet
  <2> QED
    BY <1>1, <1>2, <2>1, <2>2, JobsKept
<1>6. CASE CheckPending
  <2>1. /\ temp' = temp /\ pc = "idle" /\ jobs' = jobs /\ db.pend # NoJob
    BY <1>6 DEF CheckPending, MayRun, Idle, Stays, Resync, Quiet
  <2>2. CASE Verified(db.pend)
    <3>1. db' = Cleared /\ cur' = [NoRun EXCEPT !.job = db.pend, !.prev = db.last]
      BY <1>6, <2>2 DEF CheckPending
    <3>2. cur'.job = db.pend
      BY <3>1 DEF NoRun
    <3> QED
      BY <1>1, <1>2, <2>1, <3>1, <3>2, JobsKept
  <2>3. CASE ~Verified(db.pend)
    <3>1. pc' = "idle" /\ db' = [db EXCEPT !.warning = "failed"]
      BY <1>6, <2>3 DEF CheckPending, Warn
    <3>2. SameJobs(db', db)
      BY <1>1, <3>1, FlagsOnly, Blank
    <3> QED
      BY <1>1, <1>2, <2>1, <3>1, <3>2, JobsKept
  <2> QED
    BY <2>2, <2>3
<1>7. CASE CheckFresh
  <2> DEFINE id == IF db.pend = NoJob THEN jobs + 1 ELSE db.pend.id
             job == [id |-> id, schema |-> schema, rev |-> db.content, at |-> clock]
  <2>1. /\ jobs' = IF db.pend = NoJob THEN jobs + 1 ELSE jobs
        /\ db' = [Cleared EXCEPT !.pend = job]
        /\ cur' = [NoRun EXCEPT !.job = job, !.prev = db.last]
        /\ pc' = "publish" /\ ~Backwards /\ Begins
    BY <1>7 DEF CheckFresh, MayRun
  <2>2. /\ db'.content = db.content /\ db'.backedUp = db.backedUp /\ db'.last = db.last
        /\ db'.pend = job /\ db'.copies = db.copies /\ cur'.job = job
    BY <1>1, <2>1 DEF SameJobs, Bookkeeping, NoRun
  <2>3. /\ db.copies \subseteq Job /\ db.content \in Nat /\ clock \in Clock /\ schema \in 1..MaxSchema
        /\ db.last \in Clock \cup {NoClock} /\ db.pend \in Job \cup {NoJob}
        /\ db.content \in 0..MaxEdits
    BY BackupAssumption DEF Typed, Bookkeeping
  <2>4. id \in Nat /\ id <= jobs' /\ \A c \in db.copies : c.id \in Nat /\ c.id < id /\ c.id <= jobs'
    BY <1>1, <2>1, <2>3 DEF JobInv, Job
  <2>5. Later(clock, db.last)
    <3>1. CASE db.pend = NoJob
      BY <2>1, <3>1 DEF Begins, Due, Later
    <3>2. CASE db.pend # NoJob
      <4>1. ~Before(clock, db.pend.at) /\ Later(db.pend.at, db.last)
        BY <2>1, <3>2 DEF Backwards, JobInv
      <4>2. db.pend.at \in Clock
        BY <2>3, <3>2 DEF Job
      <4>3. \A c \in Clock \cup {NoClock} : c.now \in Int /\ Date(c) \in Int
        BY BackupAssumption DEF Clock, NoClock, Date
      <4> QED
        BY <2>3, <4>1, <4>2, <4>3 DEF Before, Later
    <3> QED
      BY <3>1, <3>2
  <2> HIDE DEF id
  <2>6. job.rev = db.content /\ job.id = id /\ job.at = clock /\ job \in Job
    BY <2>3, <2>4 DEF Job
  <2> HIDE DEF job
  <2>7. job # NoJob
    BY <2>6, NotTyped
  <2> QED
    BY <2>1, <2>2, <2>3, <2>4, <2>5, <2>6, <2>7 DEF JobInv
<1> QED
  BY <1>3, <1>4, <1>5, <1>6, <1>7 DEF Check

LEMMA JobStep ==
    ASSUME Typed, JobInv, LastInv, Step
    PROVE  JobInv'
<1> USE DEF Publishing
<1>1. db \in Bookkeeping /\ jobs \in Nat
  BY DEF Typed
<1>2. temp => pc \in {"publish", "down"}
  BY DEF JobInv
<1>3. pc \in Publishing => cur.job = db.pend /\ db.pend # NoJob
  BY DEF JobInv
<1>4. SameJobs(db, db)
  BY DEF SameJobs
<1>5. CASE Rename
  BY <1>1, <1>3, <1>4, <1>5, JobsKept DEF Rename, Quiet
<1>6. CASE SyncDirectory
  BY <1>1, <1>2, <1>3, <1>4, <1>6, JobsKept DEF SyncDirectory, Quiet
<1>7. CASE Register
  <2>1. cur.job = db.pend /\ db.pend # NoJob /\ cur.job \in Job /\ pc = "register"
    BY <1>3, <1>7, PublishedJob DEF Register
  <2>2. /\ db'.copies = db.copies \cup {cur.job} /\ db'.backedUp = cur.job.rev
        /\ db'.pend = NoJob /\ db'.content = db.content
        /\ pc' \in {"scan", "idle"} /\ temp' = temp /\ jobs' = jobs
    BY <1>1, <1>7 DEF Register, Bookkeeping, Stays, Quiet
  <2> QED
    BY <1>2, <2>1, <2>2 DEF JobInv
<1>8. CASE Scan \/ Unlink
  <2>1. /\ pc \notin Publishing /\ pc # "down" /\ pc' \notin Publishing /\ db' = db
        /\ temp' = temp /\ jobs' = jobs
    BY <1>8 DEF Scan, Unlink, Stays, Quiet
  <2> QED
    BY <1>1, <1>2, <1>4, <2>1, JobsKept
<1>9. CASE ScanFails \/ Pruned
  <2>1. /\ pc # "publish" /\ pc # "down" /\ pc' = "idle" /\ temp' = temp /\ jobs' = jobs
        /\ \E k \in Keys : db' = [db EXCEPT !.prune = k]
    BY <1>9 DEF ScanFails, Pruned, EndPrune, Stays, Quiet, Keys
  <2> QED
    BY <1>1, <1>2, <2>1, FlagsOnly, JobsKept
<1>10. CASE Forget
  <2>1. /\ pc = "forget" /\ pc' = "unlink" /\ temp' = temp /\ jobs' = jobs
        /\ db' = [db EXCEPT !.copies = db.copies \ {cur.job}]
    BY <1>10 DEF Forget, Quiet
  <2> QED
    BY <1>1, <1>2, <2>1, JobsKept
<1>11. ASSUME NEW c \in db.copies, ForgetMissing(c) PROVE JobInv'
  <2>1. /\ pc = "scan" /\ pc' = "scan" /\ temp' = temp /\ jobs' = jobs
        /\ db' = [db EXCEPT !.copies = db.copies \ {c}]
    BY <1>11 DEF ForgetMissing, Stays, Quiet
  <2> QED
    BY <1>1, <1>2, <2>1, JobsKept
<1>12. CASE ExportRename \/ ExportDone
  <2>1. /\ pc \in {"export", "exported"} /\ pc' \in {"exported", "idle"}
        /\ db' = db /\ temp' = temp /\ jobs' = jobs
    BY <1>12 DEF ExportRename, ExportDone, Stays
  <2> QED
    BY <1>1, <1>2, <1>4, <2>1, JobsKept
<1>13. CASE Restart
  <2>1. pc' = "idle" /\ temp' = FALSE /\ db' = db /\ jobs' = jobs
    BY <1>13 DEF Restart, Quiet
  <2> QED
    BY <1>1, <1>4, <2>1, JobsKept
<1> QED
  BY <1>5, <1>6, <1>7, <1>8, <1>9, <1>10, <1>11, <1>12, <1>13 DEF Step

LEMMA JobEnvironment ==
    ASSUME Typed, JobInv, LastInv, Environment
    PROVE  JobInv'
<1> USE DEF Publishing
<1>1. db \in Bookkeeping /\ jobs \in Nat
  BY DEF Typed
<1>2. temp => pc \in {"publish", "down"}
  BY DEF JobInv
<1>3. SameJobs(db, db)
  BY DEF SameJobs
<1>4. ASSUME pc = "idle", pc' = pc, temp' = temp, jobs' = jobs, SameJobs(db', db)
      PROVE  JobInv'
  BY <1>1, <1>2, <1>4, JobsKept
<1>5. CASE Tick \/ SetEnabled \/ Upgrade \/ \E c \in Clock : SetClock(c)
  <2>1. pc = "idle" /\ pc' = pc /\ temp' = temp /\ jobs' = jobs
    BY <1>5 DEF Tick, SetEnabled, Upgrade, SetClock, World, Idle
  <2>2. db' = db \/ db' = [db EXCEPT !.enabled = ~@]
    BY <1>5 DEF Tick, SetEnabled, Upgrade, SetClock
  <2>3. SameJobs(db', db)
    BY <1>1, <1>3, <2>2, FlagsOnly, Blank
  <2> QED
    BY <1>4, <2>1, <2>3
<1>6. CASE Edit
  <2>1. /\ pc = "idle" /\ pc' = pc /\ temp' = temp /\ jobs' = jobs
        /\ db' = [db EXCEPT !.content = db.content + 1]
    BY <1>6 DEF Edit, World, Idle
  <2>2. /\ db'.content = db.content + 1 /\ db'.backedUp = db.backedUp /\ db'.last = db.last
        /\ db'.pend = db.pend /\ db'.copies = db.copies
        /\ db.content \in Nat /\ db.backedUp \in Nat
        /\ db.pend # NoJob => db.pend.rev \in Nat
    BY <1>1, <2>1, BackupAssumption DEF Bookkeeping, Job
  <2> QED
    BY <1>2, <2>1, <2>2 DEF JobInv
<1>7. CASE ResetProfile
  <2>1. /\ pc = "idle" /\ pc' = pc /\ temp' = temp /\ db' = Fresh(db.enabled)
    BY <1>7 DEF ResetProfile, World, Idle
  <2>2. db'.content = 0 /\ db'.backedUp = 0 /\ db'.pend = NoJob /\ db'.copies = {}
    BY <2>1 DEF Fresh
  <2> QED
    BY <1>2, <2>1, <2>2 DEF JobInv
<1>8. CASE Export
  <2>1. pc = "idle" /\ pc' = "export" /\ temp' = temp /\ jobs' = jobs /\ db' = db
    BY <1>8 DEF Export, Idle, Stays, Quiet
  <2> QED
    BY <1>1, <1>2, <1>3, <2>1, JobsKept
<1>9. ASSUME NEW f \in files, NEW whole \in BOOLEAN, Take(f, whole) PROVE JobInv'
  <2>1. pc = "idle" /\ pc' = pc /\ temp' = temp /\ jobs' = jobs /\ db' = db
    BY <1>9 DEF Take, Idle
  <2> QED
    BY <1>3, <1>4, <2>1
<1>10. CASE PublishFails \/ RegisterFails
  <2>1. /\ pc' = "idle" /\ jobs' = jobs
        /\ temp' = FALSE \/ (temp' = temp /\ pc = "register")
        /\ db' = [db EXCEPT !.warning = "failed"]
    BY <1>10 DEF PublishFails, RegisterFails, Warn, Stays, Rest
  <2>2. SameJobs(db', db)
    BY <1>1, <2>1, FlagsOnly, Blank
  <2> QED
    BY <1>1, <1>2, <2>1, <2>2, JobsKept
<1>11. CASE UnlinkFails
  <2>1. /\ pc' = "idle" /\ temp' = temp /\ pc \in {"unlink", "forget"} /\ jobs' = jobs
        /\ db' = [db EXCEPT !.prune = "failed"]
    BY <1>11 DEF UnlinkFails, EndPrune, Stays, Rest
  <2>2. SameJobs(db', db)
    BY <1>1, <2>1, FlagsOnly, Blank
  <2> QED
    BY <1>1, <1>2, <2>1, <2>2, JobsKept
<1>12. CASE ExportFails
  <2>1. /\ pc' = "idle" /\ temp' = temp /\ pc \in {"export", "exported"} /\ jobs' = jobs /\ db' = db
    BY <1>12 DEF ExportFails, Stays
  <2> QED
    BY <1>1, <1>2, <1>3, <2>1, JobsKept
<1>13. CASE Crash
  <2>1. pc' = "down" /\ temp' = temp /\ jobs' = jobs /\ db' = db
    BY <1>13 DEF Crash
  <2> QED
    BY <1>1, <1>2, <1>3, <2>1, JobsKept
<1> QED
  BY <1>5, <1>6, <1>7, <1>8, <1>9, <1>10, <1>11, <1>12, <1>13 DEF Environment

----------------------------------------------------------------------------
(* Retention: the copies that are first of their date, week or schema cover
   what there is. *)

LEMMA LeastOf ==
    ASSUME NEW S \in SUBSET Nat, NEW x \in S
    PROVE  \E n \in S : \A m \in S : n <= m
<1>1. PICK n \in S : \A m \in S : ~(<<m, n>> \in OpToRel(<, Nat))
  BY NatLessThanWellFounded, WFMin
<1>2. \A m \in S : m < n => <<m, n>> \in OpToRel(<, Nat)
  BY DEF OpToRel
<1>3. \A m \in S : ~(m < n)
  BY <1>1, <1>2
<1>4. \A m \in S : n <= m
  BY <1>3
<1> QED
  BY <1>1, <1>4

\* Jobs with bounded ids have a newest one.
LEMMA NewestOf ==
    ASSUME NEW T \in SUBSET Job, T # {}, NEW n \in Nat, \A c \in T : c.id <= n
    PROVE  \E c \in T : \A d \in T : ~Newer(d, c)
<1>1. \A c \in T : /\ c.id \in Nat /\ c.at.now \in Nat /\ c.at.now <= MaxTime
                   /\ MaxTime - c.at.now \in Nat /\ n - c.id \in Nat
  BY BackupAssumption DEF Job, Clock
<1> DEFINE A == {MaxTime - c.at.now : c \in T}
<1>2. PICK a \in A : \A x \in A : a <= x
  <2>1. PICK c \in T : TRUE
    OBVIOUS
  <2>2. A \in SUBSET Nat /\ MaxTime - c.at.now \in A
    BY <1>1
  <2> HIDE DEF A
  <2> QED
    BY <2>2, LeastOf
<1>3. PICK b \in T : a = MaxTime - b.at.now
  BY <1>2
<1>4. \A d \in T : d.at.now <= b.at.now
  <2>1. SUFFICES ASSUME NEW d \in T PROVE d.at.now <= b.at.now
    OBVIOUS
  <2>2. a <= MaxTime - d.at.now
    BY <1>2
  <2> QED
    BY <1>1, <1>3, <2>2, BackupAssumption
<1> DEFINE B == {n - c.id : c \in {c \in T : c.at.now = b.at.now}}
<1>5. PICK x \in B : \A y \in B : x <= y
  <2>1. B \in SUBSET Nat /\ n - b.id \in B
    BY <1>1
  <2> HIDE DEF B
  <2> QED
    BY <2>1, LeastOf
<1>6. PICK c \in T : c.at.now = b.at.now /\ x = n - c.id
  BY <1>5
<1>7. ASSUME NEW d \in T, Newer(d, c) PROVE FALSE
  <2>1. d.at.now = b.at.now /\ d.id > c.id
    BY <1>1, <1>4, <1>6, <1>7 DEF Newer
  <2>2. n - d.id \in B
    BY <2>1
  <2>3. n - c.id <= n - d.id
    BY <1>5, <1>6, <2>2
  <2> QED
    BY <1>1, <2>1, <2>3
<1> QED
  BY <1>6, <1>7

Ahead(S, c) == {d \in S : Newer(d, c)}

(* Keep the copies that are the first of their key, as long as fewer than
   limit keys lie ahead: limit keys are kept, or all there are. *)
LEMMA FirstsCover ==
    ASSUME NEW S \in SUBSET Job, NEW n \in Nat, \A c \in S : c.id <= n,
           NEW m \in Nat, NEW key \in [Job -> 0..m], NEW limit \in Nat, NEW K \in SUBSET S,
           \A c \in S : /\ Cardinality({key[d] : d \in Ahead(S, c)}) < limit
                        /\ key[c] \notin {key[d] : d \in Ahead(S, c)}
                        => c \in K
    PROVE  AtLeastOf({key[c] : c \in K}, {key[c] : c \in S}, limit)
<1> DEFINE KK == {key[c] : c \in K}
           SS == {key[c] : c \in S}
<1>1. IsFiniteSet(0..m)
  <2>1. 0 \in Int /\ m \in Int
    OBVIOUS
  <2> QED
    BY <2>1, FS_Interval
<1>2. KK \subseteq 0..m /\ SS \subseteq 0..m
  OBVIOUS
<1>3. /\ IsFiniteSet(KK) /\ IsFiniteSet(SS)
      /\ Cardinality(KK) \in Nat /\ Cardinality(SS) \in Nat
  BY <1>1, <1>2, FS_Subset, FS_CardinalityType
<1> SUFFICES ASSUME Cardinality(KK) < limit, Cardinality(KK) < Cardinality(SS) PROVE FALSE
  BY <1>3 DEF AtLeastOf
<1> DEFINE T == {c \in S : key[c] \notin KK}
<1>4. T # {}
  <2>1. SUFFICES ASSUME T = {} PROVE FALSE
    OBVIOUS
  <2>2. KK = SS
    BY <2>1
  <2> HIDE DEF KK, SS
  <2> QED
    BY <1>3, <2>2
<1>5. PICK c \in T : \A d \in T : ~Newer(d, c)
  BY <1>4, NewestOf
<1> DEFINE AA == {key[d] : d \in Ahead(S, c)}
<1>6. AA \subseteq KK
  BY <1>5 DEF Ahead
<1>7. Cardinality(AA) <= Cardinality(KK) /\ Cardinality(AA) \in Nat
  BY <1>3, <1>6, FS_Subset, FS_CardinalityType
<1>8. c \in K
  BY <1>3, <1>5, <1>6, <1>7
<1> QED
  BY <1>5, <1>8

\* Dates and weeks are numbers up to the last instant.
LEMMA DateAndWeek ==
    ASSUME NEW c \in Clock
    PROVE  Date(c) \in 0..MaxTime + 1 /\ Week(c) \in 0..MaxTime + 1
<1>1. c.now \in Nat /\ c.now <= MaxTime /\ c.off \in {0, 1} /\ MaxTime \in Nat
  BY BackupAssumption DEF Clock
<1>2. Date(c) \in 0..MaxTime + 1
  BY <1>1 DEF Date
<1>3. ASSUME NEW d \in Nat, NEW k \in Nat \ {0} PROVE d \div k \in Nat /\ d \div k <= d
  <2>1. d \div k \in Int
    BY SMT
  <2>2. d \div k >= 0
    BY SMT
  <2>3. d \div k <= d
    BY SMT
  <2> QED
    BY <2>1, <2>2, <2>3
<1>4. DaysPerWeek \in Nat \ {0}
  BY BackupAssumption
<1>5. Week(c) \in Nat /\ Week(c) <= Date(c)
  BY <1>2, <1>3, <1>4 DEF Week
<1> QED
  BY <1>1, <1>2, <1>5

(* What automatic_retention_ids spares covers all dates, weeks and schemas it
   is to cover, whichever copy is protected. *)
LEMMA RetentionCovers ==
    ASSUME NEW S \in SUBSET Job, NEW n \in Nat, \A c \in S : c.id <= n, NEW p
    PROVE  Covers(S \ Retention(S, p), S)
<1> DEFINE K == S \ Retention(S, p)
           date == [c \in Job |-> Date(c.at)]
           week == [c \in Job |-> Week(c.at)]
<1>1. \A c \in Job : c.at \in Clock
  BY DEF Job
<1>2. date \in [Job -> 0..MaxTime + 1] /\ week \in [Job -> 0..MaxTime + 1] /\ MaxTime + 1 \in Nat
  BY <1>1, DateAndWeek, BackupAssumption
<1>3. Days \in Nat /\ Weeks \in Nat
  BY BackupAssumption
<1>4. K \in SUBSET S
  OBVIOUS
<1>5. ASSUME NEW c \in S,
             \/ /\ Cardinality({date[d] : d \in Ahead(S, c)}) < Days
                /\ date[c] \notin {date[d] : d \in Ahead(S, c)}
             \/ /\ Cardinality({week[d] : d \in Ahead(S, c)}) < Weeks
                /\ week[c] \notin {week[d] : d \in Ahead(S, c)}
             \/ c.schema \notin {d.schema : d \in Ahead(S, c)}
      PROVE  c \in K
  <2>1. {date[d] : d \in Ahead(S, c)} = {Date(d.at) : d \in {d \in S : Newer(d, c)}}
    BY DEF Ahead
  <2>2. {week[d] : d \in Ahead(S, c)} = {Week(d.at) : d \in {d \in S : Newer(d, c)}}
    BY DEF Ahead
  <2>3. date[c] = Date(c.at) /\ week[c] = Week(c.at)
    OBVIOUS
  <2>4. {d.schema : d \in Ahead(S, c)} = {d.schema : d \in {d \in S : Newer(d, c)}}
    BY DEF Ahead
  <2> HIDE DEF date, week
  <2> QED
    BY <1>5, <2>1, <2>2, <2>3, <2>4 DEF Retention
<1>6. AtLeastOf({date[c] : c \in K}, {date[c] : c \in S}, Days)
  <2> HIDE DEF K, date, week
  <2> QED
    BY <1>2, <1>3, <1>4, <1>5, FirstsCover
<1>7. AtLeastOf({week[c] : c \in K}, {week[c] : c \in S}, Weeks)
  <2> HIDE DEF K, date, week
  <2> QED
    BY <1>2, <1>3, <1>4, <1>5, FirstsCover
<1>8. {c.schema : c \in K} = {c.schema : c \in S}
  <2>1. SUFFICES ASSUME NEW c \in S PROVE \E k \in K : k.schema = c.schema
    BY <1>4
  <2> DEFINE T == {d \in S : d.schema = c.schema}
  <2>2. T \in SUBSET Job /\ T # {} /\ \A d \in T : d.id <= n
    OBVIOUS
  <2>3. PICK k \in T : \A d \in T : ~Newer(d, k)
    <3> HIDE DEF T
    <3> QED
      BY <2>2, NewestOf
  <2>4. k.schema \notin {d.schema : d \in Ahead(S, k)}
    BY <2>3 DEF Ahead
  <2> HIDE DEF K
  <2> QED
    BY <1>5, <2>3, <2>4
<1>9. /\ {date[c] : c \in K} = {Date(c.at) : c \in K} /\ {date[c] : c \in S} = {Date(c.at) : c \in S}
      /\ {week[c] : c \in K} = {Week(c.at) : c \in K} /\ {week[c] : c \in S} = {Week(c.at) : c \in S}
  <2> HIDE DEF K
  <2> QED
    BY <1>4
<1> HIDE DEF K, date, week
<1>10. Covers(K, S)
  BY <1>6, <1>7, <1>8, <1>9 DEF Covers
<1> QED
  BY <1>10 DEF K

\* A cover stays one when the set it covers shrinks to anything between.
LEMMA CoverBetween ==
    ASSUME NEW K, NEW T, NEW S \in SUBSET Job, K \subseteq T, T \subseteq S, Covers(K, S)
    PROVE  Covers(K, T) /\ Covers(T, S)
<1> DEFINE dates(X) == {Date(c.at) : c \in X}
           weeks(X) == {Week(c.at) : c \in X}
           schemas(X) == {c.schema : c \in X}
<1>1. \A c \in S : c.at \in Clock
  BY DEF Job
<1>2. dates(S) \subseteq 0..MaxTime + 1 /\ weeks(S) \subseteq 0..MaxTime + 1
  BY <1>1, DateAndWeek
<1>3. IsFiniteSet(0..MaxTime + 1)
  <2>1. 0 \in Int /\ MaxTime + 1 \in Int
    BY BackupAssumption
  <2> QED
    BY <2>1, FS_Interval
<1>4. /\ dates(K) \subseteq dates(T) /\ dates(T) \subseteq dates(S)
      /\ weeks(K) \subseteq weeks(T) /\ weeks(T) \subseteq weeks(S)
      /\ schemas(K) \subseteq schemas(T) /\ schemas(T) \subseteq schemas(S)
  OBVIOUS
<1>5. /\ AtLeastOf(dates(K), dates(S), Days) /\ AtLeastOf(weeks(K), weeks(S), Weeks)
      /\ schemas(K) = schemas(S)
  BY DEF Covers
<1> HIDE DEF dates, weeks, schemas
<1>6. /\ IsFiniteSet(dates(S)) /\ IsFiniteSet(dates(T)) /\ IsFiniteSet(dates(K))
      /\ IsFiniteSet(weeks(S)) /\ IsFiniteSet(weeks(T)) /\ IsFiniteSet(weeks(K))
  BY <1>2, <1>3, <1>4, FS_Subset
<1>7. ASSUME NEW A, NEW B, NEW C, IsFiniteSet(C), A \subseteq B, B \subseteq C,
             NEW limit \in Nat, AtLeastOf(A, C, limit)
      PROVE  AtLeastOf(A, B, limit) /\ AtLeastOf(B, C, limit)
  <2>1. IsFiniteSet(A) /\ IsFiniteSet(B)
    BY <1>7, FS_Subset
  <2>2. Cardinality(A) \in Nat /\ Cardinality(B) \in Nat /\ Cardinality(C) \in Nat
    BY <1>7, <2>1, FS_CardinalityType
  <2>3. Cardinality(A) <= Cardinality(B) /\ Cardinality(B) <= Cardinality(C)
    BY <1>7, <2>1, FS_Subset
  <2> QED
    BY <1>7, <2>2, <2>3 DEF AtLeastOf
<1>8. Days \in Nat /\ Weeks \in Nat
  BY BackupAssumption
<1>9. /\ AtLeastOf(dates(K), dates(T), Days) /\ AtLeastOf(dates(T), dates(S), Days)
      /\ AtLeastOf(weeks(K), weeks(T), Weeks) /\ AtLeastOf(weeks(T), weeks(S), Weeks)
      /\ schemas(K) = schemas(T) /\ schemas(T) = schemas(S)
  BY <1>4, <1>5, <1>6, <1>7, <1>8
<1> QED
  BY <1>9 DEF Covers, dates, weeks, schemas

----------------------------------------------------------------------------
(* Files: what is registered has been published and synced. *)

LEMMA FileNext ==
    ASSUME Typed, JobInv, FileInv, [Next]_vars
    PROVE  FileInv'
<1> USE DEF FileInv, Whole
<1>1. CASE Rename
  BY <1>1 DEF Rename
<1>2. CASE SyncDirectory
  BY <1>2 DEF SyncDirectory
<1>3. CASE CheckPending
  <2>1. CASE Verified(db.pend)
    <3>1. /\ disk' = files /\ files' = files /\ pc' = "register"
          /\ cur' = [NoRun EXCEPT !.job = db.pend, !.prev = db.last]
      BY <1>3, <2>1 DEF CheckPending, Resync
    <3>2. cur'.job = db.pend
      BY <3>1 DEF NoRun
    <3> QED
      BY <2>1, <3>1, <3>2 DEF Verified
  <2>2. CASE ~Verified(db.pend)
    BY <1>3, <2>2 DEF CheckPending, Warn
  <2> QED
    BY <2>1, <2>2
<1>4. CASE CheckBackwards \/ CheckNothing \/ CheckPrune \/ CheckFresh
  BY <1>4 DEF CheckBackwards, CheckNothing, CheckPrune, CheckFresh, MayRun, Idle, Warn
<1>5. CASE \/ Register \/ Scan \/ ScanFails \/ Unlink \/ Forget \/ Pruned
           \/ ExportRename \/ ExportDone \/ Restart \/ \E c \in db.copies : ForgetMissing(c)
  BY <1>5 DEF Register, Scan, ScanFails, Unlink, Forget, Pruned, ExportRename, ExportDone, Restart,
              ForgetMissing, EndPrune
<1>6. CASE \/ Tick \/ Edit \/ SetEnabled \/ ResetProfile \/ Upgrade \/ Export
           \/ (\E c \in Clock : SetClock(c)) \/ \E f \in files, whole \in BOOLEAN : Take(f, whole)
  BY <1>6 DEF Tick, Edit, SetEnabled, ResetProfile, Upgrade, Export, SetClock, Take, World, Idle
<1>7. CASE PublishFails \/ RegisterFails \/ UnlinkFails \/ ExportFails \/ Crash
  BY <1>7 DEF PublishFails, RegisterFails, UnlinkFails, ExportFails, Crash, Warn, EndPrune
<1>8. CASE UNCHANGED vars
  BY <1>8 DEF vars
<1> QED
  BY <1>1, <1>2, <1>3, <1>4, <1>5, <1>6, <1>7, <1>8 DEF Next, Check, Step, Environment

----------------------------------------------------------------------------
(* The copy of the last success. *)

\* It stays the last one as long as it is registered and its file is left alone.
LEMMA LastKept ==
    ASSUME LastInv,
           db'.last = db.last, db'.backedUp = db.backedUp, db'.copies \subseteq db.copies,
           \A c \in db.copies : Held(c) =>
              /\ c \in db'.copies
              /\ c.id \in taken' \/ Whole(c) \in files' \cap disk',
           pc' \in Pruning => pc \in Pruning /\ cur'.protected = cur.protected
    PROVE  LastInv'
<1>1. CASE db.last = NoClock
  BY <1>1 DEF LastInv
<1>2. CASE db.last # NoClock
  <2>1. PICK c \in db.copies : Held(c)
    BY <1>2 DEF LastInv
  <2>2. c \in db'.copies /\ (c.id \in taken' \/ Whole(c) \in files' \cap disk')
    BY <2>1
  <2>3. Held(c)'
    <3>1. c.at = db'.last /\ c.rev = db'.backedUp
      BY <2>1 DEF Held
    <3>2. \A d \in db'.copies \ {c} : d.id < c.id /\ Later(c.at, d.at)
      BY <2>1 DEF Held
    <3>3. pc' \in Pruning => c.id = cur'.protected
      BY <2>1 DEF Held
    <3> QED
      BY <2>2, <3>1, <3>2, <3>3 DEF Held
  <2> QED
    BY <1>2, <2>2, <2>3 DEF LastInv
<1> QED
  BY <1>1, <1>2

LEMMA LastInit == Init => LastInv
<1> SUFFICES ASSUME Init PROVE LastInv
  OBVIOUS
<1>1. db.last = NoClock /\ db.copies = {} /\ db.backedUp = 0
  <2>1. \A d \in Imported : Bound(d).last = NoClock /\ Bound(d).copies = {} /\ Bound(d).backedUp = 0
    BY DEF Imported, Bound
  <2>2. CASE db = Fresh(TRUE)
    BY <2>2 DEF Fresh
  <2>3. ASSUME NEW d \in Imported, db = Bound(d)
        PROVE  db.last = NoClock /\ db.copies = {} /\ db.backedUp = 0
    BY <2>1, <2>3
  <2> QED
    BY <2>2, <2>3 DEF Init
<1> QED
  BY <1>1 DEF Init, LastInv, Pruning, Deleting

LEMMA LastCheck ==
    ASSUME Typed, JobInv, FileInv, LastInv, Check
    PROVE  LastInv'
<1> USE DEF Pruning, Deleting
<1>1. db \in Bookkeeping /\ Cleared \in Bookkeeping /\ SameJobs(Cleared, db)
  BY ClearedOnly DEF Typed
<1>2. ASSUME SameJobs(db', db), taken' = taken, files \cap disk \subseteq files' \cap disk', pc' \notin Pruning
      PROVE  LastInv'
  <2>1. \A c \in db.copies : Held(c) => c \in db'.copies /\ (c.id \in taken' \/ Whole(c) \in files' \cap disk')
    BY <1>2 DEF Held, SameJobs
  <2> QED
    BY <1>2, <2>1, LastKept DEF SameJobs
<1>3. CASE CheckBackwards
  <2>1. pc' = "idle" /\ \E k \in Keys : db' = [db EXCEPT !.warning = k]
    BY <1>3 DEF CheckBackwards, Warn, Keys
  <2> QED
    BY <1>1, <1>2, <1>3, <2>1, FlagsOnly DEF CheckBackwards, Stays, Quiet
<1>4. CASE CheckNothing
  BY <1>1, <1>2, <1>4 DEF CheckNothing, Idle, Stays, Quiet
<1>5. CASE CheckPrune
  <2>1. SameJobs(db', db)
    <3>1. db' = Cleared \/ db' = [Cleared EXCEPT !.prune = "failed"]
      BY <1>5 DEF CheckPrune
    <3>2. SameJobs([Cleared EXCEPT !.prune = "failed"], Cleared)
      BY <1>1, FlagsOnly, Blank
    <3> QED
      BY <1>1, <3>1, <3>2 DEF SameJobs
  <2>2. files' = files /\ disk' = disk /\ taken' = taken
    BY <1>5 DEF CheckPrune, Stays, Quiet
  <2>3. CASE db.copies = {}
    <3>1. pc' \notin Pruning
      BY <1>5, <2>3 DEF CheckPrune, MayRun, Idle
    <3> QED
      BY <1>2, <2>1, <2>2, <3>1
  <2>4. CASE db.copies # {}
    <3>1. PICK c \in db.copies : Held(c) /\ Newest(db.copies) = c
      BY <1>5, NewestIsHeld DEF CheckPrune, RetriesPrune
    <3>2. cur' = [NoRun EXCEPT !.protected = c.id]
      BY <1>5, <2>4, <3>1 DEF CheckPrune, Newest
    <3>3. cur'.protected = c.id
      BY <3>2 DEF NoRun
    <3>4. Held(c)'
      BY <2>1, <2>2, <3>1, <3>3 DEF Held, SameJobs
    <3>5. db.last # NoClock
      BY <1>5 DEF CheckPrune, RetriesPrune
    <3> QED
      BY <2>1, <3>4, <3>5 DEF LastInv, SameJobs
  <2> QED
    BY <2>3, <2>4
<1>6. CASE CheckPending
  <2>1. /\ files' = files /\ (disk' = disk \/ disk' = files) /\ taken' = taken
        /\ pc' \notin Pruning
        /\ db' = Cleared \/ db' = [db EXCEPT !.warning = "failed"]
    BY <1>6 DEF CheckPending, Stays, Resync, Quiet, Warn
  <2>2. SameJobs(db', db)
    BY <1>1, <2>1, FlagsOnly, Blank
  <2> QED
    BY <1>2, <2>1, <2>2
<1>7. CASE CheckFresh
  <2>1. PICK j : db' = [Cleared EXCEPT !.pend = j]
    BY <1>7 DEF CheckFresh
  <2>2. db'.last = db.last /\ db'.backedUp = db.backedUp /\ db'.copies = db.copies
    BY <1>1, <2>1 DEF SameJobs, Bookkeeping
  <2>3. files' = files /\ disk' = disk /\ taken' = taken /\ pc' \notin Pruning
    BY <1>7 DEF CheckFresh
  <2> QED
    BY <2>2, <2>3, LastKept DEF Held
<1> QED
  BY <1>3, <1>4, <1>5, <1>6, <1>7 DEF Check

LEMMA LastStep ==
    ASSUME Typed, JobInv, FileInv, LastInv, PruneInv, Step
    PROVE  LastInv'
<1> USE DEF Pruning, Deleting
<1>1. db \in Bookkeeping /\ db.copies \subseteq Job /\ db.last \in Clock \cup {NoClock}
  BY DEF Typed, Bookkeeping
<1>2. ASSUME db'.last = db.last, db'.backedUp = db.backedUp, db'.copies = db.copies, taken' = taken,
             files \cap disk \subseteq files' \cap disk',
             pc' \in Pruning => pc \in Pruning /\ cur'.protected = cur.protected
      PROVE  LastInv'
  BY <1>2, LastKept DEF Held
<1>3. CASE \/ Rename \/ SyncDirectory \/ ExportRename \/ ExportDone \/ Restart
  <2>1. db' = db /\ files \cap disk \subseteq files' \cap disk' /\ taken' = taken /\ pc' \notin Pruning
    BY <1>3 DEF Rename, SyncDirectory, ExportRename, ExportDone, Restart, Stays, Quiet
  <2> QED
    BY <1>2, <2>1
<1>4. CASE ScanFails \/ Pruned
  <2>1. /\ files' = files /\ disk' = disk /\ taken' = taken /\ pc' = "idle"
        /\ \E k \in Keys : db' = [db EXCEPT !.prune = k]
    BY <1>4 DEF ScanFails, Pruned, EndPrune, Stays, Quiet, Keys
  <2>2. SameJobs(db', db)
    BY <1>1, <2>1, FlagsOnly
  <2> QED
    BY <1>2, <2>1, <2>2 DEF SameJobs
<1>5. CASE Scan
  <2>1. /\ db' = db /\ files' = files /\ disk' = disk /\ taken' = taken /\ pc = "scan"
        /\ cur' = [cur EXCEPT !.victims = Retention(db.copies, cur.protected)]
    BY <1>5 DEF Scan, Stays, Quiet
  <2>2. cur'.protected = cur.protected
    BY <2>1 DEF Typed, Run
  <2> QED
    BY <1>2, <2>1, <2>2
<1>6. CASE Unlink
  <2>1. PICK v \in cur.victims :
           /\ files' = {f \in files : f.job # v}
           /\ cur' = [cur EXCEPT !.victims = @ \ {v}, !.job = v]
    BY <1>6 DEF Unlink
  <2>2. db' = db /\ disk' = disk /\ taken' = taken /\ pc = "unlink"
    BY <1>6 DEF Unlink, Quiet
  <2>3. cur'.protected = cur.protected
    BY <2>1 DEF Typed, Run
  <2>4. v.id # cur.protected
    BY <2>1, <2>2 DEF PruneInv, Condemned
  <2>5. \A c \in db.copies : Held(c) => (c.id \in taken' \/ Whole(c) \in files' \cap disk')
    BY <2>1, <2>2, <2>4 DEF Held, Whole
  <2> QED
    BY <2>2, <2>3, <2>5, LastKept
<1>7. CASE Forget
  <2>1. /\ db' = [db EXCEPT !.copies = db.copies \ {cur.job}] /\ files' = files /\ disk' = files
        /\ taken' = taken /\ pc = "forget" /\ cur' = cur
    BY <1>7 DEF Forget, Quiet
  <2>2. db'.last = db.last /\ db'.backedUp = db.backedUp /\ db'.copies = db.copies \ {cur.job}
    BY <1>1, <2>1 DEF Bookkeeping
  <2>3. cur.job.id # cur.protected
    BY <2>1 DEF PruneInv, Condemned
  <2>4. \A c \in db.copies :
           Held(c) => c \in db'.copies /\ (c.id \in taken' \/ Whole(c) \in files' \cap disk')
    BY <2>1, <2>2, <2>3 DEF Held
  <2> QED
    BY <2>1, <2>2, <2>4, LastKept
<1>8. ASSUME NEW v \in db.copies, ForgetMissing(v) PROVE LastInv'
  <2>1. /\ db' = [db EXCEPT !.copies = db.copies \ {v}] /\ files' = files /\ disk' = disk
        /\ taken' = taken /\ pc = "scan" /\ cur' = cur /\ Protected # {} /\ Named(v) = {}
    BY <1>8 DEF ForgetMissing, Stays, Quiet
  <2>2. db'.last = db.last /\ db'.backedUp = db.backedUp /\ db'.copies = db.copies \ {v}
    BY <1>1, <2>1 DEF Bookkeeping
  <2>3. ASSUME NEW c \in db.copies, Held(c) PROVE c # v
    <3>1. PICK q \in db.copies : q.id = cur.protected /\ Whole(q) \in files
      BY <2>1 DEF Protected, Verified, Whole
    <3>2. c.id = cur.protected
      BY <2>1, <2>3 DEF Held
    <3>3. \A d \in db.copies \ {c} : d.id < c.id
      BY <2>3 DEF Held
    <3>4. q.id \in Nat
      BY <1>1 DEF Job
    <3>5. q = c
      BY <3>1, <3>2, <3>3, <3>4
    <3>6. Whole(c) \in Named(c)
      BY <3>1, <3>5 DEF Named, Whole
    <3> QED
      BY <2>1, <3>6
  <2>4. \A c \in db.copies :
           Held(c) => c \in db'.copies /\ (c.id \in taken' \/ Whole(c) \in files' \cap disk')
    BY <2>1, <2>2, <2>3 DEF Held
  <2> QED
    BY <2>1, <2>2, <2>4, LastKept
<1>9. CASE Register
  <2> DEFINE trusted == /\ cur.prev # NoClock
                        /\ Trusted(cur.prev, cur.job.at) /\ Trusted(cur.job.at, clock)
             prune == IF ~trusted /\ cur.prev # NoClock THEN "clock" ELSE db.prune
  <2> HIDE DEF trusted
  <2>1. /\ db' = [db EXCEPT !.copies = @ \cup {cur.job}, !.backedUp = cur.job.rev,
                            !.last = cur.job.at, !.warning = "none", !.pend = NoJob,
                            !.prune = prune]
        /\ pc' = IF trusted THEN "scan" ELSE "idle"
        /\ cur' = IF trusted THEN [NoRun EXCEPT !.protected = cur.job.id] ELSE NoRun
        /\ pc = "register"
        /\ files' = files /\ disk' = disk
    BY <1>9 DEF Register, trusted, Stays
  <2> HIDE DEF prune
  <2>2. /\ db'.copies = db.copies \cup {cur.job} /\ db'.backedUp = cur.job.rev
        /\ db'.last = cur.job.at
    BY <1>1, <2>1 DEF Bookkeeping
  <2>3. pc' \in Pruning => cur'.protected = cur.job.id
    BY <2>1 DEF NoRun
  <2>4. cur.job = db.pend /\ cur.job \in Job /\ db.pend # NoJob
    BY <2>1, PublishedJob, NotTyped DEF Publishing
  <2>5. Whole(cur.job) \in files' \cap disk'
    BY <2>1 DEF FileInv
  <2>6. \A d \in db.copies : d.id < cur.job.id /\ Later(cur.job.at, db.last)
    BY <2>4 DEF JobInv
  <2>7. \A d \in db.copies : Later(cur.job.at, d.at)
    <3>1. SUFFICES ASSUME NEW d \in db.copies PROVE Later(cur.job.at, d.at)
      OBVIOUS
    <3>2. PICK c \in db.copies : Held(c)
      BY DEF LastInv
    <3>3. db.last = c.at /\ c.at \in Clock /\ d.at \in Clock /\ cur.job.at \in Clock
      BY <1>1, <2>4, <3>2 DEF Held, Job
    <3>4. CASE d = c
      BY <2>6, <3>3, <3>4
    <3>5. CASE d # c
      <4>1. c.at.now > d.at.now /\ Date(c.at) > Date(d.at)
        BY <3>2, <3>3, <3>5, NotTyped DEF Held, Later
      <4>2. cur.job.at.now > c.at.now /\ Date(cur.job.at) > Date(c.at)
        BY <2>6, <3>3, NotTyped DEF Later
      <4>3. \A k \in Clock : k.now \in Nat /\ Date(k) \in Nat
        BY DateAndWeek, BackupAssumption DEF Clock
      <4> QED
        BY <3>3, <4>1, <4>2, <4>3 DEF Later
    <3> QED
      BY <3>4, <3>5
  <2>8. ASSUME NEW j, j = cur.job PROVE Held(j)'
    <3>1. \A d \in db'.copies \ {j} : d.id < j.id /\ Later(j.at, d.at)
      BY <2>2, <2>6, <2>7, <2>8
    <3> QED
      BY <2>2, <2>3, <2>5, <2>8, <3>1 DEF Held
  <2>9. db'.last # NoClock
    BY <2>2, <2>4, NotTyped DEF Job
  <2> QED
    <3>1. PICK j : j = cur.job
      OBVIOUS
    <3> QED
      BY <2>2, <2>8, <2>9, <3>1 DEF LastInv
<1> QED
  BY <1>3, <1>4, <1>5, <1>6, <1>7, <1>8, <1>9 DEF Step

LEMMA LastEnvironment ==
    ASSUME Typed, JobInv, LastInv, Environment
    PROVE  LastInv'
<1> USE DEF Pruning, Deleting
<1>1. db \in Bookkeeping
  BY DEF Typed
<1>2. ASSUME SameJobs(db', db) \/ (\E n : db' = [db EXCEPT !.content = n]), taken' = taken,
             files \cap disk \subseteq files' \cap disk', pc' \notin Pruning
      PROVE  LastInv'
  <2>1. db'.last = db.last /\ db'.backedUp = db.backedUp /\ db'.copies = db.copies
    BY <1>1, <1>2 DEF SameJobs, Bookkeeping
  <2> QED
    BY <1>2, <2>1, LastKept DEF Held
<1>3. CASE Tick \/ Upgrade \/ Export \/ ExportFails \/ Crash \/ \E c \in Clock : SetClock(c)
  <2>1. db' = db /\ taken' = taken /\ files \cap disk \subseteq files' \cap disk' /\ pc' \notin Pruning
    BY <1>3 DEF Tick, Upgrade, Export, ExportFails, Crash, SetClock, World, Idle, Stays, Quiet
  <2> QED
    BY <1>2, <2>1 DEF SameJobs
<1>4. CASE Edit
  BY <1>2, <1>4 DEF Edit, World, Idle
<1>5. CASE SetEnabled
  BY <1>1, <1>2, <1>5, FlagsOnly, Blank DEF SetEnabled, World, Idle
<1>6. CASE ResetProfile
  <2>1. db' = Fresh(db.enabled) /\ pc' \notin Pruning
    BY <1>6 DEF ResetProfile, World, Idle
  <2> QED
    BY <2>1 DEF Fresh, LastInv
<1>7. ASSUME NEW f \in files, NEW whole \in BOOLEAN, Take(f, whole) PROVE LastInv'
  <2>1. /\ files \ {f} \subseteq files' /\ disk \ {f} \subseteq disk' /\ taken' = taken \cup {f.job.id}
        /\ db' = db /\ pc' = "idle"
    BY <1>7 DEF Take, Idle
  <2>2. \A c \in db.copies : Held(c) => (c.id \in taken' \/ Whole(c) \in files' \cap disk')
    BY <2>1 DEF Held, Whole
  <2> QED
    BY <2>1, <2>2, LastKept
<1>8. CASE RegisterFails \/ UnlinkFails
  <2>1. /\ pc' = "idle" /\ taken' = taken /\ files' = files /\ disk' = disk
        /\ db' = [db EXCEPT !.warning = "failed"] \/ db' = [db EXCEPT !.prune = "failed"]
    BY <1>8 DEF RegisterFails, UnlinkFails, Warn, EndPrune, Stays, Rest
  <2> QED
    BY <1>1, <1>2, <2>1, FlagsOnly, Blank
<1>9. CASE PublishFails
  <2>1. /\ pc' = "idle" /\ taken' = taken /\ files' = {f \in files : f.job # cur.job} /\ disk' = disk
        /\ db' = [db EXCEPT !.warning = "failed"] /\ pc \in {"publish", "sync"}
    BY <1>9 DEF PublishFails, Warn, Rest
  <2>2. db'.last = db.last /\ db'.backedUp = db.backedUp /\ db'.copies = db.copies
    BY <1>1, <2>1, FlagsOnly, Blank DEF SameJobs
  <2>3. cur.job = db.pend /\ db.pend # NoJob
    BY <2>1 DEF JobInv, Publishing
  <2>4. \A c \in db.copies : c # cur.job
    <3>1. \A c \in db.copies : c.id < db.pend.id /\ c.id \in Nat
      BY <1>1, <2>3 DEF JobInv, Bookkeeping, Job
    <3> QED
      BY <2>3, <3>1
  <2>5. \A c \in db.copies : Held(c) => (c.id \in taken' \/ Whole(c) \in files' \cap disk')
    BY <2>1, <2>4 DEF Held, Whole
  <2> QED
    BY <2>1, <2>2, <2>5, LastKept
<1> QED
  BY <1>3, <1>4, <1>5, <1>6, <1>7, <1>8, <1>9 DEF Environment

LEMMA LastNext ==
    ASSUME Typed, JobInv, FileInv, LastInv, PruneInv, [Next]_vars
    PROVE  LastInv'
<1>1. CASE UNCHANGED vars
  BY <1>1, LastKept DEF vars, Held
<1> QED
  BY <1>1, LastCheck, LastStep, LastEnvironment DEF Next

----------------------------------------------------------------------------
(* A prune: what is condemned leaves a cover. *)

LEMMA PruneNext ==
    ASSUME Typed, JobInv, PruneInv, [Next]_vars
    PROVE  PruneInv'
<1> USE DEF Deleting
<1>1. db.copies \in SUBSET Job /\ cur \in Run /\ db \in Bookkeeping
  BY DEF Typed, Bookkeeping
<1>2. CASE Scan
  <2> DEFINE victims == Retention(db.copies, cur.protected)
  <2>1. /\ cur' = [cur EXCEPT !.victims = victims] /\ db' = db /\ files' = files /\ pc' = "unlink"
        /\ \A c \in db.copies : Whole(c) \in files
    BY <1>2 DEF Scan, Stays, Verified, Whole
  <2>2. cur'.victims = victims /\ cur'.protected = cur.protected
    BY <1>1, <2>1 DEF Run
  <2>3. \A c \in victims : c \in db.copies /\ c.id # cur.protected
    BY DEF Retention
  <2>4. Covers(db.copies \ victims, db.copies)
    <3>1. jobs \in Nat /\ \A c \in db.copies : c.id <= jobs
      BY DEF Typed, JobInv
    <3> QED
      BY <1>1, <3>1, RetentionCovers
  <2> HIDE DEF victims
  <2>5. Condemned' = victims
    BY <2>1, <2>2 DEF Condemned
  <2> QED
    BY <2>1, <2>2, <2>3, <2>4, <2>5 DEF PruneInv, Whole
<1>3. CASE Unlink
  <2>1. PICK c \in cur.victims :
           /\ files' = {f \in files : f.job # c}
           /\ cur' = [cur EXCEPT !.victims = @ \ {c}, !.job = c]
    BY <1>3 DEF Unlink
  <2>2. pc = "unlink" /\ pc' = "forget" /\ db' = db
    BY <1>3 DEF Unlink
  <2>3. cur'.victims = cur.victims \ {c} /\ cur'.job = c /\ cur'.protected = cur.protected
    BY <1>1, <2>1 DEF Run
  <2>4. Condemned' = Condemned
    BY <2>1, <2>2, <2>3 DEF Condemned
  <2>5. \A d \in db.copies : d = c \/ Whole(d) \in files'
    BY <2>1, <2>2 DEF PruneInv, Whole
  <2> QED
    BY <2>2, <2>3, <2>4, <2>5 DEF PruneInv, Whole
<1>4. CASE Forget
  <2>1. /\ pc = "forget" /\ pc' = "unlink" /\ cur' = cur /\ files' = files
        /\ db' = [db EXCEPT !.copies = db.copies \ {cur.job}]
    BY <1>4 DEF Forget
  <2>2. db'.copies = db.copies \ {cur.job}
    BY <1>1, <2>1 DEF Bookkeeping
  <2>3. Condemned' = cur.victims /\ Condemned = cur.victims \cup {cur.job}
    BY <2>1 DEF Condemned
  <2>4. Covers(db.copies \ Condemned, db.copies) /\ cur.job \notin cur.victims
    BY <2>1 DEF PruneInv
  <2>5. db'.copies \ Condemned' = db.copies \ Condemned
    BY <2>2, <2>3
  <2>6. Covers(db'.copies \ Condemned', db'.copies)
    BY <1>1, <2>2, <2>4, <2>5, CoverBetween
  <2>7. \A c \in db'.copies : Whole(c) \in files'
    BY <2>1, <2>2 DEF PruneInv
  <2>8. \A c \in cur.victims : c \in db'.copies /\ c.id # cur.protected
    BY <2>1, <2>2, <2>4 DEF PruneInv, Condemned
  <2> QED
    BY <2>1, <2>3, <2>6, <2>7, <2>8 DEF PruneInv, Whole
<1>5. CASE Check
  BY <1>5 DEF Check, CheckBackwards, CheckNothing, CheckPrune, CheckPending, CheckFresh, MayRun, Idle,
              Warn, PruneInv
<1>6. CASE \/ Rename \/ SyncDirectory \/ Register \/ ScanFails \/ Pruned
           \/ ExportRename \/ ExportDone \/ Restart \/ \E c \in db.copies : ForgetMissing(c)
  BY <1>6 DEF Rename, SyncDirectory, Register, ScanFails, Pruned, ExportRename, ExportDone, Restart,
              ForgetMissing, EndPrune, Quiet, PruneInv
<1>7. CASE Environment
  BY <1>7 DEF Environment, Tick, Edit, SetEnabled, ResetProfile, Upgrade, Export, SetClock, Take,
              PublishFails, RegisterFails, UnlinkFails, ExportFails, Crash, World, Idle, Warn, EndPrune,
              PruneInv
<1>8. CASE UNCHANGED vars
  BY <1>8 DEF vars, PruneInv, Condemned, Whole
<1> QED
  BY <1>2, <1>3, <1>4, <1>5, <1>6, <1>7, <1>8 DEF Next, Step

----------------------------------------------------------------------------
(* The invariant and what follows from it. *)

LEMMA BackupInvInit == Init => BackupInv
<1> SUFFICES ASSUME Init PROVE BackupInv
  OBVIOUS
<1>1. pc = "idle"
  BY DEF Init
<1>2. FileInv /\ PruneInv
  BY <1>1 DEF FileInv, PruneInv, Deleting
<1> QED
  BY <1>2, TypedInit, JobInit, LastInit DEF BackupInv

LEMMA BackupInvNext == BackupInv /\ [Next]_vars => BackupInv'
<1> SUFFICES ASSUME BackupInv, [Next]_vars PROVE BackupInv'
  OBVIOUS
<1>1. Typed /\ JobInv /\ FileInv /\ LastInv /\ PruneInv
  BY DEF BackupInv
<1>2. CASE UNCHANGED vars
  <2>1. Typed' /\ JobInv'
    BY <1>1, <1>2 DEF vars, Typed, JobInv
  <2> QED
    BY <1>1, <2>1, FileNext, LastNext, PruneNext DEF BackupInv
<1>3. CASE Next
  <2>1. Typed' /\ JobInv'
    BY <1>1, <1>3, TypedCheck, TypedStep, TypedEnvironment, JobCheck, JobStep, JobEnvironment DEF Next
  <2> QED
    BY <1>1, <2>1, FileNext, LastNext, PruneNext DEF BackupInv
<1> QED
  BY <1>2, <1>3

LEMMA BackupInvHolds == Spec => []BackupInv
BY BackupInvInit, BackupInvNext, PTL DEF Spec

\* Every variable stays in its set, and a staged copy does not outlive a restart.
THEOREM TypeCorrect == Spec => []TypeOK
<1>1. BackupInv => TypeOK
  <2> SUFFICES ASSUME BackupInv PROVE TypeOK
    OBVIOUS
  <2>1. Typed /\ JobInv
    BY DEF BackupInv
  <2>2. /\ db.copies \subseteq Job /\ db.pend \in Job \cup {NoJob} /\ db.last \in Clock \cup {NoClock}
        /\ db.warning \in Keys /\ db.prune \in Keys
        /\ db.content \in 0..MaxEdits /\ db.backedUp \in 0..MaxEdits
    BY <2>1 DEF Typed, Bookkeeping
  <2>3. db.backedUp \in 0..db.content
    BY <2>1, <2>2, BackupAssumption DEF JobInv
  <2>4. \A f \in files \cup disk : f.job \in Job /\ f.whole \in BOOLEAN
    BY <2>1 DEF Typed, Snapshot
  <2>5. temp => pc \in {"publish", "down"}
    BY <2>1 DEF JobInv
  <2> QED
    BY <2>1, <2>2, <2>3, <2>4, <2>5 DEF Typed, TypeOK, Keys
<1> QED
  BY <1>1, BackupInvHolds, PTL

\* Register and prune of automatic_backup.rs: the revision on record as backed
\* up is in a registered copy whose file would survive a power loss, whatever
\* check, failure or crash comes between, unless the user took the file.
THEOREM BackedUpStays == Spec => []BackedUpIsKept
<1>1. BackupInv => BackedUpIsKept
  <2> SUFFICES ASSUME BackupInv, db.backedUp > 0
               PROVE  \E c \in db.copies :
                         /\ c.rev = db.backedUp
                         /\ c.id \in taken \/ [job |-> c, whole |-> TRUE] \in files \cap disk
    BY DEF BackedUpIsKept
  <2>1. LastInv /\ db.backedUp # 0
    BY DEF BackupInv
  <2>2. PICK c \in db.copies : Held(c)
    BY <2>1 DEF LastInv
  <2> QED
    BY <2>2 DEF Held, Whole
<1> QED
  BY <1>1, BackupInvHolds, PTL

\* The order in which prune removes what automatic_retention_ids condemned: no
\* file it unlinks takes the whole registered copies below the days and weeks
\* to keep, or takes the last copy of a schema version.
THEOREM PruneCovers == Spec => PruneKeepsCover
<1>1. ASSUME BackupInv, [Next]_vars, pc = "unlink", pc' = "forget"
      PROVE  LET old == Cover(files)
                 new == Cover(files')
             IN  /\ AtLeast({Date(c.at) : c \in new}, {Date(c.at) : c \in old}, Days)
                 /\ AtLeast({Week(c.at) : c \in new}, {Week(c.at) : c \in old}, Weeks)
                 /\ {c.schema : c \in new} = {c.schema : c \in old}
  <2> DEFINE old == Cover(files)
             new == Cover(files')
             dates(X) == {Date(c.at) : c \in X}
             weeks(X) == {Week(c.at) : c \in X}
  <2>1. Typed /\ JobInv /\ PruneInv /\ db.copies \in SUBSET Job
    BY <1>1 DEF BackupInv, Typed, Bookkeeping
  <2>2. old = db.copies
    BY <1>1, <2>1 DEF PruneInv, Deleting, Cover, Whole
  <2>3. PICK v \in cur.victims : files' = {f \in files : f.job # v}
    <3>1. Unlink
      BY <1>1 DEF Next, Check, Step, Environment, CheckBackwards, CheckNothing, CheckPrune, CheckPending,
                  CheckFresh, Rename, SyncDirectory, Register, Scan, ScanFails, Forget, Pruned,
                  ForgetMissing, ExportRename, ExportDone, Restart, Tick, Edit, SetEnabled,
                  ResetProfile, Upgrade, Export, SetClock, Take, PublishFails, RegisterFails,
                  UnlinkFails, ExportFails, Crash, World, Idle, MayRun, Warn, EndPrune, vars
    <3> QED
      BY <3>1 DEF Unlink
  <2>4. new \in SUBSET db.copies /\ db.copies \ Condemned \subseteq new
    <3>1. Condemned = cur.victims
      BY <1>1 DEF Condemned
    <3>2. \A c \in db.copies : Whole(c) \in files
      BY <1>1, <2>1 DEF PruneInv, Deleting
    <3> QED
      BY <2>2, <2>3, <3>1, <3>2 DEF Cover, Whole
  <2>5. Covers(db.copies \ Condemned, db.copies)
    BY <1>1, <2>1 DEF PruneInv, Deleting
  <2> HIDE DEF old, new
  <2>6. Covers(new, old)
    BY <2>1, <2>2, <2>4, <2>5, CoverBetween
  <2>7. IsFiniteSet(0..MaxTime + 1)
    <3>1. 0 \in Int /\ MaxTime + 1 \in Int
      BY BackupAssumption
    <3> QED
      BY <3>1, FS_Interval
  <2>8. \A c \in db.copies : c.at \in Clock
    BY <2>1 DEF Job
  <2>9. /\ dates(old) \subseteq 0..MaxTime + 1 /\ weeks(old) \subseteq 0..MaxTime + 1
        /\ dates(new) \subseteq 0..MaxTime + 1 /\ weeks(new) \subseteq 0..MaxTime + 1
    BY <2>2, <2>4, <2>8, DateAndWeek
  <2>10. AtLeastOf(dates(new), dates(old), Days) /\ AtLeastOf(weeks(new), weeks(old), Weeks)
    BY <2>6 DEF Covers
  <2>11. ASSUME NEW A, NEW B, A \subseteq 0..MaxTime + 1, B \subseteq 0..MaxTime + 1,
                NEW limit \in Nat, AtLeastOf(A, B, limit)
         PROVE  AtLeast(A, B, limit)
    <3>1. Cardinality(A) \in Nat /\ Cardinality(B) \in Nat
      BY <2>7, <2>11, FS_Subset, FS_CardinalityType
    <3>2. ASSUME NEW x \in Nat, NEW y \in Nat, NEW z \in Nat, z >= x \/ z >= y
          PROVE  z >= Min({x, y})
      <4>1. Min({x, y}) \in {x, y} /\ \A w \in {x, y} : Min({x, y}) <= w
        <5>1. \E w \in {x, y} : \A u \in {x, y} : w <= u
          OBVIOUS
        <5> QED
          BY <5>1 DEF Min
      <4>2. Min({x, y}) <= x /\ Min({x, y}) <= y /\ Min({x, y}) \in Nat
        BY <4>1
      <4> QED
        BY <3>2, <4>2
    <3> QED
      BY <2>11, <3>1, <3>2 DEF AtLeast, AtLeastOf
  <2>12. AtLeast(dates(new), dates(old), Days) /\ AtLeast(weeks(new), weeks(old), Weeks)
    <3>1. Days \in Nat /\ Weeks \in Nat
      BY BackupAssumption
    <3> HIDE DEF dates, weeks
    <3> QED
      BY <2>9, <2>10, <2>11, <3>1
  <2>13. {c.schema : c \in new} = {c.schema : c \in old}
    BY <2>6 DEF Covers
  <2> QED
    BY <2>12, <2>13 DEF old, new
<1>2. BackupInv /\ [Next]_vars =>
        [pc = "unlink" /\ pc' = "forget" =>
           LET old == Cover(files)
               new == Cover(files')
           IN  /\ AtLeast({Date(c.at) : c \in new}, {Date(c.at) : c \in old}, Days)
               /\ AtLeast({Week(c.at) : c \in new}, {Week(c.at) : c \in old}, Weeks)
               /\ {c.schema : c \in new} = {c.schema : c \in old}]_vars
  BY <1>1
<1> QED
  BY <1>2, BackupInvHolds, PTL DEF Spec, PruneKeepsCover

\* export_backup_to: whatever fails, the user's file is replaced or stays, as
\* long as it was there before.
THEOREM UserFileStays == Spec => UserFileKept
<1>1. ASSUME [Next]_vars, target # "none", pc = "exported" => cur.existed
      PROVE  target' # "none"
  <2>1. CASE ExportRename \/ ExportDone
    BY <2>1 DEF ExportRename, ExportDone
  <2>2. CASE ExportFails
    BY <1>1, <2>2 DEF ExportFails, Undone
  <2>3. CASE Crash
    BY <1>1, <2>3 DEF Crash
  <2>4. CASE ~(ExportRename \/ ExportDone \/ ExportFails \/ Crash)
    <3>1. target' = target
      BY <1>1, <2>4 DEF Next, Check, Step, Environment, CheckBackwards, CheckNothing, CheckPrune,
                  CheckPending, CheckFresh, Rename, SyncDirectory, Register, Scan, ScanFails, Unlink,
                  Forget, Pruned, ForgetMissing, Restart, Tick, Edit, SetEnabled, ResetProfile,
                  Upgrade, Export, SetClock, Take, PublishFails, RegisterFails, UnlinkFails,
                  World, Quiet, Rest, vars
    <3> QED
      BY <1>1, <3>1
  <2> QED
    BY <2>1, <2>2, <2>3, <2>4
<1>2. [Next]_vars => [target # "none" /\ (pc = "exported" => cur.existed) => target' # "none"]_vars
  BY <1>1
<1> QED
  BY <1>2, PTL DEF Spec, UserFileKept

=============================================================================
