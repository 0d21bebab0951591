----------------------- MODULE ProfileSessionsProofs -----------------------
(***************************************************************************)
(* Theorems about ProfileSessions, for any number of profiles, windows,    *)
(* jobs, sessions, requests and reloads.                                   *)
(***************************************************************************)
EXTENDS ProfileSessions, TLAPS

\* Nobody at work is at no step.
LEMMA NoWriterRests == NoWriter.step = "none" /\ NoWriter.op = "none" /\ NoWriter.old = NoSession
BY DEF NoWriter

\* A write permit excludes every job, and a job holds a permit of the open session.
Exclusive == /\ running \subseteq {active}
             /\ writer # NoWriter => running = {}

\* Opening and reopening happen under the write permit, which no job shares;
\* everything that takes the permit or closes the session waits for it to be free.
LEMMA ExclusiveStep == Exclusive /\ [Next]_vars => Exclusive'
<1> SUFFICES ASSUME Exclusive, [Next]_vars PROVE Exclusive'
  OBVIOUS
<1> USE DEF Exclusive
<1>1. CASE Prepare
  BY <1>1 DEF Prepare, sessions
<1>2. ASSUME NEW w \in Windows, NEW resolved \in BOOLEAN, Answer(w, resolved)
      PROVE  Exclusive'
  BY <1>2 DEF Answer, sessions
<1>3. ASSUME NEW w \in Windows, Ack(w) \/ OpenWindow(w) \/ CloseWindow(w)
      PROVE  Exclusive'
  BY <1>3 DEF Ack, OpenWindow, CloseWindow, sessions
<1>4. CASE Issue
  BY <1>4 DEF Issue, sessions
<1>5. CASE GiveUp \/ Release \/ Reload
  BY <1>5 DEF GiveUp, Release, Cancel, Reload, sessions
<1>6. ASSUME NEW s, Job(s) \/ JobEnds(s) PROVE Exclusive'
  BY <1>6 DEF Job, JobEnds, FreeForReaders, sessions
<1>7. ASSUME NEW op, NEW id, Call(op, id) PROVE Exclusive'
  BY <1>7 DEF Call, sessions
<1>8. ASSUME NEW c \in sent, Begin(c) PROVE Exclusive'
  BY <1>8 DEF Begin, Free
<1>9. CASE OpenManager
  <2>1. running = {} /\ running' = {}
    BY <1>9, NoWriterRests DEF OpenManager, Untouched, Kept
  <2> QED
    BY <2>1
<1>10. CASE OpeningFails \/ DeletionUnsynced
  <2>1. running = {} /\ running' = {}
    BY <1>10, NoWriterRests DEF OpeningFails, DeletionUnsynced, Untouched, Kept
  <2> QED
    BY <2>1
<1>11. ASSUME NEW ok \in BOOLEAN, FilesDone(ok) \/ Reopen(ok) PROVE Exclusive'
  <2>1. running = {} /\ running' = {}
    BY <1>11, NoWriterRests DEF FilesDone, Reopen, Untouched, Kept
  <2> QED
    BY <2>1
<1>12. ASSUME NEW p \in Callers, Finish(p) PROVE Exclusive'
  BY <1>12 DEF Finish, sessions
<1>13. ASSUME NEW p \in Pages, Adopt(p) \/ Decide(p) \/ MarkRecovery(p) \/ Load(p)
       PROVE  Exclusive'
  BY <1>13 DEF Adopt, Decide, MarkRecovery, Load, BootOnly, sessions
<1>14. ASSUME NEW p \in Pages, BootActivate(p) PROVE Exclusive'
  BY <1>14 DEF BootActivate, Free
<1>30. ASSUME NEW r \in journal, Repeat(r) PROVE Exclusive'
  BY <1>30 DEF Repeat, Free
<1>15. CASE UNCHANGED vars
  BY <1>15 DEF vars, sessions
<1> QED
  BY <1>1, <1>30, <1>2, <1>3, <1>4, <1>5, <1>6, <1>7, <1>8, <1>9, <1>10, <1>11, <1>12, <1>13,
     <1>14, <1>15 DEF Next, Core

LEMMA ExclusiveAlways == Spec => []Exclusive
<1>1. Init => Exclusive
  BY DEF Init, Exclusive
<1> QED
  BY <1>1, ExclusiveStep, PTL DEF Spec

\* A job runs on the database of the session it was admitted for
\* (coordinator.rs:110-123, the read permit of with_session).
THEOREM JobsKeepSession == Spec => []JobsKeepTheirSession
<1>1. Exclusive => JobsKeepTheirSession
  BY DEF Exclusive, JobsKeepTheirSession
<1> QED
  BY <1>1, ExclusiveAlways, PTL

----------------------------------------------------------------------------
\* The shape of every record, and what the windows, the token of the pending
\* request and the operation under way refer to.
Ops == {"activate", "reset", "delete"}
Types ==
    /\ active \in Session /\ announced \in Session
    /\ recovery \in BOOLEAN /\ last \in Profiles \cup {NoProfile} /\ gens \in 0..MaxSessions
    /\ running \subseteq Session \ {NoSession}
    /\ minted \in Nat
    /\ tokens \subseteq [token : 1..minted, session : Session]
WriterTypes ==
    /\ writer \in [op : Ops \cup {"none", "bootstrap"}, id : Profiles \cup {NoProfile},
                   operation : Nat, old : Session, page : Nat,
                   step : {"none", "open", "files", "reopen", "reopen ok"}]
    /\ writer.step # "none" => writer.id \in Profiles /\ gens < MaxSessions
SentTypes ==
    \A c \in sent : c.op \in Ops /\ c.id \in Profiles /\ c.page \in Nat /\ c.token \in Nat
JournalTypes ==
    journal \subseteq [id : Profiles, operation : Nat, phase : {"prepared", "committed"}]
Phases == {"idle", "waiting", "granted", "calling", "over"}
BarrierTypes ==
    /\ pending \in [req : Nat, expected : Session, required : SUBSET Windows,
                    acked : SUBSET Windows, token : Nat]
    /\ pending.acked \subseteq pending.required /\ pending.required \subseteq open
    /\ open \subseteq Windows
    /\ ui \in [page : Nat, phase : Phases, req : Nat, token : Nat]
TypeInv == Types /\ WriterTypes /\ SentTypes /\ BarrierTypes

LEMMA NoSessionTyped == NoSession \in Session
BY DEF Session

LEMMA NoWriterTyped ==
    NoWriter \in [op : Ops \cup {"none", "bootstrap"}, id : Profiles \cup {NoProfile},
                  operation : Nat, old : Session, page : Nat,
                  step : {"none", "open", "files", "reopen", "reopen ok"}]
BY NoSessionTyped DEF NoWriter

LEMMA WriterKept == WriterTypes /\ UNCHANGED <<writer, gens>> => WriterTypes'
BY DEF WriterTypes

LEMMA OpenedTyped ==
    ASSUME NEW id \in Profiles, Types, gens < MaxSessions, Opened(id)
    PROVE  active' \in Session /\ active' # NoSession /\ gens' \in 0..MaxSessions
<1>1. gens + 1 \in 1..MaxSessions /\ gens + 1 # 0
  BY SessionsAssumption DEF Types
<1>2. active' \in [id : Profiles, gen : 1..MaxSessions]
  BY <1>1 DEF Opened
<1>3. active'.gen = gens + 1 /\ NoSession.gen = 0
  BY DEF Opened, NoSession
<1> QED
  BY <1>1, <1>2, <1>3 DEF Session, Opened

LEMMA RevokedTyped ==
    ASSUME Types, NEW t PROVE Revoked(t) \subseteq [token : 1..minted, session : Session]
BY DEF Types, Revoked

LEMMA IssueTyped ==
    ASSUME Types, NEW required, NEW acked, IssueToken(required, acked)
    PROVE  /\ minted' \in Nat
           /\ tokens' \subseteq [token : 1..minted', session : Session]
<1>1. minted' \in Nat /\ 1..minted \subseteq 1..minted' /\ minted + 1 \in 1..minted'
  BY DEF Types, IssueToken
<1> QED
  BY <1>1 DEF Types, IssueToken

LEMMA IssueBarrier ==
    ASSUME Types, BarrierTypes, NEW required \in SUBSET Windows, NEW acked \in SUBSET required,
           IssueToken(required, acked)
    PROVE  /\ pending' \in [req : Nat, expected : Session, required : SUBSET Windows,
                            acked : SUBSET Windows, token : Nat]
           /\ pending'.required = required /\ pending'.acked = acked
           /\ ui' \in [page : Nat, phase : Phases, req : Nat, token : Nat]
<1>1. minted + 1 \in Nat /\ acked \in SUBSET Windows
  BY DEF Types
<1> QED
  BY <1>1 DEF BarrierTypes, IssueToken, Phases

LEMMA OverTyped ==
    ASSUME BarrierTypes, NEW p
    PROVE  Over(p) \in [page : Nat, phase : Phases, req : Nat, token : Nat]
BY DEF BarrierTypes, Over, Phases

LEMMA NoRequestTyped ==
    /\ NoRequest \in [req : Nat, expected : Session, required : SUBSET Windows,
                      acked : SUBSET Windows, token : Nat]
    /\ NoRequest.required = {} /\ NoRequest.acked = {}
BY NoSessionTyped DEF NoRequest

\* The steps of the barrier.
LEMMA BarrierStep ==
    ASSUME TypeInv,
           \/ Prepare \/ GiveUp \/ Release \/ Reload \/ Issue
           \/ \E w \in Windows : \/ \E resolved \in BOOLEAN : Answer(w, resolved)
                                 \/ Ack(w) \/ OpenWindow(w) \/ CloseWindow(w)
           \/ \E p \in Callers : Finish(p)
           \/ \E op \in Ops, id \in Profiles : Call(op, id)
    PROVE  TypeInv'
<1> USE DEF TypeInv
<1>1. CASE Prepare
  <2>1. ui.req + 1 \in Nat
    BY DEF BarrierTypes
  <2>2. BarrierTypes'
    BY <1>1, <2>1 DEF Prepare, BarrierTypes, Types, Phases
  <2> QED
    BY <1>1, <2>2, WriterKept DEF Prepare, Types, SentTypes, sessions
<1>2. CASE GiveUp \/ Release
  <2>1. Types' /\ WriterTypes' /\ SentTypes'
    BY <1>2, RevokedTyped, WriterKept DEF GiveUp, Release, Cancel, Dropped, Types, SentTypes, sessions
  <2>2. ui' = [ui EXCEPT !.phase = "idle", !.token = 0] /\ open' = open
    BY <1>2 DEF GiveUp, Release, Cancel
  <2>3. pending' \in {pending, NoRequest}
    BY <1>2 DEF GiveUp, Release, Cancel, Dropped
  <2>4. ui' \in [page : Nat, phase : Phases, req : Nat, token : Nat]
    BY <2>2 DEF BarrierTypes, Phases
  <2>5. BarrierTypes'
    BY <2>2, <2>3, <2>4, NoRequestTyped DEF BarrierTypes
  <2> QED
    BY <2>1, <2>5
<1>3. CASE Reload
  BY <1>3, WriterKept DEF Reload, IdleUi, Types, SentTypes, BarrierTypes, Phases, sessions
<1>4. CASE Issue
  <2>1. Types' /\ WriterTypes' /\ SentTypes'
    BY <1>4, IssueTyped, WriterKept DEF Issue, Types, SentTypes, sessions
  <2>2. BarrierTypes'
    BY <1>4, IssueBarrier DEF Issue, BarrierTypes
  <2> QED
    BY <2>1, <2>2
<1>5. ASSUME NEW w \in Windows, NEW resolved \in BOOLEAN, Answer(w, resolved) PROVE TypeInv'
  BY <1>5, WriterKept DEF Answer, Types, SentTypes, BarrierTypes, sessions
<1>6. ASSUME NEW w \in Windows, Ack(w) PROVE TypeInv'
  <2>1. Types' /\ WriterTypes' /\ SentTypes'
    BY <1>6, RevokedTyped, WriterKept DEF Ack, Dropped, Types, SentTypes, sessions
  <2>2. CASE ~Accepted(w)
    BY <1>6, <2>1, <2>2 DEF Ack, BarrierTypes
  <2>3. CASE Accepted(w) /\ ~Head(answers[w]).resolved
    BY <1>6, <2>1, <2>3, NoRequestTyped DEF Ack, Dropped, BarrierTypes, Phases
  <2>4. CASE Accepted(w) /\ Head(answers[w]).resolved
    <3>1. w \in pending.required /\ pending' = [pending EXCEPT !.acked = @ \cup {w}] /\ UNCHANGED <<ui, open>>
      BY <1>6, <2>4 DEF Ack, Accepted
    <3> QED
      BY <2>1, <3>1 DEF BarrierTypes
  <2> QED
    BY <2>2, <2>3, <2>4
<1>7. ASSUME NEW w \in Windows, OpenWindow(w) PROVE TypeInv'
  <2>1. Types' /\ WriterTypes' /\ SentTypes'
    BY <1>7, RevokedTyped, WriterKept DEF OpenWindow, Types, SentTypes, sessions
  <2>2. BarrierTypes'
    <3>1. CASE pending = NoRequest
      BY <1>7, <3>1, NoRequestTyped DEF OpenWindow, BarrierTypes
    <3>2. CASE pending' = [pending EXCEPT !.required = @ \cup {w}, !.token = 0]
      BY <1>7, <3>2 DEF OpenWindow, BarrierTypes
    <3> QED
      BY <1>7, <3>1, <3>2 DEF OpenWindow
  <2> QED
    BY <2>1, <2>2
<1>8. ASSUME NEW w \in Windows, CloseWindow(w) PROVE TypeInv'
  <2>1. Types' /\ WriterTypes' /\ SentTypes'
    BY <1>8, IssueTyped, WriterKept DEF CloseWindow, Types, SentTypes, sessions
  <2>2. /\ pending.required \ {w} \in SUBSET Windows
        /\ pending.acked \ {w} \in SUBSET (pending.required \ {w})
        /\ pending.required \ {w} \subseteq open'
    BY <1>8 DEF CloseWindow, BarrierTypes
  <2>3. CASE IssueToken(pending.required \ {w}, pending.acked \ {w})
    <3>1. /\ pending' \in [req : Nat, expected : Session, required : SUBSET Windows,
                           acked : SUBSET Windows, token : Nat]
          /\ pending'.required = pending.required \ {w}
          /\ pending'.acked = pending.acked \ {w}
          /\ ui' \in [page : Nat, phase : Phases, req : Nat, token : Nat]
      BY <2>2, <2>3, IssueBarrier
    <3>2. open' \subseteq Windows
      BY <1>8 DEF CloseWindow, BarrierTypes
    <3> QED
      BY <2>1, <2>2, <3>1, <3>2 DEF BarrierTypes
  <2>4. CASE /\ pending' = [pending EXCEPT !.required = @ \ {w}, !.acked = @ \ {w}]
             /\ UNCHANGED ui
    BY <1>8, <2>1, <2>2, <2>4 DEF CloseWindow, BarrierTypes
  <2> QED
    <3>1. \/ IssueToken(pending.required \ {w}, pending.acked \ {w})
          \/ /\ pending' = [pending EXCEPT !.required = pending.required \ {w},
                                          !.acked = pending.acked \ {w}]
             /\ UNCHANGED ui
      BY <1>8 DEF CloseWindow
    <3> QED
      BY <3>1, <2>3, <2>4
<1>9. ASSUME NEW p \in Callers, Finish(p) PROVE TypeInv'
  <2>1. Types' /\ WriterTypes' /\ SentTypes'
    BY <1>9, RevokedTyped, WriterKept DEF Finish, Dropped, Types, SentTypes, sessions
  <2>2. BarrierTypes'
    BY <1>9, NoRequestTyped, OverTyped DEF Finish, Dropped, BarrierTypes
  <2> QED
    BY <2>1, <2>2
<1>10. ASSUME NEW op \in Ops, NEW id \in Profiles, Call(op, id) PROVE TypeInv'
  <2>1. Types' /\ WriterTypes' /\ BarrierTypes'
    BY <1>10, WriterKept DEF Call, Types, BarrierTypes, Phases, sessions, barrier
  <2>2. SentTypes'
    BY <1>10 DEF Call, SentTypes, BarrierTypes
  <2> QED
    BY <2>1, <2>2
<1> QED
  BY <1>1, <1>2, <1>3, <1>4, <1>5, <1>6, <1>7, <1>8, <1>9, <1>10

\* An operation ends: the page hears of it, and nobody is at work.
LEMMA EndTyped ==
    ASSUME TypeInv, active' \in Session, NEW ok \in BOOLEAN, EndWith(ok), Kept
    PROVE  /\ announced' \in Session /\ WriterTypes' /\ SentTypes' /\ BarrierTypes'
           /\ minted' = minted /\ tokens' = tokens /\ running' = running
<1> USE DEF TypeInv
<1>1. announced' \in Session
  BY DEF EndWith, Types
<1>2. WriterTypes'
  BY NoWriterTyped, NoWriterRests DEF EndWith, WriterTypes
<1>3. ui' \in [page : Nat, phase : Phases, req : Nat, token : Nat]
  BY OverTyped DEF EndWith, BarrierTypes
<1> QED
  BY <1>1, <1>2, <1>3 DEF Untouched, Kept, barrier, SentTypes, BarrierTypes

\* The steps of the coordinator and of a bootstrap.
LEMMA CoordinatorStep ==
    ASSUME TypeInv,
           \/ OpenManager \/ OpeningFails \/ DeletionUnsynced
           \/ \E ok \in BOOLEAN : FilesDone(ok) \/ Reopen(ok)
           \/ \E c \in sent : Begin(c)
           \/ \E s \in {active} \cup running : Job(s) \/ JobEnds(s)
           \/ \E p \in Pages : Adopt(p) \/ Decide(p) \/ BootActivate(p)
                               \/ MarkRecovery(p) \/ Load(p)
    PROVE  TypeInv'
<1> USE DEF TypeInv
<1>1. CASE OpenManager
  <2>1. writer.id \in Profiles /\ gens < MaxSessions
    BY <1>1 DEF OpenManager, WriterTypes
  <2>2. active' \in Session /\ gens' \in 0..MaxSessions
    BY <1>1, <2>1, OpenedTyped DEF OpenManager
  <2>3. recovery' \in BOOLEAN /\ last' \in Profiles \cup {NoProfile}
    BY <1>1, <2>1 DEF OpenManager
  <2> QED
    BY <1>1, <2>2, <2>3, EndTyped DEF OpenManager, Untouched, Types
<1>2. CASE OpeningFails
  BY <1>2 DEF OpeningFails, Untouched, Kept, sessions, barrier, Types, WriterTypes, SentTypes, BarrierTypes
<1>3. CASE DeletionUnsynced
  BY <1>3, EndTyped DEF DeletionUnsynced, Untouched, sessions, Types
<1>4. ASSUME NEW ok \in BOOLEAN, FilesDone(ok) PROVE TypeInv'
  <2>1. CASE writer.op = "delete" /\ ok
    <3>1. UNCHANGED <<active, recovery, gens>> /\ EndWith(TRUE) /\ Kept
      BY <1>4, <2>1 DEF FilesDone
    <3>2. last' \in Profiles \cup {NoProfile}
      BY <1>4, <2>1 DEF FilesDone, Types
    <3> QED
      BY <3>1, <3>2, EndTyped DEF Types
  <2>2. CASE ~(writer.op = "delete" /\ ok)
    <3>1. /\ writer' = [writer EXCEPT !.step = IF ok THEN "reopen ok" ELSE "reopen"]
          /\ UNCHANGED <<active, recovery, last, gens, ui, announced, running, tokens,
                         minted, pending, open, sent>>
          /\ writer.step = "files"
      BY <1>4, <2>2 DEF FilesDone, Untouched, Kept, sessions, barrier
    <3>2. WriterTypes'
      BY <3>1 DEF WriterTypes
    <3> QED
      BY <3>1, <3>2 DEF Types, SentTypes, BarrierTypes
  <2> QED
    BY <2>1, <2>2
<1>5. ASSUME NEW ok \in BOOLEAN, Reopen(ok) PROVE TypeInv'
  <2>1. gens < MaxSessions /\ writer.old \in Session
    BY <1>5 DEF Reopen, WriterTypes
  <2>3. active' \in Session /\ gens' \in 0..MaxSessions
    <3>1. CASE ok /\ writer.old # NoSession
      <4>1. writer.old.id \in Profiles
        BY <2>1, <3>1 DEF Session
      <4> QED
        BY <1>5, <2>1, <3>1, <4>1, OpenedTyped DEF Reopen
    <3>2. CASE ~(ok /\ writer.old # NoSession)
      BY <1>5, <3>2 DEF Reopen, Types
    <3> QED
      BY <3>1, <3>2
  <2>4. recovery' \in BOOLEAN
    BY <1>5, Zenon DEF Reopen, Types
  <2>5. EndWith(TRUE) \/ EndWith(FALSE)
    BY <1>5, Zenon DEF Reopen
  <2> QED
    BY <1>5, <2>3, <2>4, <2>5, EndTyped DEF Reopen, Untouched, Types
<1>6. ASSUME NEW c \in sent, Begin(c) PROVE TypeInv'
  <2>1. Types' /\ SentTypes'
    <3>1. active' \in Session /\ tokens' \subseteq [token : 1..minted, session : Session]
      BY <1>6, NoSessionTyped, RevokedTyped DEF Begin, Types
    <3> QED
      BY <1>6, <3>1 DEF Begin, Types, SentTypes
  <2>2. WriterTypes'
    <3>1. c.op \in Ops /\ c.id \in Profiles /\ c.page \in Nat /\ c.token \in Nat
          /\ gens' = gens /\ gens < MaxSessions
      BY <1>6 DEF Begin, SentTypes
    <3>2. CASE writer' = [op |-> c.op, id |-> c.id, operation |-> c.token, page |-> c.page,
                          old |-> IF Closes(c) THEN active ELSE NoSession,
                          step |-> IF c.op = "activate" THEN "open" ELSE "files"]
      BY <3>1, <3>2, NoSessionTyped DEF WriterTypes, Types
    <3>3. CASE writer' = writer
      BY <3>1, <3>3 DEF WriterTypes
    <3> QED
      BY <1>6, <3>2, <3>3 DEF Begin
  <2>3. BarrierTypes'
    BY <1>6, OverTyped DEF Begin, BarrierTypes
  <2> QED
    BY <2>1, <2>2, <2>3
<1>7. ASSUME NEW s \in {active} \cup running, Job(s) \/ JobEnds(s) PROVE TypeInv'
  BY <1>7 DEF Job, JobEnds, sessions, barrier, Types, WriterTypes, SentTypes, BarrierTypes
<1>8. ASSUME NEW p \in Pages, Adopt(p) \/ Decide(p) \/ MarkRecovery(p) \/ Load(p)
      PROVE  TypeInv'
  <2>1. /\ UNCHANGED <<active, last, gens, writer, running, tokens, minted, pending, open, ui, sent>>
        /\ recovery' \in BOOLEAN /\ announced' \in Session
    BY <1>8 DEF Adopt, Decide, MarkRecovery, Load, BootOnly, sessions, barrier, Types
  <2> QED
    BY <2>1 DEF Types, WriterTypes, SentTypes, BarrierTypes
<1>9. ASSUME NEW p \in Pages, BootActivate(p) PROVE TypeInv'
  <2>1. last \in Profiles /\ gens < MaxSessions /\ p \in Nat
    BY <1>9, SessionsAssumption DEF BootActivate, Types, Pages
  <2> QED
    BY <1>9, <2>1, NoSessionTyped
    DEF BootActivate, barrier, Types, WriterTypes, SentTypes, BarrierTypes
<1> QED
  BY <1>1, <1>2, <1>3, <1>4, <1>5, <1>6, <1>7, <1>8, <1>9

LEMMA InitTyped == Init => TypeInv
<1> SUFFICES ASSUME Init PROVE TypeInv
  OBVIOUS
<1>1. Types
  <2>1. gens \in 0..MaxSessions /\ minted \in Nat
    BY SessionsAssumption DEF Init
  <2>2. tokens = {} /\ running = {} /\ recovery \in BOOLEAN /\ last \in Profiles
        /\ active = NoSession /\ announced = NoSession
    BY DEF Init
  <2> QED
    BY <2>1, <2>2, NoSessionTyped DEF Types
<1>2. WriterTypes
  BY NoWriterTyped, NoWriterRests DEF Init, WriterTypes
<1>3. BarrierTypes
  BY SessionsAssumption, NoRequestTyped DEF Init, BarrierTypes, IdleUi, Phases
<1> QED
  BY <1>1, <1>2, <1>3 DEF TypeInv, SentTypes, Init

\* A reset that is called again works on a profile and a session that exist.
LEMMA RepeatTyped ==
    ASSUME TypeInv, JournalTypes, NEW r \in journal, Repeat(r) PROVE TypeInv'
<1> USE DEF TypeInv
<1>1. Types' /\ SentTypes' /\ BarrierTypes'
  BY NoSessionTyped DEF Repeat, Types, SentTypes, BarrierTypes, barrier
<1>2. CASE r.phase = "committed"
  BY <1>1, <1>2, WriterKept DEF Repeat
<1>3. CASE r.phase # "committed"
  <2>1. r.id \in Profiles /\ r.operation \in Nat /\ Repeater \in Nat
    BY SessionsAssumption DEF JournalTypes, Repeater
  <2>2. gens' = gens /\ gens < MaxSessions
    BY <1>3 DEF Repeat
  <2>3. PICK old \in Session :
           writer' = [op |-> "reset", id |-> r.id, operation |-> r.operation, page |-> Repeater,
                      old |-> old, step |-> "files"]
    BY <1>3, NoSessionTyped DEF Repeat, Types
  <2> QED
    BY <1>1, <2>1, <2>2, <2>3 DEF WriterTypes, Ops
<1> QED
  BY <1>2, <1>3

\* Records are written for commands that were sent, and finished by them.
LEMMA JournalStep == TypeInv /\ JournalTypes /\ [Next]_vars => JournalTypes'
<1> SUFFICES ASSUME TypeInv, JournalTypes, [Next]_vars PROVE JournalTypes'
  OBVIOUS
<1>1. ASSUME NEW c \in sent, Begin(c) PROVE JournalTypes'
  <2>1. c.id \in Profiles /\ c.token \in Nat
    BY DEF TypeInv, SentTypes
  <2>2. journal' \subseteq journal \cup {Record(c.id, c.token, "prepared")}
    BY <1>1 DEF Begin, Recorded
  <2> QED
    BY <2>1, <2>2 DEF JournalTypes, Record
<1>2. ASSUME NEW ok \in BOOLEAN, FilesDone(ok) PROVE JournalTypes'
  <2>1. writer.id \in Profiles /\ writer.operation \in Nat
    BY <1>2 DEF TypeInv, WriterTypes, FilesDone
  <2>2. journal' \subseteq journal \cup {Record(writer.id, writer.operation, "committed")}
    BY <1>2 DEF FilesDone
  <2> QED
    BY <2>1, <2>2 DEF JournalTypes, Record
<1>3. UNCHANGED journal \/ (\E c \in sent : Begin(c)) \/ (\E ok \in BOOLEAN : FilesDone(ok))
  BY Zenon DEF Next, Core, Issue, Finish, Adopt, Decide, MarkRecovery, Load, BootOnly, Prepare,
         GiveUp, Release, Cancel, Reload, Call, Answer, Ack, OpenWindow, CloseWindow, Job,
         JobEnds, OpenManager, OpeningFails, DeletionUnsynced, Reopen, BootActivate, Repeat,
         Untouched, resets, vars
<1> QED
  BY <1>1, <1>2, <1>3 DEF JournalTypes

LEMMA TypeStep == TypeInv /\ JournalTypes /\ [Next]_vars => TypeInv'
<1>1. TypeInv /\ UNCHANGED vars => TypeInv'
  BY DEF vars, sessions, barrier, TypeInv, Types, WriterTypes, SentTypes, BarrierTypes
<1> QED
  BY <1>1, BarrierStep, CoordinatorStep, RepeatTyped DEF Next, Core, Ops

LEMMA TypeAlways == Spec => [](TypeInv /\ JournalTypes)
<1>1. Init => JournalTypes
  BY DEF Init, JournalTypes
<1> QED
  BY <1>1, InitTyped, TypeStep, JournalStep, PTL DEF Spec

\* Sessions, tokens and the consent that was collected are about profiles,
\* windows and sessions that exist.
THEOREM TypeCorrect == Spec => []TypeOK
<1>1. TypeInv /\ JournalTypes => TypeOK
  BY DEF TypeInv, Types, WriterTypes, BarrierTypes, JournalTypes, TypeOK, Ops
<1> QED
  BY <1>1, TypeAlways, PTL

\* A switch, a reset or a bootstrap that closed a profile ends with a session or
\* in recovery (coordinator.rs:145-196, reset.rs:46-60).
THEOREM NeverSilentlyClosed == Spec => NoSilentClose
<1> DEFINE Loud == writer.op \in {"activate", "reset", "bootstrap"} /\ writer' = NoWriter
                   /\ writer.old # NoSession => active' # NoSession \/ recovery'
<1>1. TypeInv /\ [Next]_vars => [Loud]_vars
  <2> SUFFICES ASSUME TypeInv, Next, writer.op \in {"activate", "reset", "bootstrap"},
                      writer' = NoWriter, writer.old # NoSession
               PROVE  active' # NoSession \/ recovery'
    OBVIOUS
  <2>1. writer # writer'
    BY NoWriterRests
  <2>2. CASE OpenManager
    <3>1. writer.id \in Profiles /\ gens < MaxSessions
      BY <2>2 DEF OpenManager, TypeInv, WriterTypes
    <3> QED
      BY <2>2, <3>1, OpenedTyped DEF OpenManager, TypeInv
  <2>3. ASSUME NEW ok \in BOOLEAN, Reopen(ok) PROVE active' # NoSession \/ recovery'
    <3>1. CASE ok
      <4>1. writer.old.id \in Profiles /\ gens < MaxSessions
        BY <2>3 DEF Reopen, TypeInv, WriterTypes, Session
      <4> QED
        BY <2>3, <3>1, <4>1, OpenedTyped DEF Reopen, TypeInv
    <3>2. CASE ~ok
      BY <2>3, <3>2, Zenon DEF Reopen
    <3> QED
      BY <3>1, <3>2
  <2>4. ASSUME NEW ok \in BOOLEAN, FilesDone(ok) PROVE FALSE
    <3>1. writer' = [writer EXCEPT !.step = IF ok THEN "reopen ok" ELSE "reopen"]
      BY <2>4 DEF FilesDone
    <3>2. writer'.old = writer.old
      BY <3>1 DEF TypeInv, WriterTypes
    <3> QED
      BY <3>2, NoWriterRests
  <2>5. ~OpeningFails
    <3>1. OpeningFails => writer'.old = writer.old
      BY DEF OpeningFails, TypeInv, WriterTypes
    <3> QED
      BY <3>1, NoWriterRests
  <2>6. ~DeletionUnsynced
    BY DEF DeletionUnsynced
  <2>7. ASSUME NEW c \in sent, Begin(c) PROVE FALSE
    BY <2>7, <2>1 DEF Begin, Free
  <2>8. ASSUME NEW p \in Pages, BootActivate(p) PROVE FALSE
    BY <2>8, <2>1 DEF BootActivate, Free
  <2>10. ASSUME NEW r \in journal, Repeat(r) PROVE FALSE
    BY <2>10, <2>1 DEF Repeat, Free
  <2>9. UNCHANGED writer \/ OpenManager \/ OpeningFails \/ DeletionUnsynced
        \/ (\E ok \in BOOLEAN : FilesDone(ok) \/ Reopen(ok)) \/ (\E c \in sent : Begin(c))
        \/ (\E p \in Pages : BootActivate(p)) \/ (\E r \in journal : Repeat(r))
    BY DEF Next, Core, Issue, Finish, Adopt, Decide, MarkRecovery, Load, BootOnly, Prepare,
           GiveUp, Release, Cancel, Reload, Call, Answer, Ack, OpenWindow, CloseWindow, Job,
           JobEnds
  <2> QED
    BY <2>1, <2>2, <2>3, <2>4, <2>5, <2>6, <2>7, <2>8, <2>9, <2>10
<1> QED
  BY <1>1, TypeAlways, PTL DEF Spec, NoSilentClose

----------------------------------------------------------------------------
\* There is one token at most, the pending request's, and it stands for the
\* consent of every window that exists: a window that opens takes it back.
TokenInv ==
    /\ \A t \in tokens : t.token = pending.token /\ pending.token # 0
    /\ pending.token # 0 \/ issuing => pending.acked = pending.required /\ pending.req # 0
    /\ issuing => pending.token = 0
    /\ pending.req # 0 => pending.required = open
    /\ pending.req = 0 => pending = NoRequest

LEMMA NoRequestIdle == NoRequest.req = 0 /\ NoRequest.token = 0
BY DEF NoRequest

\* Dropping the pending request drops its token.
LEMMA DroppedTokens == TokenInv /\ Dropped /\ ~issuing' => TokenInv'
<1> SUFFICES ASSUME TokenInv, Dropped, ~issuing' PROVE TokenInv'
  OBVIOUS
<1>1. tokens' = {}
  BY DEF TokenInv, Dropped, Revoked
<1> QED
  BY <1>1, NoRequestIdle DEF TokenInv, Dropped

\* A token is issued when there is none and every required window has agreed.
LEMMA IssuedTokens ==
    ASSUME TypeInv, TokenInv, NEW required \in SUBSET Windows, required = open',
           pending.token = 0, pending.req # 0, ~issuing', IssueToken(required, required)
    PROVE  TokenInv'
<1>1. tokens = {}
  BY DEF TokenInv
<1>2. /\ pending'.token = minted + 1 /\ pending'.req = pending.req
      /\ pending'.acked = required /\ pending'.required = required
  BY DEF IssueToken, TypeInv, BarrierTypes
<1>3. minted + 1 # 0
  BY DEF TypeInv, Types
<1>4. \A t \in tokens' : t.token = minted + 1
  BY <1>1 DEF IssueToken
<1> QED
  BY <1>2, <1>3, <1>4 DEF TokenInv

\* What neither the barrier nor the windows see only takes tokens away.
LEMMA UnseenTokens ==
    TokenInv /\ UNCHANGED <<pending, issuing, open>> /\ tokens' \subseteq tokens => TokenInv'
BY DEF TokenInv

LEMMA TokenStep == TypeInv /\ TokenInv /\ [Next]_vars => TokenInv'
<1> SUFFICES ASSUME TypeInv, TokenInv, [Next]_vars PROVE TokenInv'
  OBVIOUS
<1>1. CASE Prepare
  <2>1. tokens' = {} /\ ~issuing'
    BY <1>1, NoRequestIdle DEF Prepare, TokenInv
  <2>2. /\ pending'.req = ui.req + 1 /\ pending'.token = 0
        /\ pending'.required = open /\ open' = open
    BY <1>1 DEF Prepare
  <2>3. ui.req + 1 # 0
    BY DEF TypeInv, BarrierTypes
  <2> QED
    BY <2>1, <2>2, <2>3 DEF TokenInv
<1>2. ASSUME NEW w \in Windows, NEW resolved \in BOOLEAN, Answer(w, resolved) PROVE TokenInv'
  BY <1>2, UnseenTokens DEF Answer
<1>3. ASSUME NEW w \in Windows, Ack(w) PROVE TokenInv'
  <2>1. CASE ~Accepted(w)
    BY <1>3, <2>1, UnseenTokens DEF Ack
  <2>2. CASE Accepted(w) /\ ~Head(answers[w]).resolved
    BY <1>3, <2>2, DroppedTokens DEF Ack
  <2>3. CASE Accepted(w) /\ Head(answers[w]).resolved
    <3>1. /\ pending' = [pending EXCEPT !.acked = pending.acked \cup {w}]
          /\ issuing' = (w \notin pending.acked /\ pending.acked \cup {w} = pending.required)
          /\ UNCHANGED <<tokens, open>> /\ w \in pending.required
      BY <1>3, <2>3 DEF Ack, Accepted
    <3>2. /\ pending'.acked = pending.acked \cup {w} /\ pending'.required = pending.required
          /\ pending'.token = pending.token /\ pending'.req = pending.req
      BY <3>1 DEF TypeInv, BarrierTypes
    <3>3. pending.req # 0
      BY <3>1, NoRequestTyped DEF TokenInv
    <3>4. issuing' => pending.token = 0
      BY <3>1 DEF TokenInv
    <3> QED
      BY <3>1, <3>2, <3>3, <3>4 DEF TokenInv
  <2> QED
    BY <2>1, <2>2, <2>3
<1>4. ASSUME NEW w \in Windows, OpenWindow(w) PROVE TokenInv'
  <2>1. CASE pending = NoRequest
    BY <1>4, <2>1, NoRequestIdle DEF OpenWindow, TokenInv
  <2>2. CASE pending # NoRequest
    <3>1. /\ pending' = [pending EXCEPT !.required = pending.required \cup {w}, !.token = 0]
          /\ tokens' = Revoked(pending.token)
          /\ ~issuing' /\ open' = open \cup {w}
      BY <1>4, <2>2 DEF OpenWindow
    <3>2. /\ pending'.required = pending.required \cup {w} /\ pending'.token = 0
          /\ pending'.req = pending.req
      BY <3>1 DEF TypeInv, BarrierTypes
    <3>3. tokens' = {}
      BY <3>1 DEF TokenInv, Revoked
    <3> QED
      BY <2>2, <3>1, <3>2, <3>3 DEF TokenInv
  <2> QED
    BY <2>1, <2>2
<1>5. ASSUME NEW w \in Windows, CloseWindow(w) PROVE TokenInv'
  <2> DEFINE required == pending.required \ {w}
             acked == pending.acked \ {w}
  <2>1. ~issuing' /\ open' = open \ {w}
    BY <1>5 DEF CloseWindow
  <2>2. CASE pending # NoRequest /\ pending.token = 0 /\ acked = required
    <3>1. required \in SUBSET Windows
      BY DEF TypeInv, BarrierTypes
    <3>2. pending.req # 0 /\ required = open'
      BY <2>1, <2>2 DEF TokenInv
    <3>3. IssueToken(required, required)
      BY <1>5, <2>2 DEF CloseWindow
    <3> HIDE DEF required
    <3> QED
      BY <2>1, <2>2, <3>1, <3>2, <3>3, IssuedTokens
  <2>3. CASE ~(pending # NoRequest /\ pending.token = 0 /\ acked = required)
    <3>1. /\ pending' = [pending EXCEPT !.required = required, !.acked = acked]
          /\ tokens' = tokens
      BY <1>5, <2>3 DEF CloseWindow
    <3>2. /\ pending'.required = required /\ pending'.acked = acked
          /\ pending'.token = pending.token /\ pending'.req = pending.req
      BY <3>1 DEF TypeInv, BarrierTypes
    <3>3. pending = NoRequest => pending' = NoRequest
      <4> SUFFICES ASSUME pending = NoRequest PROVE pending' = NoRequest
        OBVIOUS
      <4>1. required = {} /\ acked = {}
        BY NoRequestTyped
      <4> HIDE DEF required, acked
      <4> QED
        BY <3>1, <4>1 DEF NoRequest
    <3> QED
      BY <2>1, <3>1, <3>2, <3>3 DEF TokenInv
  <2> QED
    BY <2>2, <2>3
<1>6. CASE Issue
  <2>1. /\ pending.token = 0 /\ pending.req # 0 /\ pending.acked = pending.required
        /\ pending.required = open' /\ ~issuing'
    BY <1>6 DEF Issue, TokenInv
  <2>2. pending.required \in SUBSET Windows
    BY DEF TypeInv, BarrierTypes
  <2> QED
    BY <1>6, <2>1, <2>2, IssuedTokens DEF Issue
<1>7. CASE GiveUp \/ Release
  <2>1. ~issuing' /\ (Dropped \/ UNCHANGED <<pending, tokens, issuing, open>>)
    BY <1>7 DEF GiveUp, Release, Cancel
  <2> QED
    BY <2>1, DroppedTokens, UnseenTokens
<1>8. CASE Reload
  BY <1>8, UnseenTokens DEF Reload
<1>9. ASSUME NEW s, Job(s) \/ JobEnds(s) PROVE TokenInv'
  BY <1>9, UnseenTokens DEF Job, JobEnds, barrier
<1>10. ASSUME NEW op, NEW id, Call(op, id) PROVE TokenInv'
  BY <1>10, UnseenTokens DEF Call, barrier
<1>11. ASSUME NEW c \in sent, Begin(c) PROVE TokenInv'
  <2>1. tokens' \subseteq tokens
    BY <1>11 DEF Begin, Revoked
  <2> QED
    BY <1>11, <2>1, UnseenTokens DEF Begin
<1>12. ASSUME NEW p \in Callers, Finish(p) PROVE TokenInv'
  BY <1>12, DroppedTokens DEF Finish
<1>13. CASE \/ OpenManager \/ OpeningFails \/ DeletionUnsynced
            \/ \E ok \in BOOLEAN : FilesDone(ok) \/ Reopen(ok)
  <2>1. Kept
    BY <1>13 DEF OpenManager, OpeningFails, DeletionUnsynced, FilesDone, Reopen, Untouched
  <2> QED
    BY <2>1, UnseenTokens DEF Untouched, Kept, barrier
<1>14. ASSUME NEW p \in Pages,
              Adopt(p) \/ Decide(p) \/ MarkRecovery(p) \/ Load(p) \/ BootActivate(p)
       PROVE  TokenInv'
  BY <1>14, UnseenTokens DEF Adopt, Decide, MarkRecovery, Load, BootOnly, BootActivate, barrier
<1>30. ASSUME NEW r \in journal, Repeat(r) PROVE TokenInv'
  BY <1>30, UnseenTokens DEF Repeat, barrier
<1>15. CASE UNCHANGED vars
  BY <1>15, UnseenTokens DEF vars, barrier
<1> QED
  BY <1>1, <1>30, <1>2, <1>3, <1>4, <1>5, <1>6, <1>7, <1>8, <1>9, <1>10, <1>11, <1>12, <1>13,
     <1>14, <1>15 DEF Next, Core

----------------------------------------------------------------------------
\* While the page waits for consent or holds a token it has not used, nobody is
\* at work and no command is on its way, unless it asked over an earlier one or a
\* bootstrap came in between: the loads of the main page bootstrap one by one,
\* and one that asks has loaded.
Stages == {"none", "adopt", "decide", "activate", "opening", "failed", "load"}
LoadInv ==
    /\ boot \in [Pages -> Stages] /\ ui.page \in Pages
    /\ boot[ui.page] # "none" => ui.phase = "idle"
    /\ \A p \in Pages : p > ui.page => boot[p] = "none"
    /\ writer.op = "bootstrap" => writer.page \in Pages /\ boot[writer.page] = "opening"
QuietInv ==
    ~disturbed /\ ui.phase \in {"waiting", "granted"} => sent = {} /\ writer = NoWriter

\* What the end of a command does to the page.
LEMMA OverKeeps ==
    ASSUME BarrierTypes, NEW p
    PROVE  /\ Over(p).page = ui.page /\ Over(p).req = ui.req /\ Over(p).token = ui.token
           /\ Over(p) = ui \/ (ui.phase = "calling" /\ Over(p).phase = "over")
BY DEF BarrierTypes, Over, Phases

LEMMA EndKeeps ==
    ASSUME BarrierTypes, NEW ok \in BOOLEAN, EndWith(ok)
    PROVE  /\ ui'.page = ui.page /\ ui'.req = ui.req /\ ui'.token = ui.token
           /\ ui' = ui \/ (ui.phase = "calling" /\ ui'.phase = "over")
<1>1. ui' = ui \/ ui' = Over(writer.page)
  BY DEF EndWith
<1> QED
  BY <1>1, OverKeeps

\* A load of the main page goes on.
LEMMA BootSteps ==
    ASSUME LoadInv, NEW p \in Pages, NEW step \in Stages, boot[p] # "none", ui' = ui,
           boot' = [boot EXCEPT ![p] = step],
           \/ writer' = writer /\ boot[p] # "opening"
           \/ writer' = NoWriter /\ boot[p] = "opening"
           \/ writer'.page = p /\ step = "opening"
    PROVE  LoadInv'
<1>1. boot' \in [Pages -> Stages] /\ boot'[p] = step
      /\ \A q \in Pages \ {p} : boot'[q] = boot[q]
  BY DEF LoadInv
<1>2. ~(p > ui.page)
  BY DEF LoadInv
<1>3. writer'.op = "bootstrap" => writer'.page \in Pages /\ boot'[writer'.page] = "opening"
  BY <1>1, NoWriterRests DEF LoadInv
<1> QED
  BY <1>1, <1>2, <1>3 DEF LoadInv

\* An operation that is no bootstrap ends, or goes on.
LEMMA LoadKept ==
    ASSUME LoadInv, boot' = boot, ui'.page = ui.page,
           ui'.phase = ui.phase \/ ui.phase # "idle" \/ boot[ui.page] = "none",
           writer' = writer \/ writer'.op # "bootstrap"
                            \/ (writer'.op = writer.op /\ writer'.page = writer.page)
    PROVE  LoadInv'
BY DEF LoadInv

LEMMA EndLoad ==
    ASSUME TypeInv, LoadInv, NEW ok \in BOOLEAN, EndWith(ok), writer.step # "none"
    PROVE  LoadInv'
<1>1. CASE writer.op = "bootstrap"
  <2>1. /\ ui' = ui /\ writer' = NoWriter /\ writer.page \in Pages
        /\ boot[writer.page] = "opening"
        /\ boot' = [boot EXCEPT ![writer.page] = IF ok THEN "load" ELSE "failed"]
    BY <1>1 DEF EndWith, LoadInv
  <2>2. (IF ok THEN "load" ELSE "failed") \in Stages
    BY DEF Stages
  <2> QED
    BY <2>1, <2>2, BootSteps
<1>2. CASE writer.op # "bootstrap"
  <2>1. boot' = boot /\ writer'.op # "bootstrap" /\ ui'.page = ui.page
    BY <1>2, EndKeeps, NoWriterRests DEF EndWith, TypeInv
  <2>2. ui'.phase = ui.phase \/ ui.phase # "idle"
    BY EndKeeps DEF TypeInv
  <2> QED
    BY <2>1, <2>2, LoadKept
<1> QED
  BY <1>1, <1>2

LEMMA LoadStep == TypeInv /\ LoadInv /\ [Next]_vars => LoadInv'
<1> SUFFICES ASSUME TypeInv, LoadInv, [Next]_vars PROVE LoadInv'
  OBVIOUS
<1> USE DEF TypeInv
<1>1. CASE Prepare
  <2>1. boot' = boot /\ writer' = writer /\ boot[ui.page] = "none" /\ ui'.page = ui.page
    BY <1>1 DEF Prepare, BarrierTypes
  <2> QED
    BY <2>1, LoadKept
<1>2. ASSUME NEW w \in Windows, NEW resolved \in BOOLEAN, Answer(w, resolved) PROVE LoadInv'
  BY <1>2, LoadKept DEF Answer
<1>3. ASSUME NEW w \in Windows, Ack(w) PROVE LoadInv'
  <2>1. ui' = ui \/ ui' = [ui EXCEPT !.phase = "idle"]
    BY <1>3 DEF Ack
  <2>2. ui'.page = ui.page /\ (ui'.phase = ui.phase \/ ui'.phase = "idle")
    BY <2>1 DEF BarrierTypes
  <2>3. boot' = boot /\ writer' = writer
    BY <1>3 DEF Ack
  <2> QED
    BY <2>2, <2>3 DEF LoadInv
<1>4. ASSUME NEW w \in Windows, OpenWindow(w) PROVE LoadInv'
  BY <1>4, LoadKept DEF OpenWindow
<1>6. ASSUME NEW w \in Windows, CloseWindow(w) PROVE LoadInv'
  <2>1. /\ boot' = boot /\ writer' = writer
        /\ UNCHANGED ui \/ IssueToken(pending.required \ {w}, pending.acked \ {w})
    BY <1>6 DEF CloseWindow
  <2>2. ui' = ui \/ (ui.phase = "waiting" /\ ui'.page = ui.page)
    BY <2>1 DEF IssueToken, BarrierTypes
  <2> QED
    BY <2>1, <2>2, LoadKept
<1>7. CASE Issue
  <2>1. /\ boot' = boot /\ writer' = writer
        /\ IssueToken(pending.required, pending.acked)
    BY <1>7 DEF Issue
  <2>2. ui' = ui \/ (ui.phase = "waiting" /\ ui'.page = ui.page)
    BY <2>1 DEF IssueToken, BarrierTypes
  <2> QED
    BY <2>1, <2>2, LoadKept
<1>8. CASE GiveUp \/ Release
  <2>1. /\ boot' = boot /\ writer' = writer
        /\ ui' = [ui EXCEPT !.phase = "idle", !.token = 0] /\ ui.phase # "idle"
    BY <1>8 DEF GiveUp, Release, Cancel
  <2>2. ui'.page = ui.page
    BY <2>1 DEF BarrierTypes
  <2> QED
    BY <2>1, <2>2, LoadKept
<1>9. CASE Reload
  <2>1. /\ ui.page + 1 \in Pages /\ ui'.page = ui.page + 1 /\ ui'.phase = "idle"
        /\ boot' = [boot EXCEPT ![ui.page + 1] = "adopt"] /\ writer' = writer
        /\ ui.page \in Nat
    <3>1. ui.page \in Nat /\ ui.page < MaxReloads
      BY <1>9 DEF Reload, BarrierTypes
    <3>2. ui.page + 1 \in Pages
      BY <3>1, SessionsAssumption DEF Pages
    <3>3. ui'.page = ui.page + 1 /\ ui'.phase = "idle"
      BY <1>9 DEF Reload, IdleUi
    <3> QED
      BY <1>9, <3>1, <3>2, <3>3 DEF Reload
  <2>2. boot' \in [Pages -> Stages] /\ \A q \in Pages \ {ui.page + 1} : boot'[q] = boot[q]
    BY <2>1 DEF LoadInv, Stages
  <2>3. \A p \in Pages : p > ui.page + 1 => p > ui.page /\ p # ui.page + 1
    BY <2>1, SessionsAssumption DEF Pages
  <2>4. boot[ui.page + 1] = "none"
    BY <2>1, SessionsAssumption DEF LoadInv, Pages
  <2> QED
    BY <2>1, <2>2, <2>3, <2>4 DEF LoadInv
<1>10. ASSUME NEW s, Job(s) \/ JobEnds(s) PROVE LoadInv'
  BY <1>10, LoadKept DEF Job, JobEnds
<1>11. ASSUME NEW op, NEW id, Call(op, id) PROVE LoadInv'
  <2>1. boot' = boot /\ writer' = writer /\ ui'.page = ui.page /\ ui.phase # "idle"
    BY <1>11 DEF Call, BarrierTypes
  <2> QED
    BY <2>1, LoadKept
<1>12. ASSUME NEW c \in sent, Begin(c) PROVE LoadInv'
  <2>1. /\ boot' = boot /\ (ui' = ui \/ ui' = Over(c.page))
        /\ writer' = writer \/ writer'.op = c.op
    BY <1>12 DEF Begin
  <2>2. c.op # "bootstrap"
    BY DEF SentTypes, Ops
  <2>3. ui'.page = ui.page /\ (ui'.phase = ui.phase \/ ui.phase # "idle")
    BY <2>1, OverKeeps
  <2> QED
    BY <2>1, <2>2, <2>3, LoadKept
<1>13. ASSUME NEW p \in Callers, Finish(p) PROVE LoadInv'
  <2>1. boot' = boot /\ writer' = writer /\ ui' = Over(p)
    BY <1>13 DEF Finish
  <2>2. ui'.page = ui.page /\ (ui'.phase = ui.phase \/ ui.phase # "idle")
    BY <2>1, OverKeeps
  <2> QED
    BY <2>1, <2>2, LoadKept
<1>14. CASE OpenManager \/ DeletionUnsynced
  BY <1>14, EndLoad DEF OpenManager, DeletionUnsynced
<1>15. ASSUME boot' = boot, ui' = ui, NEW step, writer' = [writer EXCEPT !.step = step]
       PROVE  LoadInv'
  <2>1. writer'.op = writer.op /\ writer'.page = writer.page
    BY <1>15 DEF WriterTypes
  <2> QED
    BY <1>15, <2>1, LoadKept
<1>16. CASE OpeningFails
  BY <1>15, <1>16 DEF OpeningFails
<1>17. ASSUME NEW ok \in BOOLEAN, FilesDone(ok) PROVE LoadInv'
  <2>1. CASE writer.op = "delete" /\ ok
    BY <1>17, <2>1, EndLoad DEF FilesDone
  <2>2. CASE ~(writer.op = "delete" /\ ok)
    BY <1>15, <1>17, <2>2 DEF FilesDone
  <2> QED
    BY <2>1, <2>2
<1>18. ASSUME NEW ok \in BOOLEAN, Reopen(ok) PROVE LoadInv'
  <2>1. (EndWith(TRUE) \/ EndWith(FALSE)) /\ writer.step # "none"
    BY <1>18, Zenon DEF Reopen
  <2> QED
    BY <2>1, EndLoad
<1>19. ASSUME NEW p \in Pages, Adopt(p) \/ Decide(p) \/ MarkRecovery(p) \/ Load(p)
       PROVE  LoadInv'
  <2>1. /\ boot[p] # "none" /\ boot[p] # "opening" /\ ui' = ui /\ writer' = writer
    BY <1>19 DEF Adopt, Decide, MarkRecovery, Load, BootOnly
  <2>2. PICK step \in Stages : boot' = [boot EXCEPT ![p] = step]
    <3>1. CASE Adopt(p) \/ MarkRecovery(p) \/ Load(p)
      BY <3>1 DEF Adopt, MarkRecovery, Load, BootOnly, Stages
    <3>2. CASE Decide(p)
      <4> DEFINE step == IF active = NoSession /\ last # NoProfile THEN "activate" ELSE "load"
      <4>1. step \in Stages /\ boot' = [boot EXCEPT ![p] = step]
        BY <3>2 DEF Decide, BootOnly, Stages
      <4> QED
        BY <4>1
    <3> QED
      BY <1>19, <3>1, <3>2
  <2> QED
    BY <2>1, <2>2, BootSteps
<1>20. ASSUME NEW p \in Pages, BootActivate(p) PROVE LoadInv'
  <2>1. /\ boot[p] # "none" /\ ui' = ui /\ writer'.page = p
        /\ boot' = [boot EXCEPT ![p] = "opening"]
    BY <1>20 DEF BootActivate
  <2>2. "opening" \in Stages
    BY DEF Stages
  <2> QED
    BY <2>1, <2>2, BootSteps
<1>30. ASSUME NEW r \in journal, Repeat(r) PROVE LoadInv'
  <2>1. boot' = boot /\ ui' = ui /\ (writer' = writer \/ writer'.op = "reset")
    BY <1>30 DEF Repeat
  <2> QED
    BY <2>1, LoadKept
<1>21. CASE UNCHANGED vars
  BY <1>21, LoadKept DEF vars
<1> QED
  BY <1>1, <1>30, <1>2, <1>3, <1>4, <1>6, <1>7, <1>8, <1>9, <1>10, <1>11, <1>12, <1>13,
     <1>14, <1>16, <1>17, <1>18, <1>19, <1>20, <1>21 DEF Next, Core

\* The page's phase after the steps that do not make it wait or give it a token.
Asking(u) == u.phase \in {"waiting", "granted"}

LEMMA QuietKept ==
    ASSUME QuietInv, disturbed => disturbed', Asking(ui') => Asking(ui),
           \/ sent' = sent /\ writer' = writer
           \/ sent # {} \/ writer # NoWriter
    PROVE  QuietInv'
BY Zenon DEF QuietInv, Asking

LEMMA OverAsks ==
    ASSUME BarrierTypes, NEW p, ui' = Over(p) PROVE Asking(ui') => ui' = ui
BY OverKeeps DEF Asking

LEMMA EndAsks ==
    ASSUME BarrierTypes, NEW ok \in BOOLEAN, EndWith(ok) PROVE Asking(ui') => ui' = ui
BY EndKeeps DEF Asking

\* What the page may become when a token is issued, a request dropped or given up.
LEMMA IssueAsks ==
    ASSUME BarrierTypes, NEW required, NEW acked, IssueToken(required, acked)
    PROVE  /\ Asking(ui') => Asking(ui)
           /\ ui'.phase = "waiting" => ui' = ui
           /\ \/ ui' = ui
              \/ /\ ui.phase = "waiting" /\ ui.req = pending.req
                 /\ ui'.phase = "granted" /\ ui'.token = minted + 1
<1>1. CASE ui.phase = "waiting" /\ ui.req = pending.req
  <2>1. ui' = [ui EXCEPT !.phase = "granted", !.token = minted + 1]
    BY <1>1 DEF IssueToken
  <2>2. ui'.phase = "granted" /\ ui'.token = minted + 1
    BY <2>1 DEF BarrierTypes
  <2> QED
    BY <1>1, <2>2 DEF Asking
<1>2. CASE ~(ui.phase = "waiting" /\ ui.req = pending.req)
  BY <1>2 DEF IssueToken
<1> QED
  BY <1>1, <1>2

LEMMA BusyStep ==
    ASSUME TypeInv, \/ OpenManager \/ OpeningFails \/ DeletionUnsynced
                    \/ \E ok \in BOOLEAN : FilesDone(ok) \/ Reopen(ok)
    PROVE  /\ Kept /\ writer # NoWriter
           /\ Asking(ui') => ui' = ui
<1>1. Kept /\ writer # NoWriter
  BY NoWriterRests DEF OpenManager, OpeningFails, DeletionUnsynced, FilesDone, Reopen, Untouched
<1>2. ui' = ui \/ EndWith(TRUE) \/ EndWith(FALSE)
  BY Zenon DEF OpenManager, OpeningFails, DeletionUnsynced, FilesDone, Reopen
<1> QED
  BY <1>1, <1>2, EndAsks DEF TypeInv

LEMMA BootStep ==
    ASSUME TypeInv, LoadInv, NEW p \in Pages, BootActivate(p)
    PROVE  disturbed' \/ ~Asking(ui)
<1>1. CASE p = ui.page
  BY <1>1 DEF BootActivate, LoadInv, Asking
<1>2. CASE p # ui.page
  BY <1>2, Zenon DEF BootActivate
<1> QED
  BY <1>1, <1>2

LEMMA QuietStep == TypeInv /\ LoadInv /\ QuietInv /\ [Next]_vars => QuietInv'
<1> SUFFICES ASSUME TypeInv, LoadInv, QuietInv, [Next]_vars PROVE QuietInv'
  OBVIOUS
<1>0. BarrierTypes
  BY DEF TypeInv
<1>1. CASE Prepare
  BY <1>1, Zenon DEF Prepare, QuietInv
<1>2. ASSUME NEW w \in Windows, NEW resolved \in BOOLEAN, Answer(w, resolved) PROVE QuietInv'
  BY <1>2, QuietKept DEF Answer
<1>3. ASSUME NEW w \in Windows, Ack(w) PROVE QuietInv'
  <2>1. ui' = ui \/ ui' = [ui EXCEPT !.phase = "idle"]
    BY <1>3 DEF Ack
  <2>2. Asking(ui') => Asking(ui)
    BY <2>1, <1>0 DEF Asking, BarrierTypes
  <2> QED
    BY <1>3, <2>2, QuietKept DEF Ack
<1>4. ASSUME NEW w \in Windows, OpenWindow(w) PROVE QuietInv'
  BY <1>4, QuietKept DEF OpenWindow
<1>5. ASSUME NEW w \in Windows, CloseWindow(w) PROVE QuietInv'
  <2>1. UNCHANGED ui \/ IssueToken(pending.required \ {w}, pending.acked \ {w})
    BY <1>5 DEF CloseWindow
  <2>2. Asking(ui') => Asking(ui)
    BY <2>1, <1>0, IssueAsks
  <2> QED
    BY <1>5, <2>2, QuietKept DEF CloseWindow
<1>6. CASE Issue
  <2>1. Asking(ui') => Asking(ui)
    BY <1>6, <1>0, IssueAsks DEF Issue
  <2> QED
    BY <1>6, <2>1, QuietKept DEF Issue
<1>7. CASE GiveUp \/ Release
  <2>1. ui' = [ui EXCEPT !.phase = "idle", !.token = 0]
    BY <1>7 DEF GiveUp, Release, Cancel
  <2>2. ~Asking(ui')
    BY <2>1, <1>0 DEF Asking, BarrierTypes
  <2> QED
    BY <2>2 DEF QuietInv, Asking
<1>8. CASE Reload
  <2>1. ~Asking(ui')
    BY <1>8 DEF Reload, IdleUi, Asking
  <2> QED
    BY <2>1 DEF QuietInv, Asking
<1>9. ASSUME NEW s, Job(s) \/ JobEnds(s) PROVE QuietInv'
  BY <1>9, QuietKept DEF Job, JobEnds
<1>10. ASSUME NEW op, NEW id, Call(op, id) PROVE QuietInv'
  <2>1. ui' = [ui EXCEPT !.phase = "calling"]
    BY <1>10 DEF Call
  <2>2. ~Asking(ui')
    BY <2>1, <1>0 DEF Asking, BarrierTypes
  <2> QED
    BY <2>2 DEF QuietInv, Asking
<1>11. ASSUME NEW c \in sent, Begin(c) PROVE QuietInv'
  <2>1. ui' = ui \/ ui' = Over(c.page)
    BY <1>11 DEF Begin
  <2>2. Asking(ui') => Asking(ui)
    BY <2>1, <1>0, OverAsks
  <2> QED
    BY <1>11, <2>2, QuietKept DEF Begin
<1>12. ASSUME NEW p \in Callers, Finish(p) PROVE QuietInv'
  BY <1>12, <1>0, OverAsks, QuietKept DEF Finish
<1>13. CASE \/ OpenManager \/ OpeningFails \/ DeletionUnsynced
            \/ \E ok \in BOOLEAN : FilesDone(ok) \/ Reopen(ok)
  BY <1>13, BusyStep, QuietKept DEF Untouched, Kept
<1>14. ASSUME NEW p \in Pages, Adopt(p) \/ Decide(p) \/ MarkRecovery(p) \/ Load(p)
       PROVE  QuietInv'
  BY <1>14, QuietKept DEF Adopt, Decide, MarkRecovery, Load, BootOnly
<1>15. ASSUME NEW p \in Pages, BootActivate(p) PROVE QuietInv'
  <2>1. ui' = ui
    BY <1>15 DEF BootActivate
  <2> QED
    BY <1>15, <2>1, BootStep, Zenon DEF QuietInv, Asking
<1>30. ASSUME NEW r \in journal, Repeat(r) PROVE QuietInv'
  <2>1. CASE r.phase = "committed"
    BY <1>30, <2>1, QuietKept DEF Repeat
  <2>2. CASE r.phase # "committed"
    BY <1>30, <2>2, Zenon DEF Repeat, QuietInv
  <2> QED
    BY <2>1, <2>2
<1>16. CASE UNCHANGED vars
  BY <1>16, QuietKept DEF vars
<1> QED
  BY <1>1, <1>30, <1>2, <1>3, <1>4, <1>5, <1>6, <1>7, <1>8, <1>9, <1>10, <1>11, <1>12, <1>13,
     <1>14, <1>15, <1>16 DEF Next, Core

----------------------------------------------------------------------------
\* A token names the session the windows were asked to leave, as soon as a page
\* or a command on its way holds it; no page holds a token before it is made.
Holds(t) == \/ ui.phase = "granted" /\ ui.token = t.token
            \/ \E c \in sent : c.token = t.token
ConsentInv ==
    /\ ~disturbed /\ ui.phase = "waiting" /\ pending.req = ui.req /\ pending.req # 0
       => active = pending.expected
    /\ \A t \in tokens : ~disturbed /\ Holds(t) => t.session = pending.expected
NumberInv == ui.token \in 0..minted /\ \A c \in sent : c.token \in 0..minted

LEMMA NumberKept ==
    ASSUME TypeInv, NumberInv, minted' = minted, sent' \subseteq sent, ui'.token \in {ui.token, 0}
    PROVE  NumberInv'
BY DEF TypeInv, Types, NumberInv

LEMMA NumberIssued ==
    ASSUME TypeInv, NumberInv, sent' = sent, NEW required, NEW acked, IssueToken(required, acked)
    PROVE  NumberInv'
<1>1. minted' = minted + 1 /\ 0..minted \subseteq 0..minted' /\ minted + 1 \in 0..minted'
  BY DEF IssueToken, TypeInv, Types
<1>2. ui'.token \in {ui.token, minted + 1}
  BY IssueAsks DEF TypeInv
<1> QED
  BY <1>1, <1>2 DEF NumberInv

LEMMA NumberStep == TypeInv /\ NumberInv /\ [Next]_vars => NumberInv'
<1> SUFFICES ASSUME TypeInv, NumberInv, [Next]_vars PROVE NumberInv'
  OBVIOUS
<1>0. BarrierTypes
  BY DEF TypeInv
<1>1. CASE Prepare
  <2>1. ui'.token = ui.token
    BY <1>1, <1>0 DEF Prepare, BarrierTypes
  <2> QED
    BY <1>1, <2>1, NumberKept DEF Prepare
<1>2. ASSUME NEW w \in Windows,
             (\E resolved \in BOOLEAN : Answer(w, resolved)) \/ OpenWindow(w)
      PROVE NumberInv'
  BY <1>2, NumberKept DEF Answer, OpenWindow
<1>3. ASSUME NEW w \in Windows, Ack(w) PROVE NumberInv'
  <2>1. ui' = ui \/ ui' = [ui EXCEPT !.phase = "idle"]
    BY <1>3 DEF Ack
  <2>2. ui'.token = ui.token
    BY <2>1, <1>0 DEF BarrierTypes
  <2> QED
    BY <1>3, <2>2, NumberKept DEF Ack
<1>4. ASSUME NEW w \in Windows, CloseWindow(w) PROVE NumberInv'
  <2>1. sent' = sent /\ \/ UNCHANGED <<ui, minted>>
                        \/ IssueToken(pending.required \ {w}, pending.acked \ {w})
    BY <1>4 DEF CloseWindow
  <2> QED
    BY <2>1, NumberKept, NumberIssued
<1>5. CASE Issue
  BY <1>5, NumberIssued DEF Issue
<1>6. CASE GiveUp \/ Release
  <2>1. ui' = [ui EXCEPT !.phase = "idle", !.token = 0]
    BY <1>6 DEF GiveUp, Release, Cancel
  <2>2. ui'.token = 0
    BY <2>1, <1>0 DEF BarrierTypes
  <2> QED
    BY <1>6, <2>2, NumberKept DEF GiveUp, Release, Cancel
<1>7. CASE Reload
  <2>1. ui'.token = 0
    BY <1>7 DEF Reload, IdleUi
  <2> QED
    BY <1>7, <2>1, NumberKept DEF Reload
<1>8. ASSUME NEW s, Job(s) \/ JobEnds(s) PROVE NumberInv'
  BY <1>8, NumberKept DEF Job, JobEnds, barrier
<1>9. ASSUME NEW op, NEW id, Call(op, id) PROVE NumberInv'
  <2>1. ui'.token = ui.token
    BY <1>9, <1>0 DEF Call, BarrierTypes
  <2> QED
    BY <1>9, <2>1 DEF Call, NumberInv, barrier
<1>10. ASSUME NEW c \in sent, Begin(c) PROVE NumberInv'
  <2>1. ui'.token = ui.token
    BY <1>10, <1>0, OverKeeps DEF Begin
  <2> QED
    BY <1>10, <2>1, NumberKept DEF Begin
<1>11. ASSUME NEW p \in Callers, Finish(p) PROVE NumberInv'
  <2>1. ui'.token = ui.token
    BY <1>11, <1>0, OverKeeps DEF Finish
  <2> QED
    BY <1>11, <2>1, NumberKept DEF Finish
<1>12. CASE \/ OpenManager \/ OpeningFails \/ DeletionUnsynced
            \/ \E ok \in BOOLEAN : FilesDone(ok) \/ Reopen(ok)
  <2>1. ui' = ui \/ EndWith(TRUE) \/ EndWith(FALSE)
    BY <1>12, Zenon DEF OpenManager, OpeningFails, DeletionUnsynced, FilesDone, Reopen
  <2>2. ui'.token = ui.token
    BY <2>1, <1>0, EndKeeps
  <2> QED
    BY <1>12, <2>2, BusyStep, NumberKept DEF Untouched, Kept, barrier
<1>13. ASSUME NEW p \in Pages,
              Adopt(p) \/ Decide(p) \/ MarkRecovery(p) \/ Load(p) \/ BootActivate(p)
       PROVE  NumberInv'
  BY <1>13, NumberKept DEF Adopt, Decide, MarkRecovery, Load, BootOnly, BootActivate, barrier
<1>30. ASSUME NEW r \in journal, Repeat(r) PROVE NumberInv'
  <2>1. ui' = ui /\ sent' = sent /\ minted' = minted
    BY <1>30, Zenon DEF Repeat, barrier
  <2> QED
    BY <2>1, NumberKept
<1>14. CASE UNCHANGED vars
  BY <1>14, NumberKept DEF vars, barrier
<1> QED
  BY <1>1, <1>30, <1>2, <1>3, <1>4, <1>5, <1>6, <1>7, <1>8, <1>9, <1>10, <1>11, <1>12, <1>13,
     <1>14 DEF Next, Core

\* A step that asks nothing, issues nothing and moves the session only under a
\* page that does not wait.
LEMMA ConsentKept ==
    ASSUME ConsentInv, disturbed => disturbed', tokens' \subseteq tokens, sent' \subseteq sent,
           pending'.req = pending.req, pending'.expected = pending.expected,
           Asking(ui') => ui' = ui,
           active' = active \/ ~Asking(ui') \/ disturbed'
    PROVE  ConsentInv'
<1>1. ~disturbed' => ~disturbed
  BY Zenon
<1>2. ASSUME ~disturbed', ui'.phase = "waiting", pending'.req = ui'.req, pending'.req # 0
      PROVE  active' = pending'.expected
  <2>1. ui' = ui /\ ~disturbed /\ active' = active
    BY <1>1, <1>2, Zenon DEF Asking
  <2> QED
    BY <1>2, <2>1, Zenon DEF ConsentInv
<1>3. ASSUME NEW t \in tokens', ~disturbed', Holds(t)' PROVE t.session = pending'.expected
  <2>1. Holds(t)
    BY <1>3 DEF Holds, Asking
  <2>2. t \in tokens /\ ~disturbed
    BY <1>1, <1>3
  <2> QED
    BY <2>1, <2>2, Zenon DEF ConsentInv
<1> QED
  BY <1>2, <1>3, Zenon DEF ConsentInv

LEMMA ConsentDropped ==
    ASSUME TokenInv, Dropped PROVE ConsentInv'
<1>1. tokens' = {}
  BY DEF TokenInv, Dropped, Revoked
<1> QED
  BY <1>1, NoRequestIdle DEF Dropped, ConsentInv

LEMMA ConsentIssued ==
    ASSUME TypeInv, TokenInv, NumberInv, ConsentInv, UNCHANGED <<active, sent, disturbed>>,
           pending.token = 0, pending.req # 0,
           NEW required, NEW acked, IssueToken(required, acked)
    PROVE  ConsentInv'
<1>1. pending'.req = pending.req /\ pending'.expected = pending.expected
  BY DEF IssueToken, TypeInv, BarrierTypes
<1>2. tokens' = {[token |-> minted + 1, session |-> active]}
  BY DEF TokenInv, IssueToken
<1>3. ui'.phase = "waiting" => ui' = ui
  BY IssueAsks DEF TypeInv
<1>4. ~disturbed' /\ ui'.phase = "waiting" /\ pending'.req = ui'.req /\ pending'.req # 0
      => active' = pending'.expected
  BY <1>1, <1>3, Zenon DEF ConsentInv
<1>5. ASSUME NEW t \in tokens', ~disturbed', Holds(t)' PROVE t.session = pending'.expected
  <2>1. t.token = minted + 1 /\ t.session = active
    BY <1>2, <1>5
  <2>2. ui.token # minted + 1 /\ \A c \in sent : c.token # minted + 1
    BY DEF NumberInv, TypeInv, Types
  <2>3. ui'.phase = "granted" /\ ui'.token = minted + 1
    BY <1>5, <2>1, <2>2 DEF Holds
  <2>4. ui.phase = "waiting" /\ ui.req = pending.req
    BY <2>2, <2>3, IssueAsks DEF TypeInv
  <2>5. active = pending.expected
    BY <1>5, <2>4, Zenon DEF ConsentInv
  <2> QED
    BY <1>1, <2>1, <2>5
<1> QED
  BY <1>4, <1>5, Zenon DEF ConsentInv

SessionInv == TypeInv /\ JournalTypes /\ TokenInv /\ LoadInv /\ QuietInv /\ NumberInv /\ ConsentInv

LEMMA ConsentStep == SessionInv /\ [Next]_vars => ConsentInv'
<1> SUFFICES ASSUME SessionInv, [Next]_vars PROVE ConsentInv'
  OBVIOUS
<1>0. BarrierTypes /\ TypeInv /\ TokenInv /\ LoadInv /\ QuietInv /\ NumberInv /\ ConsentInv
  BY DEF TypeInv, SessionInv
<1>1. CASE Prepare
  <2>1. tokens' = {}
    BY <1>1, <1>0, NoRequestIdle DEF Prepare, TokenInv
  <2>2. pending'.expected = announced /\ active' = announced
    BY <1>1 DEF Prepare, sessions
  <2> QED
    BY <2>1, <2>2 DEF ConsentInv
<1>2. ASSUME NEW w \in Windows, NEW resolved \in BOOLEAN, Answer(w, resolved)
      PROVE  ConsentInv'
  BY <1>2, <1>0, ConsentKept DEF Answer, sessions
<1>3. ASSUME NEW w \in Windows, Ack(w) PROVE ConsentInv'
  <2>1. CASE ~Accepted(w)
    BY <1>3, <2>1, <1>0, ConsentKept DEF Ack, sessions
  <2>2. CASE Accepted(w) /\ ~Head(answers[w]).resolved
    BY <1>3, <2>2, <1>0, ConsentDropped DEF Ack
  <2>3. CASE Accepted(w) /\ Head(answers[w]).resolved
    <3>1. /\ pending' = [pending EXCEPT !.acked = pending.acked \cup {w}]
          /\ UNCHANGED <<tokens, active, sent, ui, disturbed>>
      BY <1>3, <2>3 DEF Ack, sessions
    <3>2. pending'.req = pending.req /\ pending'.expected = pending.expected
      BY <3>1, <1>0 DEF BarrierTypes
    <3> QED
      BY <1>0, <3>1, <3>2, ConsentKept
  <2> QED
    BY <2>1, <2>2, <2>3
<1>4. ASSUME NEW w \in Windows, OpenWindow(w) PROVE ConsentInv'
  <2>1. \/ UNCHANGED <<pending, tokens>>
        \/ /\ pending' = [pending EXCEPT !.required = pending.required \cup {w}, !.token = 0]
           /\ tokens' \subseteq tokens
    BY <1>4 DEF OpenWindow, Revoked
  <2>2. pending'.req = pending.req /\ pending'.expected = pending.expected
    BY <2>1, <1>0 DEF BarrierTypes
  <2>3. UNCHANGED <<active, sent, ui, disturbed>> /\ tokens' \subseteq tokens
    BY <1>4, <2>1 DEF OpenWindow, sessions
  <2> QED
    BY <1>0, <2>2, <2>3, ConsentKept
<1>5. ASSUME NEW w \in Windows, CloseWindow(w) PROVE ConsentInv'
  <2> DEFINE required == pending.required \ {w}
             acked == pending.acked \ {w}
  <2>1. UNCHANGED <<active, sent, disturbed>>
    BY <1>5 DEF CloseWindow, sessions
  <2>2. CASE pending # NoRequest /\ pending.token = 0 /\ acked = required
    <3>1. pending.req # 0
      BY <2>2, <1>0 DEF TokenInv
    <3>2. IssueToken(required, acked)
      BY <1>5, <2>2 DEF CloseWindow
    <3> QED
      BY <1>0, <2>1, <2>2, <3>1, <3>2, ConsentIssued
  <2>3. CASE ~(pending # NoRequest /\ pending.token = 0 /\ acked = required)
    <3>1. /\ pending' = [pending EXCEPT !.required = required, !.acked = acked]
          /\ tokens' = tokens /\ ui' = ui
      BY <1>5, <2>3 DEF CloseWindow
    <3>2. pending'.req = pending.req /\ pending'.expected = pending.expected
      BY <3>1, <1>0 DEF BarrierTypes
    <3> QED
      BY <1>0, <2>1, <3>1, <3>2, ConsentKept
  <2> QED
    BY <2>2, <2>3
<1>6. CASE Issue
  <2>1. pending.token = 0 /\ pending.req # 0
    BY <1>6, <1>0 DEF Issue, TokenInv
  <2> QED
    BY <1>0, <1>6, <2>1, ConsentIssued DEF Issue, sessions
<1>7. CASE GiveUp \/ Release
  <2>1. CASE Dropped
    BY <1>0, <2>1, ConsentDropped
  <2>2. CASE UNCHANGED <<pending, tokens>>
    <3>1. ui' = [ui EXCEPT !.phase = "idle", !.token = 0] /\ UNCHANGED <<active, sent, disturbed>>
      BY <1>7 DEF GiveUp, Release, Cancel, sessions
    <3>2. ~Asking(ui')
      BY <3>1, <1>0 DEF Asking, BarrierTypes
    <3> QED
      BY <1>0, <2>2, <3>1, <3>2, ConsentKept
  <2> QED
    BY <1>7, <2>1, <2>2 DEF GiveUp, Release, Cancel
<1>8. CASE Reload
  <2>1. ~Asking(ui')
    BY <1>8 DEF Reload, IdleUi, Asking
  <2> QED
    BY <1>0, <1>8, <2>1, ConsentKept DEF Reload, sessions
<1>9. ASSUME NEW s, Job(s) \/ JobEnds(s) PROVE ConsentInv'
  BY <1>9, <1>0, ConsentKept DEF Job, JobEnds, barrier, sessions
<1>10. ASSUME NEW op, NEW id, Call(op, id) PROVE ConsentInv'
  <2>1. /\ ui.phase = "granted"
        /\ sent' = sent \cup {[op |-> op, id |-> id, token |-> ui.token, page |-> ui.page]}
        /\ ui' = [ui EXCEPT !.phase = "calling"]
        /\ UNCHANGED <<tokens, pending, active, disturbed>>
    BY <1>10 DEF Call, barrier, sessions
  <2>2. ui'.phase = "calling"
    BY <2>1, <1>0 DEF BarrierTypes
  <2>3. \A t : Holds(t)' => Holds(t)
    BY <2>1, <2>2 DEF Holds
  <2> QED
    BY <1>0, <2>1, <2>2, <2>3 DEF ConsentInv
<1>11. ASSUME NEW c \in sent, Begin(c) PROVE ConsentInv'
  <2>1. /\ tokens' \subseteq tokens /\ sent' \subseteq sent /\ pending' = pending
        /\ disturbed' = disturbed /\ (ui' = ui \/ ui' = Over(c.page))
    BY <1>11 DEF Begin, Revoked
  <2>2. Asking(ui') => ui' = ui
    BY <2>1, <1>0, OverAsks
  <2>3. disturbed \/ ~Asking(ui)
    BY <1>0, <1>11, Zenon DEF QuietInv, Asking
  <2> QED
    BY <1>0, <2>1, <2>2, <2>3, ConsentKept
<1>12. ASSUME NEW p \in Callers, Finish(p) PROVE ConsentInv'
  BY <1>0, <1>12, ConsentDropped DEF Finish
<1>13. CASE \/ OpenManager \/ OpeningFails \/ DeletionUnsynced
            \/ \E ok \in BOOLEAN : FilesDone(ok) \/ Reopen(ok)
  <2>1. Kept /\ writer # NoWriter /\ (Asking(ui') => ui' = ui)
    BY <1>0, <1>13, BusyStep
  <2>2. disturbed \/ ~Asking(ui)
    BY <1>0, <2>1, Zenon DEF QuietInv, Asking
  <2> QED
    BY <1>0, <2>1, <2>2, ConsentKept DEF Untouched, Kept, barrier
<1>14. ASSUME NEW p \in Pages, Adopt(p) \/ Decide(p) \/ MarkRecovery(p) \/ Load(p)
       PROVE  ConsentInv'
  BY <1>0, <1>14, ConsentKept DEF Adopt, Decide, MarkRecovery, Load, BootOnly, barrier, sessions
<1>15. ASSUME NEW p \in Pages, BootActivate(p) PROVE ConsentInv'
  <2>1. disturbed' \/ ~Asking(ui)
    BY <1>0, <1>15, BootStep
  <2>2. disturbed => disturbed'
    BY <1>15, Zenon DEF BootActivate
  <2> QED
    BY <1>0, <1>15, <2>1, <2>2, ConsentKept DEF BootActivate, barrier
<1>30. ASSUME NEW r \in journal, Repeat(r) PROVE ConsentInv'
  <2>1. UNCHANGED <<tokens, sent, pending, ui>>
    BY <1>30, Zenon DEF Repeat, barrier
  <2>2. (disturbed => disturbed') /\ (active' = active \/ disturbed')
    BY <1>30, Zenon DEF Repeat
  <2> QED
    BY <1>0, <2>1, <2>2, ConsentKept
<1>16. CASE UNCHANGED vars
  BY <1>0, <1>16, ConsentKept DEF vars, barrier, sessions
<1> QED
  BY <1>1, <1>30, <1>2, <1>3, <1>4, <1>5, <1>6, <1>7, <1>8, <1>9, <1>10, <1>11, <1>12, <1>13,
     <1>14, <1>15, <1>16 DEF Next, Core

LEMMA SessionAlways == Spec => []SessionInv
<1>1. Init => SessionInv
  <2> SUFFICES ASSUME Init PROVE SessionInv
    OBVIOUS
  <2>1. /\ tokens = {} /\ ~issuing /\ pending = NoRequest /\ sent = {} /\ minted = 0
        /\ ui = IdleUi(0) /\ writer = NoWriter
        /\ boot = [p \in Pages |-> IF p = 0 THEN "adopt" ELSE "none"]
    BY DEF Init
  <2>2. ui.page = 0 /\ ui.phase = "idle" /\ ui.token = 0
    BY <2>1 DEF IdleUi
  <2>3. TokenInv
    BY <2>1, NoRequestIdle DEF TokenInv
  <2>4. LoadInv
    BY <2>1, <2>2, SessionsAssumption, NoWriterRests DEF LoadInv, Pages, Stages
  <2>5. QuietInv /\ NumberInv /\ ConsentInv
    BY <2>1, <2>2 DEF QuietInv, NumberInv, ConsentInv
  <2>6. JournalTypes
    BY DEF Init, JournalTypes
  <2> QED
    BY <2>3, <2>4, <2>5, <2>6, InitTyped DEF SessionInv
<1>2. SessionInv /\ [Next]_vars => SessionInv'
  BY TypeStep, JournalStep, TokenStep, LoadStep, QuietStep, NumberStep, ConsentStep DEF SessionInv
<1> QED
  BY <1>1, <1>2, PTL DEF Spec

\* A command that closes the open session does so with the consent of every window
\* that exists (windows.rs:28-95, coordinator.rs:125-144). Excepted are a repeated
\* reset whose record is still prepared, which asks for no token (reset.rs:50-53),
\* and a request that was disturbed: an earlier load's command was under way when
\* the page asked, or since then a reset was repeated, or a bootstrap closed a
\* session or opened one behind a reload.
THEOREM SwitchIsConsented == Spec => ConsentedSwitch
<1> DEFINE Consented == Leaves /\ writer'.op # "bootstrap" /\ ~disturbed
                        => Repeated \/ (pending.expected = active /\ pending.acked = open)
<1>1. SessionInv /\ [Next]_vars => [Consented]_vars
  <2> SUFFICES ASSUME SessionInv, Next, Leaves, writer'.op # "bootstrap", ~disturbed, ~Repeated
               PROVE  pending.expected = active /\ pending.acked = open
    OBVIOUS
  <2>1. writer = NoWriter /\ writer' # NoWriter /\ writer'.old = active /\ active # NoSession
    BY NoWriterRests DEF Leaves
  <2>2. writer.step = "none"
    BY <2>1, NoWriterRests
  <2>3. PICK c \in sent : Begin(c)
    <3>1. ASSUME NEW p \in Pages, BootActivate(p) PROVE FALSE
      BY <3>1 DEF BootActivate
    <3>4. ASSUME NEW r \in journal, Repeat(r) PROVE FALSE
      <4>1. PICK old : writer' = [op |-> "reset", id |-> r.id, operation |-> r.operation,
                                  page |-> Repeater, old |-> old, step |-> "files"]
        BY <2>1, <3>4 DEF Repeat
      <4>2. r = Record(r.id, r.operation, "prepared")
        BY <2>1, <3>4 DEF Repeat, Record, JournalTypes, SessionInv
      <4> QED
        BY <4>1, <4>2 DEF Repeated
    <3>2. \/ UNCHANGED writer
          \/ \E c \in sent : Begin(c)
          \/ \E p \in Pages : BootActivate(p)
          \/ \E r \in journal : Repeat(r)
      BY <2>2 DEF Next, Core, Issue, Finish, Adopt, Decide, MarkRecovery, Load, BootOnly,
                  Prepare, GiveUp, Release, Cancel, Reload, Call, Answer, Ack, OpenWindow,
                  CloseWindow, Job, JobEnds, OpenManager, OpeningFails, DeletionUnsynced,
                  FilesDone, Reopen
    <3> QED
      BY <2>1, <3>1, <3>2, <3>4
  <2>4. writer' = [op |-> c.op, id |-> c.id, operation |-> c.token, page |-> c.page,
                   old |-> IF Closes(c) THEN active ELSE NoSession,
                   step |-> IF c.op = "activate" THEN "open" ELSE "files"]
        /\ Entitled(c)
    BY <2>1, <2>3 DEF Begin
  <2>5. Closes(c)
    BY <2>1, <2>4
  <2> DEFINE t == [token |-> c.token, session |-> active]
  <2>6. t \in tokens
    BY <2>4, <2>5 DEF Entitled
  <2>7. t.session = pending.expected
    BY <2>6 DEF SessionInv, ConsentInv, Holds
  <2>8. pending.acked = open
    BY <2>6 DEF SessionInv, TokenInv
  <2> QED
    BY <2>7, <2>8
<1> QED
  BY <1>1, SessionAlways, PTL DEF Spec, ConsentedSwitch
=============================================================================
