-------------------------- MODULE ProfileSessions --------------------------
(***************************************************************************)
(* Profile sessions and the window barrier: the coordinator's transition   *)
(* permit, jobs, activation, reset and deletion of the open profile, the   *)
(* bootstrap (coordinator.rs, reset.rs, delete.rs, legacy.rs), the barrier *)
(* that collects every window's consent (windows.rs, commands.rs) and the  *)
(* page that drives it (windows.ts, profiles.svelte.ts).                   *)
(*                                                                         *)
(* Abstractions: sessions and requests are numbered in the order they are  *)
(* made; an event reaches every window in the step that emits it; a        *)
(* window's answers are processed in the order it sends them. What a reset *)
(* and a deletion do to the files is one step that works or fails.         *)
(***************************************************************************)
EXTENDS Naturals, Sequences, FiniteSets

CONSTANTS Profiles, NoProfile,
          Windows, Main,   \* labels of webviews
          MaxSessions,     \* bound on session generations
          MaxRequests,     \* bound on transition requests
          MaxReloads,      \* bound on reloads of the main page
          MaxOpens,        \* bound on windows opened
          MaxRepeats       \* bound on resets called again

ASSUME SessionsAssumption ==
    /\ Main \in Windows
    /\ NoProfile \notin Profiles
    /\ MaxSessions \in Nat /\ MaxRequests \in Nat /\ MaxReloads \in Nat
    /\ MaxOpens \in Nat /\ MaxRepeats \in Nat

VARIABLES
    active,     \* the open session
    recovery,   \* State.recovery
    last,       \* registry.last_active_id
    gens,       \* the last session generation
    writer,     \* the operation that holds the write permit
    running,    \* sessions of the jobs that hold read permits
    tokens,     \* transition_tokens: token and the session it is bound to
    pending,    \* TransitionState.pending
    issuing,    \* ack_transition found the last acknowledgment
    open,       \* the windows that exist
    asked,      \* the request each window is answering
    answers,    \* answers of each window on their way
    announced,  \* the session the pages work with
    ui,         \* the main page's guarded operation
    minted,     \* the last token
    opens,      \* windows opened so far
    finishing,  \* pages whose command succeeded and has not finished yet
    sent,       \* commands of the main page that wait for the write permit
    journal,    \* the records of resets: profile, operation and phase
    repeats,    \* resets called again so far
    disturbed,  \* history: while or before the last request was made something
                \* that needs no consent was at work, see ConsentedSwitch
    boot        \* the bootstrap call of each load of the main page

barrier == <<tokens, minted, pending, issuing, asked, answers>>
sessions == <<active, recovery, last, gens>>
resets == <<journal, repeats>>
vars == <<sessions, writer, running, barrier, open, opens, announced, ui, finishing, sent, resets, disturbed, boot>>

NoSession == [id |-> NoProfile, gen |-> 0]
Session == [id : Profiles, gen : 1..MaxSessions] \cup {NoSession}
NoWriter == [op |-> "none", id |-> NoProfile, operation |-> 0, old |-> NoSession, page |-> 0,
             step |-> "none"]
NoRequest == [req |-> 0, expected |-> NoSession, required |-> {}, acked |-> {}, token |-> 0]
Pages == 0..MaxReloads
Repeater == MaxReloads + 1  \* who repeats a command that a page has sent before
Callers == Pages \cup {Repeater}
IdleUi(p) == [page |-> p, phase |-> "idle", req |-> 0, token |-> 0]

Init ==
    /\ active = NoSession /\ recovery = FALSE /\ gens = 0
    /\ last \in Profiles
    /\ writer = NoWriter /\ running = {}
    /\ tokens = {} /\ minted = 0 /\ pending = NoRequest /\ issuing = FALSE
    /\ open = {Main} /\ opens = 0
    /\ asked = [w \in Windows |-> 0]
    /\ answers = [w \in Windows |-> <<>>]
    /\ announced = NoSession
    /\ ui = IdleUi(0)
    /\ finishing = {} /\ sent = {} /\ journal = {} /\ repeats = 0
    /\ disturbed = FALSE
    /\ boot = [p \in Pages |-> IF p = 0 THEN "adopt" ELSE "none"]

----------------------------------------------------------------------------
(* The barrier: every action holds the windows mutex, which issuing stands
   for between the two locks ack_transition takes on the coordinator. *)

Revoked(token) == {t \in tokens : t.token # token}
NobodyAsked == asked' = [w \in Windows |-> 0]
Dropped == pending' = NoRequest /\ tokens' = Revoked(pending.token)

\* A token is bound to the session that is open when it is issued. The main
\* page takes the first one it is sent for its request.
IssueToken(required, acked) ==
    /\ minted' = minted + 1
    /\ tokens' = tokens \cup {[token |-> minted + 1, session |-> active]}
    /\ pending' = [pending EXCEPT !.required = required, !.acked = acked,
                                  !.token = minted + 1]
    /\ ui' = IF ui.phase = "waiting" /\ ui.req = pending.req
             THEN [ui EXCEPT !.phase = "granted", !.token = minted + 1] ELSE ui

\* The main page asks every window before it switches, resets or deletes.
Prepare ==
    /\ ~issuing
    /\ ui.phase = "idle" /\ boot[ui.page] = "none"
    /\ active = announced
    /\ pending = NoRequest
    /\ ui.req < MaxRequests
    /\ LET r == ui.req + 1 IN
       /\ pending' = [req |-> r, expected |-> announced, required |-> open,
                      acked |-> {}, token |-> 0]
       /\ asked' = [w \in Windows |-> IF w \in open THEN r ELSE asked[w]]
       /\ ui' = [ui EXCEPT !.phase = "waiting", !.req = r]
    /\ disturbed' = (sent # {} \/ writer # NoWriter)
    /\ UNCHANGED <<sessions, writer, running, tokens, minted, issuing, answers, open,
                   opens, announced, finishing, sent, resets, boot>>

\* The user resolves the window's drafts, or refuses; any later change of a
\* draft takes the answer back.
Answer(w, resolved) ==
    /\ w \in open
    /\ asked[w] # 0
    /\ answers[w] = <<>>
    /\ resolved => pending.req = asked[w] /\ pending.expected = announced
    /\ answers' = [answers EXCEPT ![w] = Append(@, [req |-> asked[w], resolved |-> resolved])]
    /\ UNCHANGED <<sessions, writer, running, tokens, minted, pending, issuing, asked,
                   open, opens, announced, ui, finishing, sent, resets, disturbed, boot>>

Accepted(w) ==
    /\ pending.req = Head(answers[w]).req
    /\ w \in pending.required
    /\ active = pending.expected

Ack(w) ==
    /\ ~issuing
    /\ answers[w] # <<>>
    /\ answers' = [answers EXCEPT ![w] = Tail(@)]
    /\ UNCHANGED <<sessions, writer, running, open, opens, announced, finishing, boot, minted, sent, resets, disturbed>>
    /\ CASE ~Accepted(w) ->
              UNCHANGED <<tokens, pending, issuing, asked, ui>>
         [] Accepted(w) /\ ~Head(answers[w]).resolved ->
              /\ Dropped /\ NobodyAsked
              /\ ui' = IF ui.phase = "waiting" THEN [ui EXCEPT !.phase = "idle"] ELSE ui
              /\ UNCHANGED issuing
         [] OTHER ->
              /\ pending' = [pending EXCEPT !.acked = @ \cup {w}]
              /\ issuing' = (w \notin pending.acked
                             /\ pending.acked \cup {w} = pending.required)
              /\ UNCHANGED <<tokens, asked, ui>>

Issue ==
    /\ issuing
    /\ issuing' = FALSE
    /\ IssueToken(pending.required, pending.acked)
    /\ UNCHANGED <<sessions, writer, running, asked, answers, open, opens, announced,
                   finishing, sent, resets, disturbed, boot>>

\* A window that opens late is asked too and takes the token back.
OpenUnasked(w) ==
    /\ ~issuing
    /\ w \notin open /\ opens < MaxOpens
    /\ opens' = opens + 1
    /\ open' = open \cup {w}
    /\ UNCHANGED <<sessions, writer, running, barrier, announced, ui, finishing, sent, resets, disturbed, boot>>
OpenWindow(w) ==
    /\ ~issuing
    /\ w \notin open /\ opens < MaxOpens
    /\ opens' = opens + 1
    /\ open' = open \cup {w}
    /\ asked' = [asked EXCEPT ![w] = pending.req]
    /\ IF pending = NoRequest THEN UNCHANGED <<pending, tokens>>
       ELSE /\ pending' = [pending EXCEPT !.required = @ \cup {w}, !.token = 0]
            /\ tokens' = Revoked(pending.token)
    /\ UNCHANGED <<sessions, writer, running, minted, issuing, answers, announced, ui,
                   finishing, sent, resets, disturbed, boot>>

CloseUnnoticed(w) ==
    /\ ~issuing
    /\ w \in open \ {Main}
    /\ open' = open \ {w}
    /\ answers' = [answers EXCEPT ![w] = <<>>]
    /\ UNCHANGED <<sessions, writer, running, tokens, minted, pending, issuing, asked, opens,
                   announced, ui, finishing, sent, resets, disturbed, boot>>
\* A destroyed window is not waited for; the session is not looked at.
CloseWindow(w) ==
    /\ ~issuing
    /\ w \in open \ {Main}
    /\ open' = open \ {w}
    /\ asked' = [asked EXCEPT ![w] = 0]
    /\ answers' = [answers EXCEPT ![w] = <<>>]
    /\ LET required == pending.required \ {w}
           acked == pending.acked \ {w}
       IN  IF pending # NoRequest /\ pending.token = 0 /\ acked = required
           THEN IssueToken(required, acked)
           ELSE /\ pending' = [pending EXCEPT !.required = required, !.acked = acked]
                /\ UNCHANGED <<tokens, minted, ui>>
    /\ UNCHANGED <<sessions, writer, running, issuing, opens, announced, finishing, sent, resets, disturbed, boot>>

\* The user gives up waiting, or the guarded operation is over: cancel.
Cancel(phase) ==
    /\ ~issuing
    /\ ui.phase = phase
    /\ ui' = [ui EXCEPT !.phase = "idle", !.token = 0]
    /\ IF pending # NoRequest /\ pending.req = ui.req THEN Dropped /\ NobodyAsked
       ELSE UNCHANGED <<pending, tokens, asked>>
    /\ UNCHANGED <<sessions, writer, running, minted, issuing, answers, open, opens,
                   announced, finishing, sent, resets, disturbed, boot>>
GiveUp == Cancel("waiting")
Release == Cancel("over")

----------------------------------------------------------------------------
(* The coordinator. *)

FreeForReaders == writer = NoWriter
Free == writer = NoWriter /\ running = {}

\* with_session: one job under a read permit, for the session it names.
Job(s) ==
    /\ FreeForReaders
    /\ s = active /\ s # NoSession
    /\ running' = running \cup {s}
    /\ UNCHANGED <<sessions, writer, barrier, open, opens, announced, ui, finishing, sent, resets, disturbed, boot>>

JobEnds(s) ==
    /\ s \in running
    /\ running' = running \ {s}
    /\ UNCHANGED <<sessions, writer, barrier, open, opens, announced, ui, finishing, sent, resets, disturbed, boot>>

\* The page has its token and calls the command. It resets or deletes the
\* profile it works with, and switches to any.
Call(op, id) ==
    /\ ui.phase = "granted"
    /\ op \in {"reset", "delete"} => id = announced.id
    /\ sent' = sent \cup {[op |-> op, id |-> id, token |-> ui.token, page |-> ui.page]}
    /\ ui' = [ui EXCEPT !.phase = "calling"]
    /\ UNCHANGED <<sessions, writer, running, barrier, open, opens, announced, finishing,
                   resets, disturbed, boot>>

Over(page) == IF ui.page = page /\ ui.phase = "calling" THEN [ui EXCEPT !.phase = "over"] ELSE ui
Closes(c) == active # NoSession /\ (c.op = "activate" \/ c.id = active.id)
Entitled(c) == Closes(c) => [token |-> c.token, session |-> active] \in tokens

\* The record of a reset, named by its operation: a token is one operation's.
Record(id, operation, phase) == [id |-> id, operation |-> operation, phase |-> phase]
Recorded(c, phase) == IF c.op = "reset" THEN journal \cup {Record(c.id, c.token, phase)} ELSE journal

\* The write permit is granted to a command. The token is spent whether or not
\* it fits the open session, which is then taken and its manager shut down. A
\* reset or a deletion may still fail before that: backup, export, or a record
\* that is written and reported as not.
Begin(c) ==
    /\ Free
    /\ gens < MaxSessions
    /\ sent' = sent \ {c}
    /\ tokens' = IF Closes(c) THEN Revoked(c.token) ELSE tokens
    /\ \/ /\ Entitled(c)
          /\ writer' = [op |-> c.op, id |-> c.id, operation |-> c.token, page |-> c.page,
                        old |-> IF Closes(c) THEN active ELSE NoSession,
                        step |-> IF c.op = "activate" THEN "open" ELSE "files"]
          /\ active' = IF Closes(c) THEN NoSession ELSE active
          /\ journal' = Recorded(c, "prepared")
          /\ UNCHANGED ui
       \/ /\ Entitled(c) => c.op # "activate"
          /\ ui' = Over(c.page)
          /\ journal' \in {journal} \cup (IF Entitled(c) THEN {Recorded(c, "prepared")} ELSE {})
          /\ UNCHANGED <<writer, active>>
    /\ UNCHANGED <<recovery, last, gens, running, minted, pending, issuing, asked,
                   answers, open, opens, announced, finishing, repeats, disturbed, boot>>

\* A reset is called again under its operation id and its record is found: one
\* that is only prepared is finished, which suspends the profile without a
\* token; a committed one is answered at once.
Repeat(r) ==
    /\ Free
    /\ repeats < MaxRepeats
    /\ repeats' = repeats + 1
    /\ IF r.phase = "committed"
       THEN /\ finishing' = finishing \cup {Repeater}
            /\ UNCHANGED <<writer, active, disturbed>>
       ELSE LET closes == active # NoSession /\ active.id = r.id IN
            /\ gens < MaxSessions
            /\ writer' = [op |-> "reset", id |-> r.id, operation |-> r.operation, page |-> Repeater,
                          old |-> IF closes THEN active ELSE NoSession, step |-> "files"]
            /\ active' = IF closes THEN NoSession ELSE active
            /\ disturbed' = TRUE
            /\ UNCHANGED finishing
    /\ UNCHANGED <<recovery, last, gens, running, barrier, open, opens, announced, ui, sent,
                   journal, boot>>

\* The permit is given back. The page hears of a failure at once; a success is
\* finished first.
EndWith(ok) ==
    /\ writer' = NoWriter
    /\ finishing' = IF ok /\ writer.op # "bootstrap" THEN finishing \cup {writer.page}
                    ELSE finishing
    /\ boot' = IF writer.op = "bootstrap"
               THEN [boot EXCEPT ![writer.page] = IF ok THEN "load" ELSE "failed"] ELSE boot
    /\ LET failed == ~ok /\ writer.op # "bootstrap" IN
       /\ ui' = IF failed THEN Over(writer.page) ELSE ui
       /\ announced' = IF failed THEN active' ELSE announced

Opened(id) == active' = [id |-> id, gen |-> gens + 1] /\ gens' = gens + 1
Kept == UNCHANGED <<running, barrier, open, opens, sent, repeats, disturbed>>
Untouched == Kept /\ UNCHANGED journal

\* open_manager and the registry write of commit_activation, or their failure.
OpenManager ==
    /\ writer.step = "open"
    /\ Opened(writer.id)
    /\ last' = writer.id
    /\ recovery' = FALSE
    /\ EndWith(TRUE)
    /\ Untouched

GiveUpOpening ==
    /\ writer.step = "open"
    /\ recovery' = FALSE
    /\ UNCHANGED <<active, gens, last>>
    /\ EndWith(FALSE)
    /\ Untouched
OpeningFails ==
    /\ writer.step = "open"
    /\ writer' = [writer EXCEPT !.step = "reopen"]
    /\ UNCHANGED <<sessions, ui, announced, finishing, boot>>
    /\ Untouched

\* The files of a reset or of a deletion: a deletion that worked leaves no
\* session, one whose directory could not be synced does not reopen either. The
\* record of a reset that failed is removed with its rollback, or stays.
FilesDone(ok) ==
    /\ writer.step = "files"
    /\ LET prepared == Record(writer.id, writer.operation, "prepared") IN
       IF writer.op = "delete" THEN UNCHANGED journal
       ELSE IF ok THEN journal' = (journal \ {prepared})
                                  \cup {Record(writer.id, writer.operation, "committed")}
       ELSE journal' \in {journal, journal \ {prepared}}
    /\ IF writer.op = "delete" /\ ok
       THEN /\ last' = IF last = writer.id THEN NoProfile ELSE last
            /\ UNCHANGED <<active, recovery, gens>>
            /\ EndWith(TRUE)
       ELSE /\ writer' = [writer EXCEPT !.step = IF ok THEN "reopen ok" ELSE "reopen"]
            /\ UNCHANGED <<sessions, ui, announced, finishing, boot>>
    /\ Kept
DeletionUnsynced ==
    /\ writer.step = "files" /\ writer.op = "delete"
    /\ UNCHANGED sessions
    /\ EndWith(FALSE)
    /\ Untouched

\* reopen_previous.
Reopen(ok) ==
    /\ writer.step \in {"reopen", "reopen ok"}
    /\ IF ok /\ writer.old # NoSession THEN Opened(writer.old.id)
       ELSE UNCHANGED <<active, gens>>
    /\ recovery' = IF writer.op # "activate" /\ writer.old = NoSession THEN recovery
                   ELSE writer.old # NoSession /\ ~ok
    /\ EndWith(writer.step = "reopen ok")
    /\ UNCHANGED last
    /\ Untouched

\* finish_transition drops whatever is pending; the new session is announced.
Finish(p) ==
    /\ ~issuing
    /\ p \in finishing
    /\ finishing' = finishing \ {p}
    /\ Dropped /\ NobodyAsked
    /\ announced' = active
    /\ ui' = Over(p)
    /\ UNCHANGED <<sessions, writer, running, minted, issuing, answers, open, opens, sent, resets, disturbed, boot>>

----------------------------------------------------------------------------
(* The bootstrap of each load of the main page. *)

BootOnly(p, step) ==
    /\ boot' = [boot EXCEPT ![p] = step]
    /\ UNCHANGED <<writer, running, barrier, open, opens, ui, finishing, sent, resets, disturbed>>

\* adopt_legacy takes and returns a write permit of its own.
Adopt(p) ==
    /\ boot[p] = "adopt" /\ Free
    /\ BootOnly(p, "decide")
    /\ UNCHANGED <<sessions, announced>>

Decide(p) ==
    /\ boot[p] = "decide"
    /\ BootOnly(p, IF active = NoSession /\ last # NoProfile THEN "activate" ELSE "load")
    /\ UNCHANGED <<sessions, announced>>

\* activate: a write permit, and no token.
BootActivate(p) ==
    /\ boot[p] = "activate" /\ Free
    /\ gens < MaxSessions /\ last # NoProfile
    /\ boot' = [boot EXCEPT ![p] = "opening"]
    /\ writer' = [op |-> "bootstrap", id |-> last, operation |-> 0, old |-> active, page |-> p,
                  step |-> "open"]
    /\ active' = NoSession
    /\ disturbed' = (disturbed \/ active # NoSession \/ p # ui.page)
    /\ UNCHANGED <<recovery, last, gens, running, barrier, open, opens, announced, ui, finishing, sent,
                   resets>>

\* The flag is set without a permit.
MarkRecovery(p) ==
    /\ boot[p] = "failed"
    /\ recovery' = TRUE
    /\ BootOnly(p, "load")
    /\ UNCHANGED <<active, last, gens, announced>>

Load(p) ==
    /\ boot[p] = "load"
    /\ announced' = IF p = ui.page THEN active ELSE announced
    /\ BootOnly(p, "none")
    /\ UNCHANGED sessions

\* The main page reloads: what it waited for is lost, what it asked for goes on.
Reload ==
    /\ ui.page < MaxReloads
    /\ ui' = [IdleUi(ui.page + 1) EXCEPT !.req = ui.req]
    /\ boot' = [boot EXCEPT ![ui.page + 1] = "adopt"]
    /\ asked' = [asked EXCEPT ![Main] = pending.req]
    /\ UNCHANGED <<sessions, writer, running, tokens, minted, pending, issuing, answers,
                   open, opens, announced, finishing, sent, resets, disturbed>>

Core ==
    \/ Issue \/ OpenManager \/ \E ok \in BOOLEAN : FilesDone(ok) \/ Reopen(ok)
    \/ \E p \in Callers : Finish(p)
    \/ \E p \in Pages : Adopt(p) \/ Decide(p) \/ BootActivate(p)
                        \/ MarkRecovery(p) \/ Load(p)
Next ==
    \/ Core \/ OpeningFails \/ DeletionUnsynced
    \/ Prepare \/ GiveUp \/ Release \/ Reload
    \/ \E op \in {"activate", "reset", "delete"}, id \in Profiles : Call(op, id)
    \/ \E c \in sent : Begin(c)
    \/ \E r \in journal : Repeat(r)
    \/ \E w \in Windows : \/ \E resolved \in BOOLEAN : Answer(w, resolved)
                          \/ Ack(w) \/ OpenWindow(w) \/ CloseWindow(w)
    \/ \E s \in {active} \cup running : Job(s) \/ JobEnds(s)

Spec == Init /\ [][Next]_vars

----------------------------------------------------------------------------
\* Every variable stays in its set.
TypeOK ==
    /\ active \in Session /\ announced \in Session
    /\ recovery \in BOOLEAN /\ last \in Profiles \cup {NoProfile} /\ gens \in 0..MaxSessions
    /\ writer.op \in {"none", "activate", "reset", "delete", "bootstrap"}
    /\ running \subseteq Session \ {NoSession}
    /\ tokens \subseteq [token : 1..minted, session : Session]
    /\ journal \subseteq [id : Profiles, operation : Nat, phase : {"prepared", "committed"}]
    /\ pending.acked \subseteq pending.required /\ pending.required \subseteq open

\* A job runs on the database of the session it was admitted for: no switch,
\* reset or deletion closes it underneath.
JobsKeepTheirSession == running \subseteq {active}

\* A command that closes the open session does so only when every window that
\* exists has agreed to leave that very session and has not taken it back. Two
\* exceptions. A reset that is repeated under its operation id while its record is
\* still prepared asks for no token. And nothing is claimed of a request that was
\* disturbed: a command of an earlier load was on its way or at work when the page
\* asked, or since then a reset was repeated, or a bootstrap closed a session or
\* opened one behind a reload.
Leaves == writer = NoWriter /\ writer'.old = active /\ active # NoSession
Repeated == writer'.op = "reset" /\ Record(writer'.id, writer'.operation, "prepared") \in journal
ConsentedSwitch ==
    [][Leaves /\ writer'.op # "bootstrap" /\ ~disturbed
       => Repeated \/ (pending.expected = active /\ pending.acked = open)]_vars

\* A switch or a reset that closed a profile ends with that profile or another
\* one open, or in recovery; it never just leaves the user without one.
NoSilentClose ==
    [][writer.op \in {"activate", "reset", "bootstrap"} /\ writer' = NoWriter
       /\ writer.old # NoSession
       => active' # NoSession \/ recovery']_vars
=============================================================================
