----------------------------- MODULE Mutations -----------------------------
(***************************************************************************)
(* A financial mutation from the form that submits it to the row it        *)
(* writes: the durable intent marker of mutation-intent.ts, the session    *)
(* check of ProfileCoordinator::with_session, the executor's queue and     *)
(* run_idempotent's transaction, with reloads, crashes, lost answers and   *)
(* retries.                                                                *)
(*                                                                         *)
(* Abstractions: a request is the whole (command, arguments) pair, so      *)
(* comparing requests stands for comparing command kind and BLAKE3 hash;   *)
(* a form is one awaiting caller in some webview; localStorage and SQLite  *)
(* commits (journal_mode=DELETE, synchronous=FULL) are durable.            *)
(***************************************************************************)
EXTENDS Naturals, Sequences, FiniteSets

CONSTANTS Forms,          \* callers in the webviews
          Requests,
          PreChecked,     \* requests whose command checks the row before it
                          \* looks for a receipt (category_delete_tag)
          NoRequest,
          MaxOps,         \* bound on the ids clients generate
          MaxCalls,       \* bound on calls ever issued
          MaxReopens      \* bound on session generations

ASSUME MutationsAssumption ==
    /\ PreChecked \subseteq Requests
    /\ NoRequest \notin Requests
    /\ MaxOps \in Nat /\ MaxCalls \in Nat /\ MaxReopens \in Nat

\* ULIDs in the order they are generated. Id 0 stands for an id a caller
\* chooses itself through MutationOptions.operationId, which it may reuse.
OpIds == 0..MaxOps
ChosenId == 0

VARIABLES
    pending,     \* localStorage: pending[r] holds the ids of unresolved intents
    form,        \* what each form is doing
    minted,      \* the last id generated
    calls,       \* the last call issued
    sent,        \* calls the core has received and not admitted
    generation,  \* of the active profile session
    queue,       \* the executor's queue of admitted calls
    tx,          \* the open SQLite transaction: none, or a singleton
    receipts,    \* operation_receipts: receipts[o] is the request stored for o
    accepts,     \* whether the rows a request refers to allow it now
    answers,     \* answers on their way to the form that awaits them
    effects,     \* history: how often <<id, request>> changed the ledger
    verdicts,    \* history: verdicts given, as in OnceOnly
    told         \* history: told[o] is what forms learnt about o

vars == <<pending, form, minted, calls, sent, generation, queue, tx, receipts,
          accepts, answers, effects, verdicts, told>>
clientVars == <<pending, form, minted, calls, told>>
storeVars  == <<receipts, accepts, effects>>

Idle == [phase |-> "idle"]
Holding == [phase : {"asking"}, req : Requests, op : OpIds, gen : 0..MaxReopens]
Waiting == [phase : {"waiting"}, req : Requests, op : OpIds, call : 1..MaxCalls]
Call == [id : 1..MaxCalls, op : OpIds, req : Requests, gen : 0..MaxReopens]
Answer == [id : 1..MaxCalls, verdict : {"saved", "rejected", "expired"}]
Tx == [call : Call, effect : BOOLEAN, receipt : BOOLEAN]

Init ==
    /\ pending = [r \in Requests |-> {}]
    /\ form = [f \in Forms |-> Idle]
    /\ minted = 0
    /\ calls = 0
    /\ sent = {}
    /\ generation = 0
    /\ queue = <<>>
    /\ tx = {}
    /\ receipts = [o \in OpIds |-> NoRequest]
    /\ accepts = [r \in Requests |-> TRUE]
    /\ answers = {}
    /\ effects = [x \in OpIds \X Requests |-> 0]
    /\ verdicts = {}
    /\ told = [o \in OpIds |-> {}]

----------------------------------------------------------------------------
(* The client: invokeMutation. *)

Send(f, o, r, g) ==
    /\ calls < MaxCalls
    /\ calls' = calls + 1
    /\ form' = [form EXCEPT ![f] = [phase |-> "waiting", req |-> r, op |-> o,
                                    call |-> calls + 1]]
    /\ sent' = sent \cup {[id |-> calls + 1, op |-> o, req |-> r, gen |-> g]}

\* No unresolved intent for this request: mark a new one, then call.
SubmitNew(f, r) ==
    /\ form[f] = Idle
    /\ pending[r] = {}
    /\ minted < MaxOps
    /\ minted' = minted + 1
    /\ pending' = [pending EXCEPT ![r] = {minted + 1}]
    /\ Send(f, minted + 1, r, generation)
    /\ UNCHANGED <<generation, queue, tx, storeVars, answers, verdicts, told>>

\* An unresolved intent exists: ask before anything is sent. The session in
\* the arguments and the oldest marker are fixed before the dialog opens.
SubmitAgain(f, r) ==
    /\ form[f] = Idle
    /\ \E o \in pending[r] :
        /\ \A p \in pending[r] : o <= p
        /\ form' = [form EXCEPT ![f] = [phase |-> "asking", req |-> r, op |-> o,
                                        gen |-> generation]]
    /\ UNCHANGED <<pending, minted, calls, sent, generation, queue, tx, storeVars,
                   answers, verdicts, told>>

\* "Retry the previous save": the marker is written again, even if another
\* form's answer removed it while the dialog was open.
ConfirmRetry(f) ==
    /\ form[f].phase = "asking"
    /\ pending' = [pending EXCEPT ![form[f].req] = @ \cup {form[f].op}]
    /\ Send(f, form[f].op, form[f].req, form[f].gen)
    /\ UNCHANGED <<minted, generation, queue, tx, storeVars, answers, verdicts, told>>

\* "Keep the draft": pending_save_unresolved is thrown.
DeclineRetry(f) ==
    /\ form[f].phase = "asking"
    /\ form' = [form EXCEPT ![f] = Idle]
    /\ UNCHANGED <<pending, minted, calls, sent, generation, queue, tx, storeVars,
                   answers, verdicts, told>>

\* A caller that names its own id is sent without a marker.
SubmitChosen(f, r) ==
    /\ form[f] = Idle
    /\ Send(f, ChosenId, r, generation)
    /\ UNCHANGED <<pending, minted, generation, queue, tx, storeVars, answers,
                   verdicts, told>>

\* profile_session_expired says nothing about an earlier attempt.
DefinitiveIfStructured(v) == TRUE
Definitive(v) == v # "expired"

\* The answer reaches the form that awaits it.
Receive(f) ==
    \E a \in answers :
        /\ form[f].phase = "waiting" /\ form[f].call = a.id
        /\ pending' = IF Definitive(a.verdict) /\ form[f].op # ChosenId
                      THEN [pending EXCEPT ![form[f].req] = @ \ {form[f].op}]
                      ELSE pending
        /\ told' = [told EXCEPT ![form[f].op] = @ \cup {<<form[f].req, a.verdict>>}]
        /\ answers' = answers \ {a}
        /\ form' = [form EXCEPT ![f] = Idle]
        /\ UNCHANGED <<minted, calls, sent, generation, queue, tx, storeVars, verdicts>>

\* The webview reloads or closes: nobody awaits its calls any more, but the
\* core carries them out.
Reload(f) ==
    /\ form[f] # Idle
    /\ form' = [form EXCEPT ![f] = Idle]
    /\ answers' = IF form[f].phase = "waiting"
                  THEN {a \in answers : a.id # form[f].call} ELSE answers
    /\ UNCHANGED <<pending, minted, calls, sent, generation, queue, tx, storeVars,
                   verdicts, told>>

----------------------------------------------------------------------------
(* The core: with_session, the executor and run_idempotent. *)

\* An answer is dropped when the form that awaited it is gone.
Awaited(c) == \E f \in Forms : form[f].phase = "waiting" /\ form[f].call = c.id
ReplyRaw(c, v) ==
    answers' = IF Awaited(c) THEN answers \cup {[id |-> c.id, verdict |-> c.req]} ELSE answers
Reply(c, v) ==
    answers' = IF Awaited(c) THEN answers \cup {[id |-> c.id, verdict |-> v]} ELSE answers

\* with_session: the session of the call against the active one.
SessionExpired(c) == c.gen # generation

Expire(c) ==
    /\ SessionExpired(c)
    /\ sent' = sent \ {c}
    /\ Reply(c, "expired")
    /\ UNCHANGED <<clientVars, generation, queue, tx, storeVars, verdicts>>

Admit(c) ==
    /\ ~SessionExpired(c)
    /\ sent' = sent \ {c}
    /\ queue' = Append(queue, c)
    /\ UNCHANGED <<clientVars, generation, tx, storeVars, answers, verdicts>>

\* A profile transition takes the write permit, which every admitted call
\* holds off until it is answered.
Reopen ==
    /\ generation < MaxReopens
    /\ queue = <<>> /\ tx = {}
    /\ generation' = generation + 1
    /\ UNCHANGED <<clientVars, sent, queue, tx, storeVars, answers, verdicts>>

ConcludeSavedOnly(c, v) ==
    /\ IF v = "saved" THEN Reply(c, v) ELSE UNCHANGED answers
    /\ verdicts' = verdicts \cup {<<c.op, c.req, v>>}
Conclude(c, v) ==
    /\ Reply(c, v)
    /\ verdicts' = verdicts \cup {<<c.op, c.req, v>>}

\* BEGIN IMMEDIATE; a PreChecked command looks at the row first and refuses
\* before any receipt is read.
Begin ==
    /\ tx = {} /\ queue # <<>>
    /\ Head(queue).req \in PreChecked => accepts[Head(queue).req]
    /\ tx' = {[call |-> Head(queue), effect |-> FALSE, receipt |-> FALSE]}
    /\ queue' = Tail(queue)
    /\ UNCHANGED <<clientVars, sent, generation, storeVars, answers, verdicts>>

RefuseEarly ==
    /\ tx = {} /\ queue # <<>>
    /\ Head(queue).req \in PreChecked /\ ~accepts[Head(queue).req]
    /\ queue' = Tail(queue)
    /\ Conclude(Head(queue), "rejected")
    /\ UNCHANGED <<clientVars, sent, generation, tx, storeVars>>

\* The receipt lookup.
UnknownAlways(o) == TRUE
Unknown(o) == receipts[o] = NoRequest

SameRequest(c) == receipts[c.op] = c.req

\* operation_id_conflict: the id was used for another request.
Conflict(t) ==
    /\ ~t.effect
    /\ ~Unknown(t.call.op) /\ ~SameRequest(t.call)
    /\ tx' = {}
    /\ Conclude(t.call, "rejected")
    /\ UNCHANGED <<clientVars, sent, generation, queue, storeVars>>

\* A repetition gets the stored result.
Replay(t) ==
    /\ ~t.effect
    /\ ~Unknown(t.call.op) /\ SameRequest(t.call)
    /\ tx' = {}
    /\ Conclude(t.call, "saved")
    /\ UNCHANGED <<clientVars, sent, generation, queue, storeVars>>

\* The business closure refuses, or a statement fails: roll back, no receipt.
Refuse(t) ==
    /\ Unknown(t.call.op)
    /\ t.effect \/ ~accepts[t.call.req]
    /\ tx' = {}
    /\ Conclude(t.call, "rejected")
    /\ UNCHANGED <<clientVars, sent, generation, queue, storeVars>>

\* The business closure runs inside the transaction.
Apply(t) ==
    /\ Unknown(t.call.op) /\ ~t.effect /\ accepts[t.call.req]
    /\ tx' = {[t EXCEPT !.effect = TRUE]}
    /\ UNCHANGED <<clientVars, sent, generation, queue, storeVars, answers, verdicts>>

WriteReceiptAndAnswer(t) ==
    /\ t.effect /\ ~t.receipt
    /\ tx' = {[t EXCEPT !.receipt = TRUE]}
    /\ Conclude(t.call, "saved")
    /\ UNCHANGED <<clientVars, sent, generation, queue, storeVars>>
WriteReceipt(t) ==
    /\ t.effect /\ ~t.receipt
    /\ tx' = {[t EXCEPT !.receipt = TRUE]}
    /\ UNCHANGED <<clientVars, sent, generation, queue, storeVars, answers, verdicts>>

\* What a commit waits for.
CompleteEarly(t) == t.effect
Complete(t) == t.effect /\ t.receipt

\* COMMIT makes the ledger rows and the receipt durable together. A deleted
\* tag refuses every later deletion.
Commit(t) ==
    /\ Complete(t)
    /\ tx' = {}
    /\ effects' = [effects EXCEPT ![<<t.call.op, t.call.req>>] = @ + 1]
    /\ receipts' = IF t.receipt THEN [receipts EXCEPT ![t.call.op] = t.call.req]
                   ELSE receipts
    /\ accepts' = IF t.call.req \in PreChecked
                  THEN [accepts EXCEPT ![t.call.req] = FALSE] ELSE accepts
    /\ Conclude(t.call, "saved")
    /\ UNCHANGED <<clientVars, sent, generation, queue>>

\* Other commands run between transactions and change what is accepted. A
\* deleted tag does not come back.
OtherCommand(r) ==
    /\ tx = {}
    /\ r \in PreChecked => accepts[r]
    /\ accepts' = [accepts EXCEPT ![r] = ~@]
    /\ UNCHANGED <<clientVars, sent, generation, queue, tx, receipts, answers,
                   effects, verdicts>>

\* The process dies; SQLite rolls the open transaction back. Only
\* localStorage and the database survive.
Crash ==
    /\ generation < MaxReopens
    /\ generation' = generation + 1
    /\ form' = [f \in Forms |-> Idle]
    /\ sent' = {} /\ queue' = <<>> /\ tx' = {} /\ answers' = {}
    /\ UNCHANGED <<pending, minted, calls, told, storeVars, verdicts>>

ExecutorStep ==
    \/ Begin \/ RefuseEarly
    \/ \E t \in tx : Conflict(t) \/ Replay(t) \/ Refuse(t) \/ Apply(t)
                       \/ WriteReceipt(t) \/ Commit(t)

CoreStep == (\E c \in sent : Expire(c) \/ Admit(c)) \/ ExecutorStep

Next ==
    \/ \E f \in Forms, r \in Requests :
          SubmitNew(f, r) \/ SubmitAgain(f, r) \/ SubmitChosen(f, r)
    \/ \E f \in Forms : ConfirmRetry(f) \/ DeclineRetry(f) \/ Receive(f) \/ Reload(f)
    \/ CoreStep
    \/ Reopen
    \/ \E r \in Requests : OtherCommand(r)
    \/ Crash

Spec == Init /\ [][Next]_vars

\* The executor thread and the async runtime never stop while the process
\* lives, and an answer on its way arrives. Nothing is assumed of users.
Fairness ==
    /\ WF_vars(CoreStep)
    /\ \A f \in Forms : WF_vars(Receive(f))

LiveSpec == Spec /\ Fairness

----------------------------------------------------------------------------
(* Properties *)

TypeOK ==
    /\ pending \in [Requests -> SUBSET OpIds]
    /\ form \in [Forms -> {Idle} \cup Holding \cup Waiting]
    /\ minted \in OpIds
    /\ calls \in 0..MaxCalls
    /\ sent \subseteq Call
    /\ generation \in 0..MaxReopens
    /\ queue \in Seq(Call)
    /\ tx \subseteq Tx
    /\ receipts \in [OpIds -> Requests \cup {NoRequest}]
    /\ accepts \in [Requests -> BOOLEAN]
    /\ answers \subseteq Answer
    /\ effects \in [OpIds \X Requests -> Nat]
    /\ verdicts \subseteq OpIds \X Requests \X {"saved", "rejected"}
    /\ told \in [OpIds -> SUBSET (Requests \X {"saved", "rejected", "expired"})]

\* However often a request is retried, whatever is lost and wherever the
\* process dies, an id changes the ledger at most once and for one request
\* (receipt.rs: "every database mutation is applied exactly once").
AtMostOnce ==
    \A o \in OpIds, r, s \in Requests :
        /\ effects[<<o, r>>] <= 1
        /\ effects[<<o, r>>] = 1 /\ effects[<<o, s>>] = 1 => r = s

\* A form that was told "saved" has its effect in the ledger, of the request
\* it sent and not of another request with the same id.
SavedIsDurable ==
    \A o \in OpIds, r \in Requests : <<r, "saved">> \in told[o] => effects[<<o, r>>] = 1

\* An effect that no form has had a definitive answer about still has its
\* marker, through reloads, crashes and expired sessions, so the user is asked
\* before the same request is entered a second time (mutation-intent.ts:
\* "Pending entries survive reload and are removed only after a definitive
\* response").
SilentEffectKeepsMarker ==
    \A o \in OpIds \ {ChosenId}, r \in Requests :
        /\ effects[<<o, r>>] = 1
        /\ <<r, "saved">> \notin told[o] /\ <<r, "rejected">> \notin told[o]
        => o \in pending[r]

\* What the client assumes: a request that was refused under an id does not
\* take effect under it (mutation-intent.ts: "Structured domain rejection is
\* definitive"). It does, when two attempts of one intent are under way: see
\* Findings in the README.
RejectionIsDefinitive ==
    \A o \in OpIds \ {ChosenId}, r \in Requests :
        <<r, "rejected">> \in told[o] => effects[<<o, r>>] = 0

\* What OnceOnly sees of the path: the requests whose command looks for its
\* receipt before anything else.
ByReceipt == Requests \ PreChecked
Outcome == [o \in OpIds |-> IF receipts[o] \in ByReceipt THEN receipts[o] ELSE NoRequest]
Given == {x \in verdicts : x[2] \in ByReceipt}
Promise == INSTANCE OnceOnly WITH Requests <- ByReceipt, outcome <- Outcome,
                                  verdicts <- Given

\* The path from form to ledger implements OnceOnly for these requests (receipt.rs:
\* "applied exactly once"; a repetition gets the stored result, another request
\* under the id a conflict).
ImplementsOnceOnly == Promise!Spec

\* A retry of what was applied is answered with the stored result: no
\* verdict says both (receipt.rs: "On retry with same `operation_id` + same
\* request: returns the cached result without re-running the closure"). Not for a PreChecked
\* one: see Findings in the README.
RetryReturnsCached ==
    [][\A o \in OpIds, r \in Requests :
          receipts[o] = r => (<<o, r, "rejected">> \in verdicts' => <<o, r, "rejected">> \in verdicts)
      ]_verdicts

\* Every form that waits is answered, reloaded or dies with the process.
EveryCallEnds == \A f \in Forms : form[f].phase = "waiting" ~> form[f].phase # "waiting"
=============================================================================
