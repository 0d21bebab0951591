--------------------------- MODULE MutationsProofs ---------------------------
(***************************************************************************)
(* Theorems about Mutations, for every number of forms, requests, ids,     *)
(* calls and restarts.                                                     *)
(***************************************************************************)
EXTENDS Mutations, SequenceTheorems, TLAPS

LEMMA QueueHeadTail ==
    ASSUME NEW S, NEW q \in Seq(S), q # <<>>
    PROVE  Head(q) \in S /\ Tail(q) \in Seq(S)
BY HeadTailProperties

\* Answers and verdicts stay typed whoever concludes.
LEMMA ConcludeTyped ==
    ASSUME TypeOK, NEW c \in Call, NEW v \in {"saved", "rejected"}, Conclude(c, v)
    PROVE  /\ answers' \subseteq Answer
           /\ verdicts' \subseteq OpIds \X Requests \X {"saved", "rejected"}
BY DEF TypeOK, Conclude, Reply, Call, Answer

\* A call that is sent is typed, and so is the form that awaits it.
LEMMA SendTyped ==
    ASSUME TypeOK, NEW f \in Forms, NEW o \in OpIds, NEW r \in Requests,
           NEW g \in 0..MaxReopens, Send(f, o, r, g)
    PROVE  /\ calls' \in 0..MaxCalls
           /\ form' \in [Forms -> {Idle} \cup Holding \cup Waiting]
           /\ sent' \subseteq Call
<1>1. calls + 1 \in 1..MaxCalls
  BY MutationsAssumption DEF TypeOK, Send
<1>2. [phase |-> "waiting", req |-> r, op |-> o, call |-> calls + 1] \in Waiting
  BY <1>1 DEF Waiting
<1>3. [id |-> calls + 1, op |-> o, req |-> r, gen |-> g] \in Call
  BY <1>1 DEF Call
<1>4. calls' = calls + 1
  BY DEF Send
<1>5. calls' \in 0..MaxCalls
  BY <1>1, <1>4, MutationsAssumption
<1> QED
  BY <1>2, <1>3, <1>5 DEF TypeOK, Send

\* The state is well typed: every action keeps every variable in its set.
THEOREM TypeCorrect == Spec => []TypeOK
<1> USE MutationsAssumption DEF OpIds, ChosenId, Idle, Holding, Waiting, Call, Answer, Tx
<1>1. Init => TypeOK
  BY DEF Init, TypeOK
<1>2. TypeOK /\ [Next]_vars => TypeOK'
  <2> SUFFICES ASSUME TypeOK, [Next]_vars PROVE TypeOK'
    OBVIOUS
  <2> USE DEF TypeOK
  <2>1. ASSUME NEW f \in Forms, NEW r \in Requests, SubmitNew(f, r) PROVE TypeOK'
    <3>1. minted + 1 \in OpIds /\ Send(f, minted + 1, r, generation)
      BY <2>1 DEF SubmitNew
    <3>2. /\ calls' \in 0..MaxCalls /\ sent' \subseteq Call
          /\ form' \in [Forms -> {Idle} \cup Holding \cup Waiting]
      <4> HIDE DEF OpIds, Call, Holding, Waiting, Idle
      <4> QED BY <3>1, SendTyped
    <3>3. pending' \in [Requests -> SUBSET OpIds]
      BY <2>1, <3>1 DEF SubmitNew
    <3> QED
      BY <2>1, <3>1, <3>2, <3>3 DEF SubmitNew, storeVars
  <2>2. ASSUME NEW f \in Forms, NEW r \in Requests, SubmitAgain(f, r) PROVE TypeOK'
    BY <2>2 DEF SubmitAgain, storeVars
  <2>3. ASSUME NEW f \in Forms, NEW r \in Requests, SubmitChosen(f, r) PROVE TypeOK'
    <3>1. 0 \in OpIds /\ Send(f, 0, r, generation)
      BY <2>3 DEF SubmitChosen
    <3>2. /\ calls' \in 0..MaxCalls /\ sent' \subseteq Call
          /\ form' \in [Forms -> {Idle} \cup Holding \cup Waiting]
      <4> HIDE DEF OpIds, Call, Holding, Waiting, Idle
      <4> QED BY <3>1, SendTyped
    <3> QED
      BY <2>3, <3>2 DEF SubmitChosen, storeVars
  <2>4. ASSUME NEW f \in Forms, ConfirmRetry(f) PROVE TypeOK'
    <3>1. form[f] \in Holding
      BY <2>4 DEF ConfirmRetry
    <3>2. /\ form[f].op \in OpIds /\ form[f].req \in Requests /\ form[f].gen \in 0..MaxReopens
          /\ Send(f, form[f].op, form[f].req, form[f].gen)
      BY <2>4, <3>1 DEF ConfirmRetry
    <3>3. /\ calls' \in 0..MaxCalls /\ sent' \subseteq Call
          /\ form' \in [Forms -> {Idle} \cup Holding \cup Waiting]
      <4> HIDE DEF OpIds, Call, Holding, Waiting, Idle
      <4> QED BY <3>2, SendTyped
    <3>4. pending' \in [Requests -> SUBSET OpIds]
      BY <2>4, <3>2 DEF ConfirmRetry
    <3> QED
      BY <2>4, <3>3, <3>4 DEF ConfirmRetry, storeVars
  <2>5. ASSUME NEW f \in Forms, DeclineRetry(f) PROVE TypeOK'
    BY <2>5 DEF DeclineRetry, storeVars
  <2>6. ASSUME NEW f \in Forms, Receive(f) PROVE TypeOK'
    BY <2>6 DEF Receive, storeVars
  <2>7. ASSUME NEW f \in Forms, Reload(f) PROVE TypeOK'
    BY <2>7 DEF Reload, storeVars
  <2>8. ASSUME NEW c \in sent, Expire(c) PROVE TypeOK'
    BY <2>8 DEF Expire, Reply, clientVars, storeVars
  <2>9. ASSUME NEW c \in sent, Admit(c) PROVE TypeOK'
    <3>1. c \in Call /\ queue \in Seq(Call)
      OBVIOUS
    <3>2. queue' \in Seq(Call)
      <4> HIDE DEF Call, TypeOK
      <4> QED BY <2>9, <3>1, AppendProperties DEF Admit
    <3> QED
      BY <2>9, <3>2 DEF Admit, clientVars, storeVars
  <2>10. ASSUME Begin PROVE TypeOK'
    <3>1. Head(queue) \in Call /\ Tail(queue) \in Seq(Call)
      <4>1. queue \in Seq(Call) /\ queue # <<>>
        BY <2>10 DEF Begin
      <4> HIDE DEF Call, TypeOK
      <4> QED BY <4>1, QueueHeadTail
    <3>2. tx' \subseteq Tx
      <4> HIDE DEF Call
      <4> QED BY <2>10, <3>1 DEF Begin
    <3> QED
      BY <2>10, <3>1, <3>2 DEF Begin, clientVars, storeVars
  <2>11. ASSUME RefuseEarly PROVE TypeOK'
    <3>1. Head(queue) \in Call /\ Tail(queue) \in Seq(Call)
      <4>1. queue \in Seq(Call) /\ queue # <<>>
        BY <2>11 DEF RefuseEarly
      <4> HIDE DEF Call, TypeOK
      <4> QED BY <4>1, QueueHeadTail
    <3>2. answers' \subseteq Answer /\ verdicts' \subseteq OpIds \X Requests \X {"saved", "rejected"}
      BY <2>11, <3>1, ConcludeTyped DEF RefuseEarly
    <3> QED
      BY <2>11, <3>1, <3>2 DEF RefuseEarly, clientVars, storeVars
  <2>12. ASSUME NEW t \in tx, Conflict(t) PROVE TypeOK'
    <3>1. answers' \subseteq Answer /\ verdicts' \subseteq OpIds \X Requests \X {"saved", "rejected"}
      BY <2>12, ConcludeTyped DEF Conflict
    <3> QED
      BY <2>12, <3>1 DEF Conflict, clientVars, storeVars
  <2>13. ASSUME NEW t \in tx, Replay(t) PROVE TypeOK'
    <3>1. answers' \subseteq Answer /\ verdicts' \subseteq OpIds \X Requests \X {"saved", "rejected"}
      BY <2>13, ConcludeTyped DEF Replay
    <3> QED
      BY <2>13, <3>1 DEF Replay, clientVars, storeVars
  <2>14. ASSUME NEW t \in tx, Refuse(t) PROVE TypeOK'
    <3>1. answers' \subseteq Answer /\ verdicts' \subseteq OpIds \X Requests \X {"saved", "rejected"}
      BY <2>14, ConcludeTyped DEF Refuse
    <3> QED
      BY <2>14, <3>1 DEF Refuse, clientVars, storeVars
  <2>15. ASSUME NEW t \in tx, Apply(t) PROVE TypeOK'
    BY <2>15 DEF Apply, clientVars, storeVars
  <2>16. ASSUME NEW t \in tx, WriteReceipt(t) PROVE TypeOK'
    BY <2>16 DEF WriteReceipt, clientVars, storeVars
  <2>17. ASSUME NEW t \in tx, Commit(t) PROVE TypeOK'
    <3>1. answers' \subseteq Answer /\ verdicts' \subseteq OpIds \X Requests \X {"saved", "rejected"}
      BY <2>17, ConcludeTyped DEF Commit
    <3>2. t.call.op \in OpIds /\ t.call.req \in Requests
      OBVIOUS
    <3>3. effects' \in [OpIds \X Requests -> Nat]
      BY <2>17, <3>2 DEF Commit
    <3>4. receipts' \in [OpIds -> Requests \cup {NoRequest}] /\ accepts' \in [Requests -> BOOLEAN]
      BY <2>17, <3>2 DEF Commit
    <3> QED
      BY <2>17, <3>1, <3>3, <3>4 DEF Commit, clientVars
  <2>18. ASSUME Reopen PROVE TypeOK'
    BY <2>18 DEF Reopen, clientVars, storeVars
  <2>19. ASSUME NEW r \in Requests, OtherCommand(r) PROVE TypeOK'
    BY <2>19 DEF OtherCommand, clientVars
  <2>20. ASSUME Crash PROVE TypeOK'
    BY <2>20 DEF Crash, storeVars
  <2>21. CASE UNCHANGED vars
    BY <2>21 DEF vars
  <2> QED
    BY <2>1, <2>2, <2>3, <2>4, <2>5, <2>6, <2>7, <2>8, <2>9, <2>10, <2>11, <2>12,
       <2>13, <2>14, <2>15, <2>16, <2>17, <2>18, <2>19, <2>20, <2>21
       DEF Next, CoreStep, ExecutorStep
<1> QED
  BY <1>1, <1>2, PTL DEF Spec
----------------------------------------------------------------------------
(* The inductive invariant. What makes run_idempotent exactly-once is the  *)
(* middle part: a transaction that has run its closure belongs to an id    *)
(* that has no receipt, so its commit is the first for that id.            *)

OneTransaction == \A s, t \in tx : s = t

FirstForItsId ==
    \A t \in tx : /\ t.receipt => t.effect
                  /\ t.effect => receipts[t.call.op] = NoRequest

EffectsAreReceipts ==
    \A o \in OpIds, r \in Requests : effects[<<o, r>>] = IF receipts[o] = r THEN 1 ELSE 0

ReceiptInv == TypeOK /\ OneTransaction /\ FirstForItsId /\ EffectsAreReceipts

\* The steps that leave the transaction and the tables alone.
LEMMA ReceiptStutter ==
    ASSUME ReceiptInv, TypeOK', UNCHANGED <<tx, receipts, effects>>
    PROVE  ReceiptInv'
BY DEF ReceiptInv, OneTransaction, FirstForItsId, EffectsAreReceipts

\* The steps that roll back, or replay, and end the transaction.
LEMMA ReceiptEnd ==
    ASSUME ReceiptInv, TypeOK', tx' = {}, UNCHANGED <<receipts, effects>>
    PROVE  ReceiptInv'
BY DEF ReceiptInv, OneTransaction, FirstForItsId, EffectsAreReceipts

LEMMA ReceiptStep == ReceiptInv /\ TypeOK' /\ [Next]_vars => ReceiptInv'
<1> SUFFICES ASSUME ReceiptInv, TypeOK', [Next]_vars PROVE ReceiptInv'
  OBVIOUS
<1>1. ASSUME NEW f \in Forms, NEW r \in Requests, SubmitNew(f, r) PROVE ReceiptInv'
  BY <1>1, ReceiptStutter DEF SubmitNew, storeVars
<1>2. ASSUME NEW f \in Forms, NEW r \in Requests, SubmitAgain(f, r) PROVE ReceiptInv'
  BY <1>2, ReceiptStutter DEF SubmitAgain, storeVars
<1>3. ASSUME NEW f \in Forms, NEW r \in Requests, SubmitChosen(f, r) PROVE ReceiptInv'
  BY <1>3, ReceiptStutter DEF SubmitChosen, storeVars
<1>4. ASSUME NEW f \in Forms, ConfirmRetry(f) PROVE ReceiptInv'
  BY <1>4, ReceiptStutter DEF ConfirmRetry, storeVars
<1>5. ASSUME NEW f \in Forms, DeclineRetry(f) PROVE ReceiptInv'
  BY <1>5, ReceiptStutter DEF DeclineRetry, storeVars
<1>6. ASSUME NEW f \in Forms, Receive(f) PROVE ReceiptInv'
  BY <1>6, ReceiptStutter DEF Receive, storeVars
<1>7. ASSUME NEW f \in Forms, Reload(f) PROVE ReceiptInv'
  BY <1>7, ReceiptStutter DEF Reload, storeVars
<1>8. ASSUME NEW c \in sent, Expire(c) PROVE ReceiptInv'
  BY <1>8, ReceiptStutter DEF Expire, storeVars
<1>9. ASSUME NEW c \in sent, Admit(c) PROVE ReceiptInv'
  BY <1>9, ReceiptStutter DEF Admit, storeVars
<1>10. ASSUME Begin PROVE ReceiptInv'
  BY <1>10 DEF Begin, storeVars, ReceiptInv, OneTransaction, FirstForItsId, EffectsAreReceipts
<1>11. ASSUME RefuseEarly PROVE ReceiptInv'
  BY <1>11, ReceiptStutter DEF RefuseEarly, storeVars
<1>12. ASSUME NEW t \in tx, Conflict(t) PROVE ReceiptInv'
  BY <1>12, ReceiptEnd DEF Conflict, storeVars
<1>13. ASSUME NEW t \in tx, Replay(t) PROVE ReceiptInv'
  BY <1>13, ReceiptEnd DEF Replay, storeVars
<1>14. ASSUME NEW t \in tx, Refuse(t) PROVE ReceiptInv'
  BY <1>14, ReceiptEnd DEF Refuse, storeVars
<1>15. ASSUME NEW t \in tx, Apply(t) PROVE ReceiptInv'
  <2>1. t \in Tx /\ tx' = {[t EXCEPT !.effect = TRUE]} /\ UNCHANGED <<receipts, effects>>
    BY <1>15 DEF Apply, storeVars, ReceiptInv, TypeOK
  <2>2. receipts[t.call.op] = NoRequest
    BY <1>15 DEF Apply, Unknown
  <2> QED
    BY <2>1, <2>2 DEF Tx, ReceiptInv, OneTransaction, FirstForItsId, EffectsAreReceipts
<1>16. ASSUME NEW t \in tx, WriteReceipt(t) PROVE ReceiptInv'
  <2>1. t \in Tx /\ tx' = {[t EXCEPT !.receipt = TRUE]} /\ UNCHANGED <<receipts, effects>>
    BY <1>16 DEF WriteReceipt, storeVars, ReceiptInv, TypeOK
  <2>2. t.effect /\ receipts[t.call.op] = NoRequest
    BY <1>16 DEF WriteReceipt, ReceiptInv, FirstForItsId
  <2> QED
    BY <2>1, <2>2 DEF Tx, ReceiptInv, OneTransaction, FirstForItsId, EffectsAreReceipts
<1>17. ASSUME NEW t \in tx, Commit(t) PROVE ReceiptInv'
  <2> DEFINE o == t.call.op
             r == t.call.req
  <2>1. o \in OpIds /\ r \in Requests /\ r # NoRequest
    BY MutationsAssumption DEF ReceiptInv, TypeOK, Tx, Call
  <2>2. receipts[o] = NoRequest /\ t.receipt
    BY <1>17 DEF Commit, Complete, ReceiptInv, FirstForItsId
  <2>3. /\ tx' = {}
        /\ receipts' = [receipts EXCEPT ![o] = r]
        /\ effects' = [effects EXCEPT ![<<o, r>>] = @ + 1]
    BY <1>17, <2>2 DEF Commit
  <2>4. EffectsAreReceipts'
    <3> SUFFICES ASSUME NEW p \in OpIds, NEW s \in Requests
                 PROVE  effects'[<<p, s>>] = IF receipts'[p] = s THEN 1 ELSE 0
      BY DEF EffectsAreReceipts
    <3>1. effects[<<p, s>>] = IF receipts[p] = s THEN 1 ELSE 0
      BY DEF ReceiptInv, EffectsAreReceipts
    <3>2. receipts'[p] = IF p = o THEN r ELSE receipts[p]
      BY <2>1, <2>3 DEF ReceiptInv, TypeOK
    <3>3. effects'[<<p, s>>] = IF p = o /\ s = r THEN effects[<<p, s>>] + 1 ELSE effects[<<p, s>>]
      BY <2>1, <2>3 DEF ReceiptInv, TypeOK
    <3>4. s # NoRequest
      BY MutationsAssumption
    <3> QED
      BY <2>2, <3>1, <3>2, <3>3, <3>4
  <2> QED
    BY <2>3, <2>4 DEF ReceiptInv, OneTransaction, FirstForItsId
<1>18. ASSUME Reopen PROVE ReceiptInv'
  BY <1>18, ReceiptStutter DEF Reopen, storeVars
<1>19. ASSUME NEW r \in Requests, OtherCommand(r) PROVE ReceiptInv'
  BY <1>19, ReceiptStutter DEF OtherCommand
<1>20. ASSUME Crash PROVE ReceiptInv'
  BY <1>20, ReceiptEnd DEF Crash, storeVars
<1>21. CASE UNCHANGED vars
  BY <1>21, ReceiptStutter DEF vars
<1> QED
  BY <1>1, <1>2, <1>3, <1>4, <1>5, <1>6, <1>7, <1>8, <1>9, <1>10, <1>11, <1>12,
     <1>13, <1>14, <1>15, <1>16, <1>17, <1>18, <1>19, <1>20, <1>21
     DEF Next, CoreStep, ExecutorStep

LEMMA ReceiptInvariant == Spec => []ReceiptInv
<1>1. Init => ReceiptInv
  <2>1. Init => TypeOK
    BY MutationsAssumption
       DEF Init, TypeOK, OpIds, Idle, Holding, Waiting, Call, Answer, Tx
  <2> QED
    BY <2>1, MutationsAssumption
       DEF Init, ReceiptInv, OneTransaction, FirstForItsId, EffectsAreReceipts
<1> QED
  BY <1>1, ReceiptStep, TypeCorrect, PTL DEF Spec

\* However often a request is retried, whatever answer is lost and wherever
\* the process dies, run_idempotent lets an id change the ledger at most once
\* and for one request.
THEOREM AppliedAtMostOnce == Spec => []AtMostOnce
<1>1. ReceiptInv => AtMostOnce
  BY DEF ReceiptInv, EffectsAreReceipts, AtMostOnce
<1> QED
  BY <1>1, ReceiptInvariant, PTL
----------------------------------------------------------------------------
(* The refinement: every step is a step of OnceOnly or leaves its state    *)
(* alone. A call of a PreChecked command never changes what OnceOnly sees. *)

LEMMA VerdictShown ==
    ASSUME NEW o, NEW r \in ByReceipt, NEW v, verdicts' = verdicts \cup {<<o, r, v>>}
    PROVE  Given' = Given \cup {<<o, r, v>>}
BY DEF Given, ByReceipt

LEMMA VerdictHidden ==
    ASSUME NEW o, NEW r \in PreChecked, NEW v, verdicts' = verdicts \cup {<<o, r, v>>}
    PROVE  UNCHANGED Given
BY DEF Given, ByReceipt

\* A call of a command that reads its receipt first is concluded as OnceOnly says.
LEMMA ConcludedAsPromised ==
    ASSUME ReceiptInv, NEW t \in tx, t.call.req \in ByReceipt,
           Conflict(t) \/ Replay(t) \/ Refuse(t) \/ Commit(t)
    PROVE  Promise!Next
<1> DEFINE o == t.call.op
           r == t.call.req
<1>1. o \in OpIds /\ r \in Requests /\ r # NoRequest
  BY MutationsAssumption DEF ReceiptInv, TypeOK, Tx, Call
<1>2. r \in ByReceipt /\ (Outcome[o] = r <=> receipts[o] = r)
  BY <1>1 DEF Outcome
<1>3. CASE Conflict(t)
  <2>1. UNCHANGED Outcome /\ Outcome[o] # r
    BY <1>2, <1>3 DEF Conflict, SameRequest, storeVars, Outcome
  <2>2. Given' = Given \cup {<<o, r, "rejected">>}
    BY <1>2, <1>3, VerdictShown DEF Conflict, Conclude
  <2> QED BY <1>1, <1>2, <2>1, <2>2 DEF Promise!Next, Promise!Refuse
<1>4. CASE Replay(t)
  <2>1. UNCHANGED Outcome /\ Outcome[o] = r
    BY <1>2, <1>4 DEF Replay, SameRequest, storeVars, Outcome
  <2>2. Given' = Given \cup {<<o, r, "saved">>}
    BY <1>2, <1>4, VerdictShown DEF Replay, Conclude
  <2> QED BY <1>1, <1>2, <2>1, <2>2 DEF Promise!Next, Promise!Repeat
<1>5. CASE Refuse(t)
  <2>1. UNCHANGED Outcome /\ Outcome[o] # r
    BY <1>1, <1>2, <1>5 DEF Refuse, Unknown, storeVars, Outcome
  <2>2. Given' = Given \cup {<<o, r, "rejected">>}
    BY <1>2, <1>5, VerdictShown DEF Refuse, Conclude
  <2> QED BY <1>1, <1>2, <2>1, <2>2 DEF Promise!Next, Promise!Refuse
<1>6. CASE Commit(t)
  <2>1. t.receipt /\ receipts[o] = NoRequest
    BY <1>6 DEF Commit, Complete, ReceiptInv, FirstForItsId
  <2>2. receipts' = [receipts EXCEPT ![o] = r] /\ receipts \in [OpIds -> Requests \cup {NoRequest}]
    BY <1>6, <2>1 DEF Commit, ReceiptInv, TypeOK
  <2>3. Outcome[o] = NoRequest /\ Outcome' = [Outcome EXCEPT ![o] = r]
    BY <1>1, <1>2, <2>1, <2>2 DEF Outcome
  <2>4. Given' = Given \cup {<<o, r, "saved">>}
    BY <1>2, <1>6, VerdictShown DEF Commit, Conclude
  <2> QED BY <1>1, <1>2, <2>3, <2>4 DEF Promise!Next, Promise!Take
<1> QED
  BY <1>3, <1>4, <1>5, <1>6

\* A call of a PreChecked command is out of its sight.
LEMMA PreCheckedIsHidden ==
    ASSUME ReceiptInv, NEW t \in tx, t.call.req \in PreChecked,
           Conflict(t) \/ Replay(t) \/ Refuse(t) \/ Commit(t)
    PROVE  UNCHANGED <<Outcome, Given>>
<1>1. UNCHANGED Given
  BY VerdictHidden DEF Conflict, Replay, Refuse, Commit, Conclude
<1>2. CASE Commit(t)
  <2>1. t.call.op \in OpIds /\ t.receipt /\ receipts[t.call.op] = NoRequest
    BY <1>2 DEF Commit, Complete, ReceiptInv, FirstForItsId, TypeOK, Tx, Call
  <2>2. receipts' = [receipts EXCEPT ![t.call.op] = t.call.req]
    BY <1>2, <2>1 DEF Commit
  <2>3. NoRequest \notin ByReceipt /\ t.call.req \notin ByReceipt
    BY MutationsAssumption DEF ByReceipt
  <2>4. receipts \in [OpIds -> Requests \cup {NoRequest}]
    BY DEF ReceiptInv, TypeOK
  <2> QED BY <1>1, <2>1, <2>2, <2>3, <2>4 DEF Outcome
<1>3. CASE ~Commit(t)
  BY <1>1, <1>3 DEF Conflict, Replay, Refuse, storeVars, Outcome
<1> QED
  BY <1>2, <1>3

LEMMA PromiseStep ==
    ASSUME ReceiptInv, [Next]_vars
    PROVE  [Promise!Next]_<<Outcome, Given>>
<1> DEFINE Same == UNCHANGED <<receipts, verdicts>>
           Quiet == UNCHANGED <<Outcome, Given>>
<1>0. Same => Quiet
  BY DEF Outcome, Given
<1>1. ASSUME NEW f \in Forms, NEW r \in Requests, SubmitNew(f, r) PROVE Same
  BY <1>1 DEF SubmitNew, storeVars
<1>2. ASSUME NEW f \in Forms, NEW r \in Requests, SubmitAgain(f, r) PROVE Same
  BY <1>2 DEF SubmitAgain, storeVars
<1>3. ASSUME NEW f \in Forms, NEW r \in Requests, SubmitChosen(f, r) PROVE Same
  BY <1>3 DEF SubmitChosen, storeVars
<1>4. ASSUME NEW f \in Forms, ConfirmRetry(f) PROVE Same
  BY <1>4 DEF ConfirmRetry, storeVars
<1>5. ASSUME NEW f \in Forms, DeclineRetry(f) PROVE Same
  BY <1>5 DEF DeclineRetry, storeVars
<1>6. ASSUME NEW f \in Forms, Receive(f) PROVE Same
  BY <1>6 DEF Receive, storeVars
<1>7. ASSUME NEW f \in Forms, Reload(f) PROVE Same
  BY <1>7 DEF Reload, storeVars
<1>8. ASSUME NEW c \in sent, Expire(c) \/ Admit(c) PROVE Same
  BY <1>8 DEF Expire, Admit, storeVars
<1>9. ASSUME Begin PROVE Same
  BY <1>9 DEF Begin, storeVars
<1>10. ASSUME RefuseEarly PROVE Quiet
  <2>1. Head(queue).req \in PreChecked
    BY <1>10 DEF RefuseEarly
  <2>2. UNCHANGED Given
    BY <1>10, <2>1, VerdictHidden DEF RefuseEarly, Conclude
  <2> QED BY <1>10, <2>2 DEF RefuseEarly, storeVars, Outcome
<1>11. ASSUME NEW t \in tx, Conflict(t) \/ Replay(t) \/ Refuse(t) \/ Commit(t)
       PROVE  Promise!Next \/ Quiet
  <2>1. t.call.req \in ByReceipt \/ t.call.req \in PreChecked
    BY DEF ReceiptInv, TypeOK, Tx, Call, ByReceipt
  <2> QED
    BY <1>11, <2>1, ConcludedAsPromised, PreCheckedIsHidden
<1>12. ASSUME NEW t \in tx, Apply(t) \/ WriteReceipt(t) PROVE Same
  BY <1>12 DEF Apply, WriteReceipt, storeVars
<1>13. ASSUME Reopen PROVE Same
  BY <1>13 DEF Reopen, storeVars
<1>14. ASSUME NEW r \in Requests, OtherCommand(r) PROVE Same
  BY <1>14 DEF OtherCommand
<1>15. ASSUME Crash PROVE Same
  BY <1>15 DEF Crash, storeVars
<1>16. ASSUME UNCHANGED vars PROVE Same
  BY <1>16 DEF vars
<1>17. Promise!Next \/ Quiet
  BY <1>0, <1>1, <1>2, <1>3, <1>4, <1>5, <1>6, <1>7, <1>8, <1>9, <1>10, <1>11, <1>12,
     <1>13, <1>14, <1>15, <1>16 DEF Next, CoreStep, ExecutorStep
<1> QED
  BY <1>17

\* For every command that reads its receipt first, the whole path from form to
\* ledger keeps the promise of OnceOnly, whatever the other commands do.
THEOREM Refinement == Spec => ImplementsOnceOnly
<1>1. Init => Promise!Init
  <2>1. Init => Outcome = [o \in OpIds |-> NoRequest]
    BY MutationsAssumption DEF Init, Outcome, ByReceipt
  <2>2. Init => Given = {}
    BY DEF Init, Given
  <2> QED BY <2>1, <2>2 DEF Promise!Init
<1>2. ReceiptInv /\ [Next]_vars => [Promise!Next]_<<Outcome, Given>>
  BY PromiseStep
<1> QED
  BY <1>1, <1>2, ReceiptInvariant, PTL
     DEF Spec, ImplementsOnceOnly, Promise!Spec, Promise!vars

----------------------------------------------------------------------------
(* What a form is told. The verdict follows the call, by its number, from  *)
(* the form through the queue and the transaction and back.                *)

Calls == sent \cup {queue[i] : i \in DOMAIN queue} \cup {t.call : t \in tx}

CallsAreNumbered ==
    /\ \A f \in Forms : form[f].phase = "waiting" => form[f].call <= calls
    /\ \A c \in Calls : c.id <= calls
    /\ \A a \in answers : a.id <= calls

CallsMatchForms ==
    \A f \in Forms : form[f].phase = "waiting" =>
        \A c \in Calls : c.id = form[f].call => c.op = form[f].op /\ c.req = form[f].req

AnswersAreTrue ==
    \A f \in Forms : form[f].phase = "waiting" =>
        \A a \in answers : a.id = form[f].call /\ a.verdict = "saved"
                           => receipts[form[f].op] = form[f].req

ToldIsTrue ==
    \A o \in OpIds, r \in Requests : <<r, "saved">> \in told[o] => receipts[o] = r

AnswerInv == ReceiptInv /\ CallsAreNumbered /\ CallsMatchForms /\ AnswersAreTrue /\ ToldIsTrue
\* An append, or taking the head, moves a call and invents none.
LEMMA CallsAfterAdmit ==
    ASSUME TypeOK, NEW c \in sent, Admit(c) PROVE Calls' \subseteq Calls
<1>1. queue \in Seq(Call) /\ c \in Call /\ queue' = Append(queue, c) /\ sent' \subseteq sent /\ tx' = tx
  BY DEF TypeOK, Admit
<1>2. /\ DOMAIN queue = 1..Len(queue) /\ DOMAIN queue' = 1..(Len(queue) + 1)
      /\ Len(queue) \in Nat
      /\ \A i \in 1..Len(queue) : queue'[i] = queue[i]
      /\ queue'[Len(queue) + 1] = c
  BY <1>1, AppendProperties
<1>3. \A i \in DOMAIN queue' : i \in DOMAIN queue \/ i = Len(queue) + 1
  BY <1>2
<1> QED
  BY <1>1, <1>2, <1>3 DEF Calls

LEMMA CallsAfterHead ==
    ASSUME TypeOK, queue # <<>>, queue' = Tail(queue), sent' = sent,
           \A t \in tx' : t.call = Head(queue)
    PROVE  Calls' \subseteq Calls
<1>1. queue \in Seq(Call)
  BY DEF TypeOK
<1>2. /\ DOMAIN queue = 1..Len(queue) /\ Len(queue) \in Nat /\ Len(queue) # 0
      /\ DOMAIN queue' = 1..(Len(queue) - 1)
      /\ \A i \in 1..(Len(queue) - 1) : queue'[i] = queue[i + 1]
      /\ Head(queue) = queue[1]
  BY <1>1, HeadTailProperties, EmptySeq
<1>3. 1 \in DOMAIN queue /\ \A i \in DOMAIN queue' : i + 1 \in DOMAIN queue
  BY <1>2
<1> QED
  BY <1>2, <1>3 DEF Calls

\* A step of the core gives at most one answer, to a call it knows, and only
\* adds receipts.
LEMMA CoreKeepsAnswers ==
    ASSUME AnswerInv, ReceiptInv', NEW c \in Calls, NEW v \in {"saved", "rejected", "expired"},
           Calls' \subseteq Calls, UNCHANGED <<form, calls, told>>,
           \A o \in OpIds : receipts[o] # NoRequest => receipts'[o] = receipts[o],
           answers' = answers \/ Reply(c, v),
           v = "saved" => receipts'[c.op] = c.req
    PROVE  AnswerInv'
<1> USE DEF AnswerInv
<1>0. \A r \in Requests : r # NoRequest
  BY MutationsAssumption
<1>1. CallsAreNumbered'
  BY DEF CallsAreNumbered, Reply
<1>2. CallsMatchForms'
  BY DEF CallsMatchForms
<1>3. AnswersAreTrue'
  <2> SUFFICES ASSUME NEW f \in Forms, form[f].phase = "waiting",
                      NEW a \in answers', a.id = form[f].call, a.verdict = "saved"
               PROVE  receipts'[form[f].op] = form[f].req
    BY DEF AnswersAreTrue
  <2>1. form[f].op \in OpIds /\ form[f].req \in Requests
    BY DEF ReceiptInv, TypeOK, Idle, Holding, Waiting
  <2>2. CASE a \in answers
    BY <1>0, <2>1, <2>2 DEF AnswersAreTrue
  <2>3. CASE a = [id |-> c.id, verdict |-> v]
    <3>1. c.op = form[f].op /\ c.req = form[f].req
      BY <2>3 DEF CallsMatchForms
    <3> QED BY <2>3, <3>1
  <2> QED
    BY <2>2, <2>3 DEF Reply
<1>4. ToldIsTrue'
  BY <1>0 DEF ToldIsTrue
<1> QED
  BY <1>1, <1>2, <1>3, <1>4

\* A form that leaves its call, with or without an answer.
LEMMA FormLeaves ==
    ASSUME AnswerInv, ReceiptInv', NEW f \in Forms,
           \E h \in {Idle} \cup Holding : form' = [form EXCEPT ![f] = h],
           UNCHANGED <<calls, sent, queue, tx, receipts>>,
           answers' \subseteq answers, ToldIsTrue'
    PROVE  AnswerInv'
<1>1. \A g \in Forms : form'[g].phase = "waiting" => form'[g] = form[g]
  BY DEF AnswerInv, ReceiptInv, TypeOK, Idle, Holding
<1>2. Calls' = Calls
  BY DEF Calls
<1> QED
  BY <1>1, <1>2 DEF AnswerInv, CallsAreNumbered, CallsMatchForms, AnswersAreTrue

\* A new call has a number nothing else has.
LEMMA FormSends ==
    ASSUME AnswerInv, ReceiptInv', NEW f \in Forms, NEW o \in OpIds, NEW r \in Requests,
           NEW g \in 0..MaxReopens, Send(f, o, r, g),
           UNCHANGED <<queue, tx, receipts, answers, told>>
    PROVE  AnswerInv'
<1> DEFINE n == calls + 1
           new == [id |-> n, op |-> o, req |-> r, gen |-> g]
<1>1. /\ calls \in Nat /\ calls' = n
      /\ form' = [form EXCEPT ![f] = [phase |-> "waiting", req |-> r, op |-> o, call |-> n]]
      /\ sent' = sent \cup {new}
  BY MutationsAssumption DEF Send, AnswerInv, ReceiptInv, TypeOK
<1>2. Calls' = Calls \cup {new}
  BY <1>1 DEF Calls
<1>3. form \in [Forms -> {Idle} \cup Holding \cup Waiting]
  BY DEF AnswerInv, ReceiptInv, TypeOK
<1>4. /\ form'[f].phase = "waiting" /\ form'[f].call = n /\ form'[f].op = o /\ form'[f].req = r
      /\ \A h \in Forms \ {f} : form'[h] = form[h]
  BY <1>1, <1>3
<1>5. /\ \A c \in Calls : c.id <= calls /\ c.id \in Nat
      /\ \A a \in answers : a.id <= calls /\ a.id \in Nat
      /\ \A h \in Forms : form[h].phase = "waiting" => form[h].call <= calls /\ form[h].call \in Nat
  <2>1. Calls \subseteq Call /\ answers \subseteq Answer
    BY DEF Calls, AnswerInv, ReceiptInv, TypeOK, Tx
  <2> QED
    BY <1>3, <2>1, MutationsAssumption
       DEF AnswerInv, CallsAreNumbered, Call, Answer, Waiting, Holding, Idle
<1>6. CallsAreNumbered'
  BY <1>1, <1>2, <1>4, <1>5 DEF CallsAreNumbered
<1>7. CallsMatchForms'
  <2> SUFFICES ASSUME NEW h \in Forms, form'[h].phase = "waiting", NEW c \in Calls',
                      c.id = form'[h].call
               PROVE  c.op = form'[h].op /\ c.req = form'[h].req
    BY DEF CallsMatchForms
  <2>1. CASE h = f
    BY <1>1, <1>2, <1>4, <1>5, <2>1
  <2>2. CASE h # f
    BY <1>1, <1>2, <1>4, <1>5, <2>2 DEF AnswerInv, CallsMatchForms
  <2> QED
    BY <2>1, <2>2
<1>8. AnswersAreTrue'
  BY <1>1, <1>4, <1>5 DEF AnswerInv, AnswersAreTrue
<1>9. ToldIsTrue'
  BY DEF AnswerInv, ToldIsTrue
<1> QED
  BY <1>6, <1>7, <1>8, <1>9 DEF AnswerInv
LEMMA AnswerStep == AnswerInv /\ ReceiptInv' /\ [Next]_vars => AnswerInv'
<1> SUFFICES ASSUME AnswerInv, ReceiptInv', [Next]_vars PROVE AnswerInv'
  OBVIOUS
<1>0. TypeOK /\ TypeOK' /\ ToldIsTrue /\ (\A r \in Requests : r # NoRequest)
  BY MutationsAssumption DEF AnswerInv, ReceiptInv
<1>1. ASSUME NEW f \in Forms, NEW r \in Requests, SubmitNew(f, r) PROVE AnswerInv'
  <2>1. minted + 1 \in OpIds /\ generation \in 0..MaxReopens
    BY <1>0, <1>1, MutationsAssumption DEF SubmitNew, TypeOK, OpIds
  <2> QED
    BY <1>1, <2>1, FormSends DEF SubmitNew, storeVars
<1>2. ASSUME NEW f \in Forms, NEW r \in Requests, SubmitAgain(f, r) PROVE AnswerInv'
  <2>1. \E h \in Holding : form' = [form EXCEPT ![f] = h]
    BY <1>0, <1>2 DEF SubmitAgain, TypeOK, Holding
  <2>2. ToldIsTrue'
    BY <1>0, <1>2 DEF SubmitAgain, storeVars, ToldIsTrue
  <2> QED
    BY <1>2, <2>1, <2>2, FormLeaves DEF SubmitAgain, storeVars
<1>3. ASSUME NEW f \in Forms, NEW r \in Requests, SubmitChosen(f, r) PROVE AnswerInv'
  <2>1. ChosenId \in OpIds /\ generation \in 0..MaxReopens
    BY <1>0, MutationsAssumption DEF TypeOK, OpIds, ChosenId
  <2> QED
    BY <1>3, <2>1, FormSends DEF SubmitChosen, storeVars
<1>4. ASSUME NEW f \in Forms, ConfirmRetry(f) PROVE AnswerInv'
  <2>1. form[f].op \in OpIds /\ form[f].req \in Requests /\ form[f].gen \in 0..MaxReopens
    BY <1>0, <1>4 DEF ConfirmRetry, TypeOK, Idle, Holding, Waiting
  <2> QED
    BY <1>4, <2>1, FormSends DEF ConfirmRetry, storeVars
<1>5. ASSUME NEW f \in Forms, DeclineRetry(f) PROVE AnswerInv'
  <2>1. ToldIsTrue'
    BY <1>0, <1>5 DEF DeclineRetry, storeVars, ToldIsTrue
  <2> QED
    BY <1>5, <2>1, FormLeaves DEF DeclineRetry, storeVars
<1>6. ASSUME NEW f \in Forms, Receive(f) PROVE AnswerInv'
  <2>1. PICK a \in answers :
          /\ form[f].phase = "waiting" /\ form[f].call = a.id
          /\ told' = [told EXCEPT ![form[f].op] = @ \cup {<<form[f].req, a.verdict>>}]
          /\ answers' = answers \ {a} /\ form' = [form EXCEPT ![f] = Idle]
          /\ UNCHANGED <<calls, sent, queue, tx, storeVars>>
    BY <1>6 DEF Receive
  <2>2. form[f].op \in OpIds /\ (a.verdict = "saved" => receipts[form[f].op] = form[f].req)
    BY <1>0, <2>1 DEF TypeOK, Idle, Holding, Waiting, AnswerInv, AnswersAreTrue
  <2>3. ToldIsTrue'
    <3> SUFFICES ASSUME NEW o \in OpIds, NEW r \in Requests, <<r, "saved">> \in told'[o]
                 PROVE  receipts[o] = r
      BY <2>1 DEF ToldIsTrue, storeVars
    <3>1. <<r, "saved">> \in told[o] \/ (o = form[f].op /\ r = form[f].req /\ a.verdict = "saved")
      BY <1>0, <2>1, <2>2 DEF TypeOK
    <3> QED
      BY <1>0, <2>2, <3>1 DEF ToldIsTrue
  <2> QED
    BY <2>1, <2>3, FormLeaves DEF storeVars
<1>7. ASSUME NEW f \in Forms, Reload(f) PROVE AnswerInv'
  <2>1. ToldIsTrue'
    BY <1>0, <1>7 DEF Reload, storeVars, ToldIsTrue
  <2> QED
    BY <1>7, <2>1, FormLeaves DEF Reload, storeVars
<1>8. ASSUME NEW c \in sent, Expire(c) PROVE AnswerInv'
  <2>1. c \in Calls /\ Calls' \subseteq Calls
    BY <1>8 DEF Expire, Calls
  <2> QED
    BY <1>8, <2>1, CoreKeepsAnswers DEF Expire, clientVars, storeVars
<1>9. ASSUME NEW c \in sent, Admit(c) PROVE AnswerInv'
  <2>1. c \in Calls /\ Calls' \subseteq Calls
    BY <1>0, <1>9, CallsAfterAdmit DEF Calls
  <2> QED
    BY <1>9, <2>1, CoreKeepsAnswers DEF Admit, clientVars, storeVars
<1>10. ASSUME Begin PROVE AnswerInv'
  <2>1. Calls' \subseteq Calls /\ Head(queue) \in Calls
    <3>1. Head(queue) = queue[1] /\ 1 \in DOMAIN queue
      BY <1>0, <1>10, HeadTailProperties, EmptySeq DEF TypeOK, Begin
    <3>2. \A t \in tx' : t.call = Head(queue)
      BY <1>10 DEF Begin
    <3> QED
      BY <1>0, <1>10, <3>1, <3>2, CallsAfterHead DEF Begin, Calls
  <2> QED
    BY <1>10, <2>1, CoreKeepsAnswers DEF Begin, clientVars, storeVars
<1>11. ASSUME RefuseEarly PROVE AnswerInv'
  <2>1. Calls' \subseteq Calls /\ Head(queue) \in Calls
    <3>1. Head(queue) = queue[1] /\ 1 \in DOMAIN queue
      BY <1>0, <1>11, HeadTailProperties, EmptySeq DEF TypeOK, RefuseEarly
    <3>2. tx' = {}
      BY <1>11 DEF RefuseEarly
    <3> QED
      BY <1>0, <1>11, <3>1, <3>2, CallsAfterHead DEF RefuseEarly, Calls
  <2> QED
    BY <1>11, <2>1, CoreKeepsAnswers DEF RefuseEarly, Conclude, clientVars, storeVars
<1>12. ASSUME NEW t \in tx, Conflict(t) \/ Refuse(t) PROVE AnswerInv'
  <2>1. t.call \in Calls /\ Calls' \subseteq Calls
    BY <1>12 DEF Conflict, Refuse, Calls
  <2> QED
    BY <1>12, <2>1, CoreKeepsAnswers DEF Conflict, Refuse, Conclude, clientVars, storeVars
<1>13. ASSUME NEW t \in tx, Replay(t) PROVE AnswerInv'
  <2>1. t.call \in Calls /\ Calls' \subseteq Calls
    BY <1>13 DEF Replay, Calls
  <2> QED
    BY <1>13, <2>1, CoreKeepsAnswers DEF Replay, SameRequest, Conclude, clientVars, storeVars
<1>14. ASSUME NEW t \in tx, Apply(t) \/ WriteReceipt(t) PROVE AnswerInv'
  <2>1. t.call \in Calls /\ Calls' \subseteq Calls
    <3>1. t \in Tx /\ \A u \in tx' : u.call = t.call
      BY <1>0, <1>14 DEF Apply, WriteReceipt, TypeOK, Tx
    <3> QED BY <1>14, <3>1 DEF Apply, WriteReceipt, Calls
  <2> QED
    BY <1>14, <2>1, CoreKeepsAnswers DEF Apply, WriteReceipt, clientVars, storeVars
<1>15. ASSUME NEW t \in tx, Commit(t) PROVE AnswerInv'
  <2>1. t.call \in Calls /\ Calls' \subseteq Calls
    BY <1>15 DEF Commit, Calls
  <2>2. t.call.op \in OpIds /\ receipts[t.call.op] = NoRequest /\ t.receipt
    BY <1>0, <1>15 DEF Commit, Complete, TypeOK, Tx, Call, AnswerInv, ReceiptInv, FirstForItsId
  <2>3. receipts' = [receipts EXCEPT ![t.call.op] = t.call.req]
    BY <1>15, <2>2 DEF Commit
  <2>4. /\ receipts'[t.call.op] = t.call.req
        /\ \A o \in OpIds : receipts[o] # NoRequest => receipts'[o] = receipts[o]
    BY <1>0, <2>2, <2>3 DEF TypeOK
  <2> QED
    BY <1>15, <2>1, <2>4, CoreKeepsAnswers DEF Commit, Conclude, clientVars
<1>16. ASSUME Reopen PROVE AnswerInv'
  <2>1. Calls' = Calls
    BY <1>16 DEF Reopen, Calls
  <2> QED
    BY <1>16, <2>1 DEF Reopen, clientVars, storeVars, AnswerInv, CallsAreNumbered,
                       CallsMatchForms, AnswersAreTrue, ToldIsTrue
<1>17. ASSUME NEW r \in Requests, OtherCommand(r) PROVE AnswerInv'
  <2>1. Calls' = Calls
    BY <1>17 DEF OtherCommand, Calls
  <2> QED
    BY <1>17, <2>1 DEF OtherCommand, clientVars, AnswerInv, CallsAreNumbered,
                       CallsMatchForms, AnswersAreTrue, ToldIsTrue
<1>18. ASSUME Crash PROVE AnswerInv'
  <2>1. Calls' = {}
    BY <1>18 DEF Crash, Calls
  <2> QED
    BY <1>18, <2>1 DEF Crash, Idle, storeVars, AnswerInv, CallsAreNumbered,
                       CallsMatchForms, AnswersAreTrue, ToldIsTrue
<1>19. CASE UNCHANGED vars
  <2>1. Calls' = Calls
    BY <1>19 DEF vars, Calls
  <2> QED
    BY <1>19, <2>1 DEF vars, AnswerInv, CallsAreNumbered, CallsMatchForms,
                       AnswersAreTrue, ToldIsTrue
<1> QED
  BY <1>1, <1>2, <1>3, <1>4, <1>5, <1>6, <1>7, <1>8, <1>9, <1>10, <1>11, <1>12,
     <1>13, <1>14, <1>15, <1>16, <1>17, <1>18, <1>19 DEF Next, CoreStep, ExecutorStep

\* A form that hears "saved" can rely on it: the rows of the request it sent
\* are in the ledger, and no crash or later call removes them from there.
THEOREM SavedStaysSaved == Spec => []SavedIsDurable
<1>1. Init => CallsAreNumbered /\ CallsMatchForms /\ AnswersAreTrue /\ ToldIsTrue
  BY DEF Init, Idle, Calls, CallsAreNumbered, CallsMatchForms, AnswersAreTrue, ToldIsTrue
<1>2. AnswerInv => SavedIsDurable
  BY DEF AnswerInv, ReceiptInv, EffectsAreReceipts, ToldIsTrue, SavedIsDurable
<1>3. ReceiptInv /\ CallsAreNumbered /\ CallsMatchForms /\ AnswersAreTrue /\ ToldIsTrue => AnswerInv
  BY DEF AnswerInv
<1> QED
  BY <1>1, <1>2, <1>3, AnswerStep, ReceiptInvariant, PTL DEF Spec

----------------------------------------------------------------------------
(* What keeps the marker. An intent that was ever sent is marked or has    *)
(* been answered definitively, and no step takes that from it: the one     *)
(* step that removes a marker tells the form why.                          *)

Marked(o, r) ==
    o = ChosenId \/ o \in pending[r] \/ <<r, "saved">> \in told[o] \/ <<r, "rejected">> \in told[o]

CallsAreMarked == \A c \in Calls : Marked(c.op, c.req)
ReceiptsAreMarked == \A o \in OpIds, r \in Requests : receipts[o] = r => Marked(o, r)
MarkerInv == ReceiptInv /\ CallsAreMarked /\ ReceiptsAreMarked

LEMMA MarkedStays ==
    ASSUME TypeOK, [Next]_vars, NEW o \in OpIds, NEW r \in Requests, Marked(o, r)
    PROVE  Marked(o, r)'
<1> USE DEF Marked
<1>0. pending \in [Requests -> SUBSET OpIds]
  BY DEF TypeOK
<1>1. ASSUME NEW f \in Forms, NEW s \in Requests, SubmitNew(f, s) PROVE Marked(o, r)'
  BY <1>0, <1>1 DEF SubmitNew
<1>2. ASSUME NEW f \in Forms, ConfirmRetry(f) PROVE Marked(o, r)'
  BY <1>0, <1>2 DEF ConfirmRetry
<1>3. ASSUME NEW f \in Forms, Receive(f) PROVE Marked(o, r)'
  <2>1. PICK a \in answers :
          /\ form[f].phase = "waiting"
          /\ pending' = IF Definitive(a.verdict) /\ form[f].op # ChosenId
                        THEN [pending EXCEPT ![form[f].req] = @ \ {form[f].op}]
                        ELSE pending
          /\ told' = [told EXCEPT ![form[f].op] = @ \cup {<<form[f].req, a.verdict>>}]
    BY <1>3 DEF Receive
  <2>2. form[f].op \in OpIds /\ form[f].req \in Requests
    BY <2>1 DEF TypeOK, Idle, Holding, Waiting
  <2>3. a.verdict \in {"saved", "rejected", "expired"}
    BY DEF TypeOK, Answer
  <2>4. told[o] \subseteq told'[o]
    BY <2>1 DEF TypeOK
  <2>5. CASE o \in pending[r] /\ o \notin pending'[r]
    <3>1. Definitive(a.verdict) /\ form[f].req = r /\ form[f].op = o
      BY <1>0, <2>1, <2>5
    <3>2. a.verdict \in {"saved", "rejected"}
      BY <2>3, <3>1 DEF Definitive
    <3>3. <<r, a.verdict>> \in told'[o]
      BY <2>1, <2>2, <3>1 DEF TypeOK
    <3> QED
      BY <3>2, <3>3
  <2> QED
    BY <2>4, <2>5
<1>4. ASSUME UNCHANGED <<pending, told>> PROVE Marked(o, r)'
  BY <1>4
<1>5. \/ UNCHANGED <<pending, told>>
      \/ \E f \in Forms : ConfirmRetry(f) \/ Receive(f)
      \/ \E f \in Forms, s \in Requests : SubmitNew(f, s)
  BY DEF Next, vars, CoreStep, ExecutorStep, SubmitAgain, SubmitChosen, DeclineRetry, Reload,
         Expire, Admit, Reopen, Begin, RefuseEarly, Conflict, Replay, Refuse, Apply, WriteReceipt,
         Commit, OtherCommand, Crash, clientVars
<1> QED
  BY <1>1, <1>2, <1>3, <1>4, <1>5

\* A step that issues no call and writes no receipt.
LEMMA MarkerKept ==
    ASSUME MarkerInv, ReceiptInv', [Next]_vars, Calls' \subseteq Calls,
           \A o \in OpIds, r \in Requests :
               receipts'[o] = r => receipts[o] = r \/ \E c \in Calls : c.op = o /\ c.req = r
    PROVE  MarkerInv'
<1>1. \A c \in Calls : c.op \in OpIds /\ c.req \in Requests
  <2>1. Calls \subseteq Call
    BY DEF MarkerInv, ReceiptInv, TypeOK, Calls, Tx
  <2> QED BY <2>1 DEF Call
<1>2. TypeOK
  BY DEF MarkerInv, ReceiptInv
<1>3. CallsAreMarked'
  <2> SUFFICES ASSUME NEW c \in Calls PROVE Marked(c.op, c.req)'
    BY DEF CallsAreMarked
  <2>1. Marked(c.op, c.req)
    BY DEF MarkerInv, CallsAreMarked
  <2> QED BY <1>1, <1>2, <2>1, MarkedStays
<1>4. ReceiptsAreMarked'
  <2> SUFFICES ASSUME NEW o \in OpIds, NEW r \in Requests, receipts'[o] = r
               PROVE  Marked(o, r)'
    BY DEF ReceiptsAreMarked
  <2>1. Marked(o, r)
    BY DEF MarkerInv, CallsAreMarked, ReceiptsAreMarked
  <2> QED BY <1>2, <2>1, MarkedStays
<1> QED
  BY <1>3, <1>4 DEF MarkerInv

\* A call is sent with its marker written, or with an id its caller chose.
LEMMA MarkedIsSent ==
    ASSUME MarkerInv, ReceiptInv', [Next]_vars, NEW f \in Forms, NEW o \in OpIds,
           NEW r \in Requests, NEW g \in 0..MaxReopens, Send(f, o, r, g), Marked(o, r)',
           UNCHANGED <<queue, tx, receipts>>
    PROVE  MarkerInv'
<1> DEFINE new == [id |-> calls + 1, op |-> o, req |-> r, gen |-> g]
<1>1. Calls' = Calls \cup {new} /\ new.op = o /\ new.req = r
  BY DEF Send, Calls
<1> HIDE DEF new
<1>2. \A c \in Calls : c.op \in OpIds /\ c.req \in Requests
  <2>1. Calls \subseteq Call
    BY DEF MarkerInv, ReceiptInv, TypeOK, Calls, Tx
  <2> QED BY <2>1 DEF Call
<1>3. TypeOK
  BY DEF MarkerInv, ReceiptInv
<1>4. CallsAreMarked'
  <2> SUFFICES ASSUME NEW c \in Calls' PROVE Marked(c.op, c.req)'
    BY DEF CallsAreMarked
  <2>1. CASE c \in Calls
    BY <1>2, <1>3, <2>1, MarkedStays DEF MarkerInv, CallsAreMarked
  <2>2. CASE c = new
    BY <1>1, <2>2
  <2> QED BY <1>1, <2>1, <2>2
<1>5. ReceiptsAreMarked'
  <2> SUFFICES ASSUME NEW p \in OpIds, NEW s \in Requests, receipts[p] = s
               PROVE  Marked(p, s)'
    BY DEF ReceiptsAreMarked
  <2>1. Marked(p, s)
    BY DEF MarkerInv, ReceiptsAreMarked
  <2> QED BY <1>3, <2>1, MarkedStays
<1> QED
  BY <1>4, <1>5 DEF MarkerInv

LEMMA MarkerStep == MarkerInv /\ ReceiptInv' /\ [Next]_vars => MarkerInv'
<1> SUFFICES ASSUME MarkerInv, ReceiptInv', [Next]_vars PROVE MarkerInv'
  OBVIOUS
<1>0. TypeOK
  BY DEF MarkerInv, ReceiptInv
<1>1. ASSUME NEW f \in Forms, NEW r \in Requests, SubmitNew(f, r) PROVE MarkerInv'
  <2>1. minted + 1 \in OpIds /\ generation \in 0..MaxReopens
    BY <1>0, <1>1, MutationsAssumption DEF SubmitNew, TypeOK, OpIds
  <2>2. \E o \in OpIds, g \in 0..MaxReopens : o \in pending'[r] /\ Send(f, o, r, g)
    BY <1>0, <1>1, <2>1 DEF SubmitNew, TypeOK
  <2>3. ASSUME NEW o \in OpIds, NEW g \in 0..MaxReopens, o \in pending'[r], Send(f, o, r, g)
        PROVE  MarkerInv'
    BY <1>1, <2>3, MarkedIsSent DEF Marked, SubmitNew, storeVars
  <2> QED
    BY <2>2, <2>3
<1>2. ASSUME NEW f \in Forms, NEW r \in Requests, SubmitChosen(f, r) PROVE MarkerInv'
  <2>1. ChosenId \in OpIds /\ generation \in 0..MaxReopens /\ Marked(ChosenId, r)'
    BY <1>0, MutationsAssumption DEF TypeOK, OpIds, ChosenId, Marked
  <2> QED
    BY <1>2, <2>1, MarkedIsSent DEF SubmitChosen, storeVars
<1>3. ASSUME NEW f \in Forms, ConfirmRetry(f) PROVE MarkerInv'
  <2>1. form[f].op \in OpIds /\ form[f].req \in Requests /\ form[f].gen \in 0..MaxReopens
    BY <1>0, <1>3 DEF ConfirmRetry, TypeOK, Idle, Holding, Waiting
  <2>2. pending' = [pending EXCEPT ![form[f].req] = @ \cup {form[f].op}]
        /\ Send(f, form[f].op, form[f].req, form[f].gen)
    BY <1>3 DEF ConfirmRetry
  <2>3. form[f].op \in pending'[form[f].req]
    BY <1>0, <2>1, <2>2 DEF TypeOK
  <2>4. UNCHANGED <<queue, tx, receipts>>
    BY <1>3 DEF ConfirmRetry, storeVars
  <2>5. \E p \in OpIds, s \in Requests, e \in 0..MaxReopens : p \in pending'[s] /\ Send(f, p, s, e)
    BY <2>1, <2>2, <2>3
  <2>6. ASSUME NEW p \in OpIds, NEW s \in Requests, NEW e \in 0..MaxReopens,
               p \in pending'[s], Send(f, p, s, e)
        PROVE  MarkerInv'
    BY <2>4, <2>6, MarkedIsSent DEF Marked
  <2> QED
    BY <2>5, <2>6
<1>4. ASSUME UNCHANGED <<sent, queue, tx, receipts>> PROVE MarkerInv'
  BY <1>4, MarkerKept DEF Calls
<1>5. ASSUME NEW c \in sent, Expire(c) PROVE MarkerInv'
  <2>1. Calls' \subseteq Calls
    BY <1>5 DEF Expire, Calls
  <2> QED
    BY <1>5, <2>1, MarkerKept DEF Expire, storeVars
<1>6. ASSUME NEW c \in sent, Admit(c) PROVE MarkerInv'
  BY <1>0, <1>6, CallsAfterAdmit, MarkerKept DEF Admit, storeVars
<1>7. ASSUME Begin \/ RefuseEarly PROVE MarkerInv'
  <2>1. /\ queue # <<>> /\ queue' = Tail(queue) /\ sent' = sent /\ receipts' = receipts
        /\ \A t \in tx' : t.call = Head(queue)
    BY <1>7 DEF Begin, RefuseEarly, storeVars
  <2> QED
    BY <1>0, <2>1, CallsAfterHead, MarkerKept
<1>8. ASSUME NEW t \in tx, Conflict(t) \/ Replay(t) \/ Refuse(t) PROVE MarkerInv'
  <2>1. Calls' \subseteq Calls /\ receipts' = receipts
    BY <1>8 DEF Conflict, Replay, Refuse, Calls, storeVars
  <2> QED
    BY <2>1, MarkerKept
<1>9. ASSUME NEW t \in tx, Apply(t) \/ WriteReceipt(t) PROVE MarkerInv'
  <2>1. t \in Tx /\ \A u \in tx' : u.call = t.call
    BY <1>0, <1>9 DEF Apply, WriteReceipt, TypeOK, Tx
  <2>2. Calls' \subseteq Calls /\ receipts' = receipts
    BY <1>9, <2>1 DEF Apply, WriteReceipt, Calls, storeVars
  <2> QED
    BY <2>2, MarkerKept
<1>10. ASSUME NEW t \in tx, Commit(t) PROVE MarkerInv'
  <2>1. Calls' \subseteq Calls /\ t.call \in Calls
    BY <1>10 DEF Commit, Calls
  <2>2. receipts' = [receipts EXCEPT ![t.call.op] = t.call.req] \/ receipts' = receipts
    BY <1>10 DEF Commit
  <2>3. \A o \in OpIds : receipts'[o] = receipts[o] \/ (o = t.call.op /\ receipts'[o] = t.call.req)
    BY <1>0, <2>2 DEF TypeOK
  <2> QED
    BY <2>1, <2>3, MarkerKept
<1>11. ASSUME Crash PROVE MarkerInv'
  <2>1. Calls' = {} /\ receipts' = receipts
    BY <1>11 DEF Crash, Calls, storeVars
  <2> QED
    BY <2>1, MarkerKept
<1>12. \/ UNCHANGED <<sent, queue, tx, receipts>>
       \/ \E f \in Forms, r \in Requests : SubmitNew(f, r) \/ SubmitChosen(f, r)
       \/ \E f \in Forms : ConfirmRetry(f)
       \/ \E c \in sent : Expire(c) \/ Admit(c)
       \/ Begin \/ RefuseEarly \/ Crash
       \/ \E t \in tx : Conflict(t) \/ Replay(t) \/ Refuse(t) \/ Apply(t) \/ WriteReceipt(t) \/ Commit(t)
  BY DEF Next, vars, CoreStep, ExecutorStep, SubmitAgain, DeclineRetry, Receive, Reload,
         Reopen, OtherCommand, storeVars
<1> QED
  BY <1>1, <1>2, <1>3, <1>4, <1>5, <1>6, <1>7, <1>8, <1>9, <1>10, <1>11, <1>12

\* An effect nobody was told of keeps its marker, whatever reloads, crashes,
\* expires or is retried: the user is asked before entering the request again.
THEOREM SilentEffectIsMarked == Spec => []SilentEffectKeepsMarker
<1>1. Init => CallsAreMarked /\ ReceiptsAreMarked
  BY MutationsAssumption DEF Init, Calls, CallsAreMarked, ReceiptsAreMarked
<1>2. MarkerInv => SilentEffectKeepsMarker
  BY DEF MarkerInv, ReceiptInv, EffectsAreReceipts, ReceiptsAreMarked, Marked,
         SilentEffectKeepsMarker
<1>3. ReceiptInv /\ CallsAreMarked /\ ReceiptsAreMarked => MarkerInv
  BY DEF MarkerInv
<1> QED
  BY <1>1, <1>2, <1>3, MarkerStep, ReceiptInvariant, PTL DEF Spec
=============================================================================
