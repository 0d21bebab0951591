------------------------------- MODULE Ledger -------------------------------
(***************************************************************************)
(* The ledger of one profile: accounts, transactions in the single-row     *)
(* transfer model, refunds, reconciliation, write-offs and the goals that  *)
(* hold an account (accounts.rs, transactions.rs, balance.rs,              *)
(* reconciliations.rs, debts.rs, goals.rs), with the CHECKs of the schema. *)
(*                                                                         *)
(* Every operation is one receipt transaction on the only connection, so   *)
(* an action is a whole command, and one that is refused changes nothing.  *)
(* Abstractions: a date is today or later or tomorrow; a tag is there or   *)
(* not; payees and descriptions are left out. A change of account type     *)
(* keeps the class asset, liability or loan, and a rename or an archived   *)
(* flag changes no balance.                                                *)
(***************************************************************************)
EXTENDS Books

CONSTANTS Accounts, Goals, Currencies,
          MaxStated \* bound on the balances users state

ASSUME LedgerAssumption ==
    IsFiniteSet(Accounts) /\ None \notin Accounts /\ Currencies # {} /\ MaxStated \in Nat

VARIABLES accounts, txs, goals,
          stated   \* history: the account and balance the last operation was told

vars == <<accounts, txs, goals, stated, steps>>

Stated == -MaxStated..MaxStated
Classes == {"asset", "liability", "lent", "borrowed"}
Kinds == {"expense", "income", "transfer", "refund", "adjustment"}
NoAccount == [state |-> "absent", class |-> "asset", cur |-> CHOOSE c \in Currencies : TRUE]
NoRow == [state |-> "absent", kind |-> "expense", amount |-> 1, account |-> None, dest |-> None,
          refund |-> None, tagged |-> FALSE, later |-> FALSE]
NoGoal == [state |-> "absent", account |-> None, active |-> FALSE]
StatedAs(a, n) == [account |-> a, balance |-> n, overdrawn |-> FALSE]
NothingStated == StatedAs(None, 0)

\* A new profile, or one with accounts that hold nothing yet.
Init ==
    /\ \E state \in {"absent", "live"} : accounts = [a \in Accounts |-> [NoAccount EXCEPT !.state = state]]
    /\ txs = [i \in Ids |-> NoRow]
    /\ goals = [g \in Goals |-> NoGoal]
    /\ stated = NothingStated /\ steps = 0

Live(a) == a \in Accounts /\ accounts[a].state = "live"
Known(a) == a \in Accounts /\ accounts[a].state # "absent"
LiveRows == {i \in Ids : txs[i].state = "live"}

\* A new id is one that no row has; which one does not matter.
Unused(but) == {i \in Ids \ but : txs[i].state = "absent"}
FreshIds(but) == IF Unused(but) = {} THEN {} ELSE {CHOOSE i \in Unused(but) : TRUE}

\* The CHECK and the foreign keys of the transactions table.
Legal(r) ==
    /\ Known(r.account)
    /\ IF r.kind = "transfer" THEN Known(r.dest) /\ ~r.tagged /\ r.refund = None
       ELSE r.dest = None /\ (r.kind = "refund" \/ r.refund = None)

----------------------------------------------------------------------------
(* The three queries that turn rows into balances. *)

Counted == {i \in LiveRows : ~txs[i].later}
Sign(r) == IF r.kind \in {"expense", "transfer"} THEN -r.amount ELSE r.amount

\* account_balance_as_of: a row touches the account from one side.
Balance(a) ==
    LET signed == [i \in Ids |-> IF txs[i].account = a THEN Sign(txs[i]) ELSE txs[i].amount] IN
    Sum(signed, {i \in Counted : txs[i].account = a \/ (txs[i].kind = "transfer" /\ txs[i].dest = a)})

\* list_accounts: the source side and the destination side, added.
ListedBalance(a) ==
      Sum([i \in Ids |-> Sign(txs[i])], {i \in Counted : txs[i].account = a})
    + Sum([i \in Ids |-> txs[i].amount], {i \in Counted : txs[i].kind = "transfer" /\ txs[i].dest = a})

\* net_worth_as_of: one query, a row once for each live account it touches.
NetWorthOfSources ==  \* a plausible bug: the join misses the destination of a transfer
    Sum([p \in Ids \X Accounts |-> Sign(txs[p[1]])],
        {p \in Counted \X Accounts : Live(p[2]) /\ p[2] = txs[p[1]].account})
NetWorth ==
    Sum([p \in Ids \X Accounts |-> IF txs[p[1]].account = p[2] THEN Sign(txs[p[1]]) ELSE txs[p[1]].amount],
        {p \in Counted \X Accounts : Live(p[2]) /\ p[2] \in {txs[p[1]].account, txs[p[1]].dest}})

----------------------------------------------------------------------------
Unstated == stated' = NothingStated
OnlyRows == UNCHANGED <<accounts, goals>>
OnlyAccounts == UNCHANGED <<txs, goals>>

\* One insert, refused by the CHECK if the row is not legal.
Insert(i, r) == Legal(r) /\ txs' = [txs EXCEPT ![i] = r]
New(kind, amount, account) ==
    [NoRow EXCEPT !.state = "live", !.kind = kind, !.amount = amount, !.account = account]
Abs(n) == IF n < 0 THEN -n ELSE n

----------------------------------------------------------------------------
(* Accounts. *)

(* The opening balance is an expense of a liability, an adjustment of an
   asset, of the absolute value of what was entered, on the day entered. *)
CreateAccount(a, class, cur, opening, later) ==
    LET owed == class \in {"liability", "borrowed"}
        r == New(IF owed THEN "expense" ELSE "adjustment", Abs(opening), a)
    IN /\ Step
       /\ accounts[a] = NoAccount
       /\ {accounts[b].cur : b \in {b \in Accounts : Live(b)}} \in {{}, {cur}}
       /\ accounts' = [accounts EXCEPT ![a] = [state |-> "live", class |-> class, cur |-> cur]]
       /\ IF opening = 0 THEN UNCHANGED txs
          ELSE \E i \in FreshIds({}) : txs' = [txs EXCEPT ![i] = [r EXCEPT !.tagged = TRUE, !.later = later]]
       /\ stated' = IF later THEN StatedAs(a, 0)
                    ELSE IF owed THEN StatedAs(a, -Abs(opening))
                    ELSE [StatedAs(a, opening) EXCEPT !.overdrawn = opening < 0]
       /\ UNCHANGED goals

DeleteAccount(a) ==
    /\ Step
    /\ Live(a)
    /\ ~\E g \in Goals : goals[g].state = "live" /\ goals[g].active /\ goals[g].account = a
    /\ accounts' = [accounts EXCEPT ![a].state = "deleted"]
    /\ Unstated /\ OnlyAccounts

RestoreAccount(a) ==
    /\ Step
    /\ Known(a) /\ ~Live(a)
    /\ accounts' = [accounts EXCEPT ![a].state = "live"]
    /\ Unstated /\ OnlyAccounts

----------------------------------------------------------------------------
(* Transactions. *)

\* insert_transaction: a transfer drops the tag and the refund it is given.
Accepts(r) ==
    /\ Live(r.account)
    /\ r.kind = "transfer" => r.dest # r.account /\ Live(r.dest)
    /\ r.kind # "transfer" /\ r.refund # None =>
          r.refund \in LiveRows /\ txs[r.refund].kind = "expense"
Stored(r) == IF r.kind = "transfer" THEN [r EXCEPT !.tagged = FALSE, !.refund = None]
             ELSE [r EXCEPT !.dest = None]

CreateTransaction(r) ==
    /\ Step
    /\ Accepts(r)
    /\ \E i \in FreshIds({}) : Insert(i, Stored(r))
    /\ Unstated /\ OnlyRows

\* create_transactions_batch: two imported rows, both or neither.
Import(r, s) ==
    /\ Step
    /\ {r.kind, s.kind} \subseteq {"expense", "income"}
    /\ Live(r.account) /\ Live(s.account)
    /\ \E i \in FreshIds({}) : \E j \in FreshIds({i}) : txs' = [txs EXCEPT ![i] = r, ![j] = s]
    /\ Unstated /\ OnlyRows

(* update_transaction: what a patch makes of a row. A destination given for
   a kind that has none stays in the row, which the CHECK then refuses. *)
Converted(r, kind, dest) ==
    IF kind = r.kind THEN [r EXCEPT !.dest = IF dest = None THEN @ ELSE dest]
    ELSE IF kind = "transfer" THEN [r EXCEPT !.kind = kind, !.refund = None,
                                             !.dest = IF dest = None THEN @ ELSE dest]
    ELSE IF r.kind = "transfer" THEN [r EXCEPT !.kind = kind, !.dest = None]
    ELSE [r EXCEPT !.kind = kind, !.dest = IF dest = None THEN @ ELSE dest]

Update(i, kind, dest, amount, tagged, later) ==
    LET r == txs[i]
        to == [Converted(r, kind, dest) EXCEPT !.amount = amount, !.tagged = tagged, !.later = later]
    IN /\ Step
       /\ i \in LiveRows
       /\ dest # None => dest # r.account
       /\ kind = "transfer" /\ r.kind # "transfer" => Live(to.dest)
       /\ Insert(i, to)
       /\ Unstated /\ OnlyRows

Restate(ids, state) == txs' = [i \in Ids |-> IF i \in ids THEN [txs[i] EXCEPT !.state = state] ELSE txs[i]]

\* delete_transaction and delete_transactions.
DeleteRows(ids) ==
    /\ Step
    /\ ids # {} /\ ids \subseteq LiveRows
    /\ Restate(ids, "deleted")
    /\ Unstated /\ OnlyRows

RestoreRow(i) ==
    /\ Step
    /\ txs[i].state = "deleted"
    /\ Restate({i}, "live")
    /\ Unstated /\ OnlyRows

Duplicate(i) ==
    LET r == [txs[i] EXCEPT !.refund = None, !.later = FALSE] IN
    /\ Step
    /\ i \in LiveRows
    /\ Accepts(r)
    /\ \E j \in FreshIds({}) : Insert(j, Stored(r))
    /\ Unstated /\ OnlyRows

\* set_tag_many and set_account_many: the CHECK refuses the whole batch.
EditMany(ids, to) ==
    /\ Step
    /\ ids # {} /\ ids \subseteq LiveRows
    /\ \A i \in ids : Legal(to[i])
    /\ txs' = [i \in Ids |-> IF i \in ids THEN to[i] ELSE txs[i]]
    /\ Unstated /\ OnlyRows
SetTagMany(ids, tagged) == EditMany(ids, [i \in ids |-> [txs[i] EXCEPT !.tagged = tagged]])
SetAccountMany(ids, a) == EditMany(ids, [i \in ids |-> [txs[i] EXCEPT !.account = a]])

Tomorrow ==
    /\ Step
    /\ \E i \in Ids : txs[i].later
    /\ txs' = [i \in Ids |-> [txs[i] EXCEPT !.later = FALSE]]
    /\ Unstated /\ OnlyRows

----------------------------------------------------------------------------
(* Reconciliation, write-offs and goals. *)

\* The account may be deleted: only the foreign key is asked.
Gap(a, actual) == actual - Balance(a)
Reconcile(a, actual, adjust) ==
    LET gap == Gap(a, actual) IN
    /\ Step
    /\ Known(a)
    /\ IF adjust /\ gap # 0
       THEN \E i \in FreshIds({}) : Insert(i, [New(IF gap > 0 THEN "adjustment" ELSE "expense", Abs(gap), a)
                                          EXCEPT !.tagged = TRUE])
       ELSE UNCHANGED txs
    /\ stated' = IF adjust THEN StatedAs(a, actual) ELSE NothingStated
    /\ OnlyRows

\* A loan I gave is lost, one I took is forgiven.
WriteOffKindSwapped(class) == IF class = "lent" THEN "income" ELSE "expense"
WriteOffKind(class) == IF class = "lent" THEN "expense" ELSE "income"
WriteOff(a, amount) ==
    /\ Step
    /\ Live(a) /\ accounts[a].class \in {"lent", "borrowed"}
    /\ \E i \in FreshIds({}) : Insert(i, [New(WriteOffKind(accounts[a].class), amount, a) EXCEPT !.tagged = TRUE])
    /\ stated' = IF Balance(a) = (IF accounts[a].class = "lent" THEN amount ELSE -amount)
                 THEN StatedAs(a, 0) ELSE NothingStated
    /\ OnlyRows

GoalStep(g, to) ==
    /\ Step
    /\ goals' = [goals EXCEPT ![g] = to]
    /\ Unstated /\ UNCHANGED <<accounts, txs>>
CreateGoalUnchecked(g, a) ==  \* a plausible bug: the foreign key is not enforced
    goals[g] = NoGoal /\ GoalStep(g, [state |-> "live", account |-> a, active |-> TRUE])
CreateGoal(g, a) == goals[g] = NoGoal /\ Known(a) /\ GoalStep(g, [state |-> "live", account |-> a, active |-> TRUE])
UpdateGoal(g, active) == goals[g].state = "live" /\ GoalStep(g, [goals[g] EXCEPT !.active = active])
DeleteGoal(g) == goals[g].state # "absent" /\ GoalStep(g, [goals[g] EXCEPT !.state = "deleted"])
RestoreGoal(g) == goals[g].state = "deleted" /\ GoalStep(g, [goals[g] EXCEPT !.state = "live"])

----------------------------------------------------------------------------
\* What a form sends: any kind, amount, account, destination, refunded row and date.
Entry(k, n, a, d, f, l) == [New(k, n, a) EXCEPT !.dest = d, !.refund = f, !.later = l]
Entered == {Entry(k, n, a, d, f, l) :
              k \in Kinds, n \in Amounts, a \in Accounts, d \in Accounts \cup {None},
              f \in Ids \cup {None}, l \in BOOLEAN}
Plain == {r \in Entered : r.dest = None /\ r.refund = None /\ ~r.later}
Sensible == {r \in Entered : /\ (r.dest = None) <=> (r.kind # "transfer")
                             /\ r.refund = None \/ r.kind = "refund"}

Next ==
    \/ \E a \in Accounts :
          \/ \E class \in Classes, cur \in Currencies, n \in Stated, l \in BOOLEAN :
                CreateAccount(a, class, cur, n, l)
          \/ DeleteAccount(a) \/ RestoreAccount(a)
          \/ \E n \in Stated, adjust \in BOOLEAN : Reconcile(a, n, adjust)
          \/ \E n \in Amounts : WriteOff(a, n)
          \/ \E ids \in SUBSET Ids : SetAccountMany(ids, a)
          \/ \E g \in Goals : CreateGoal(g, a)
    \/ \E r \in Sensible : CreateTransaction(r)
    \/ \E r, s \in Plain : Import(r, s)
    \/ \E i \in Ids :
          \/ \E k \in Kinds, d \in Accounts \cup {None}, n \in Amounts, t, l \in BOOLEAN :
                Update(i, k, d, n, t, l)
          \/ RestoreRow(i) \/ Duplicate(i)
    \/ \E ids \in SUBSET Ids : DeleteRows(ids) \/ \E t \in BOOLEAN : SetTagMany(ids, t)
    \/ \E g \in Goals : DeleteGoal(g) \/ RestoreGoal(g) \/ \E active \in BOOLEAN : UpdateGoal(g, active)
    \/ Tomorrow

Spec == Init /\ [][Next]_vars

----------------------------------------------------------------------------
(* Properties. *)

SelfTransfer(r) == r.kind = "transfer" /\ r.dest = r.account

(* Every stored row, deleted ones included, satisfies the schema, whatever
   conversions, bulk edits and restores it went through, and a goal has an
   account that exists or existed. *)
TypeOK ==
    /\ accounts \in [Accounts -> [state : States, class : Classes, cur : Currencies]]
    /\ \A i \in Ids : txs[i] = NoRow \/ (txs[i].amount > 0 /\ txs[i].kind \in Kinds /\ Legal(txs[i]))
    /\ goals \in [Goals -> [state : States, account : Accounts \cup {None}, active : BOOLEAN]]
    /\ \A g \in Goals : goals[g] # NoGoal => Known(goals[g].account)

(* The three balance queries tell one story: net worth is the sum of the
   balances of the live accounts, deleted ones, future rows and conversions
   notwithstanding, and the list shows the balance of each account unless a
   transfer of it goes to itself. *)
QueriesAgree ==
    /\ NetWorth = Sum([a \in Accounts |-> Balance(a)], {a \in Accounts : Live(a)})
    /\ \A a \in Accounts : (\A i \in Counted : txs[i].account = a => ~SelfTransfer(txs[i]))
                              => ListedBalance(a) = Balance(a)

(* An operation that is told a balance leaves the account at it: an adjusting
   reconciliation at the stated one, a write-off of the whole debt at zero, an
   opening balance at what was entered, which for a liability is owed, and at
   zero until its day when it is dated later. The exception is in the code,
   accounts.rs:238-247: an asset opened overdrawn gets a positive adjustment
   of the absolute value, so it shows the OPPOSITE of what was entered. *)
SettlesToStated ==
    stated.account # None =>
        Balance(stated.account) = IF stated.overdrawn THEN -stated.balance ELSE stated.balance

(* "Single-currency rule: must match existing accounts." Restoring an account
   breaks it: see Findings in the README. *)
OneCurrency ==
    \A a, b \in Accounts : Live(a) /\ Live(b) => accounts[a].cur = accounts[b].cur

(* No transfer goes to the account it comes from. *)
NoSelfTransfer == \A i \in LiveRows : ~SelfTransfer(txs[i])

=============================================================================
