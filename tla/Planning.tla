------------------------------ MODULE Planning ------------------------------
(***************************************************************************)
(* Buckets, tags, budgets, the To Budget pool and the reports on spending  *)
(* (categories.rs, budgets.rs, reports.rs): what the user plans, and the   *)
(* queries that recompute every figure from transactions and budget rows.  *)
(*                                                                         *)
(* An action is a whole command.  Abstractions: a date is its month;       *)
(* accounts, payees and names are left out, and with them the refusal of a *)
(* tag whose name the bucket has; a transaction is recorded without the    *)
(* checks that Ledger models; a report is one month of its series, and its *)
(* ranking and percentages are left out.                                   *)
(***************************************************************************)
EXTENDS Books

CONSTANTS Buckets, Tags,
          Adjustments, \* the system bucket
          Months,      \* the months follow one another
          Allocations  \* what users allocate

ASSUME PlanningAssumption ==
    /\ IsFiniteSet(Buckets) /\ IsFiniteSet(Tags) /\ None \notin Buckets \cup Tags
    /\ Adjustments \in Buckets
    /\ IsFiniteSet(Months) /\ Months # {} /\ Months = 1..Cardinality(Months)
    /\ Allocations \subseteq Nat

VARIABLES buckets, tags,
          budgets, \* budget rows: bucket and month to what is allocated
          rows     \* transactions

planVars == <<buckets, tags, budgets, rows, steps>>

PlanKinds == {"expense", "income", "refund", "adjustment"}
NoEntry == [state |-> "absent", kind |-> "expense", month |-> 1, tag |-> None, amount |-> 1]
User == Buckets \ {Adjustments}

\* A profile with earlier months of a bucket budgeted already, and one tag or none
\* of the user's own.
PlanInit ==
    /\ \E b \in User, system \in Tags, own \in {"absent", "live"}, rollover \in BOOLEAN :
          /\ buckets = [c \in Buckets |-> [state |-> IF c \in {b, Adjustments} THEN "live" ELSE "absent",
                                           rollover |-> c # b \/ rollover]]
          /\ tags = [t \in Tags |-> IF t = system THEN [state |-> "live", bucket |-> Adjustments, system |-> TRUE]
                                     ELSE [state |-> own, bucket |-> b, system |-> FALSE]]
          /\ \E past \in SUBSET (Months \ {Max(Months)}), n \in Allocations \ {0} : budgets = [p \in {b} \X past |-> n]
    /\ rows = [i \in Ids |-> NoEntry]
    /\ steps = 0

InUse(b) == buckets[b].state = "live"
Exists(x) == x.state # "absent"
Floor(n) == IF n < 0 THEN 0 ELSE n

----------------------------------------------------------------------------
(* The queries: rows by kind, then what budgets and reports make of them. *)

RowsOf(m) == {i \in Ids : rows[i].state = "live" /\ rows[i].month = m}
Bucket(i) == IF rows[i].tag = None THEN None ELSE tags[rows[i].tag].bucket
Total(kind, ids) == Sum([i \in Ids |-> rows[i].amount], {i \in ids : rows[i].kind = kind})

SpentOf(ids) == Total("expense", ids) - Total("refund", ids)
In(b, m) == {i \in RowsOf(m) : Bucket(i) = b}
Spent(b, m) == SpentOf(In(b, m))

Budgeted(b, m) == <<b, m>> \in DOMAIN budgets

\* get_rolled_over: the carry into a month, month by budgeted month.
RolledOverAtOnce(b, m) ==  \* a plausible bug: the floor is applied to the sum only
    LET carry[n \in Months] ==
            IF n = 1 THEN 0
            ELSE carry[n - 1] + (IF Budgeted(b, n - 1) THEN budgets[<<b, n - 1>>] - Spent(b, n - 1) ELSE 0)
    IN IF buckets[b].rollover THEN carry[m] ELSE Floor(carry[m])
RolledOver(b, m) ==
    LET carry[n \in Months] ==
            IF n = 1 THEN 0
            ELSE IF ~Budgeted(b, n - 1) THEN carry[n - 1]
            ELSE LET rolled == carry[n - 1] + budgets[<<b, n - 1>>] - Spent(b, n - 1)
                 IN IF buckets[b].rollover THEN rolled ELSE Floor(rolled)
    IN carry[m]

\* get_budgets_for_month; a bucket with no row that month only has its carry.
Available(b, m) ==
    RolledOver(b, m) + (IF Budgeted(b, m) THEN budgets[<<b, m>>] - Spent(b, m) ELSE 0)

LastMonthOverspent(m) ==
    Sum([b \in Buckets |-> -Floor(-Available(b, m - 1))],
        {b \in Buckets : Budgeted(b, m - 1) /\ ~buckets[b].rollover})

MonthIncome(m) == Total("income", RowsOf(m))
MonthAssigned(m) == Sum([b \in Buckets |-> budgets[<<b, m>>]], {b \in Buckets : Budgeted(b, m)})
PoolMonths == {m \in Months : Total("income", RowsOf(m)) > 0 \/ \E b \in Buckets : Budgeted(b, m)}

\* get_to_budget: every month from the first budgeted or paid one is visited.
ToBudget(m) ==
    LET first == Min(PoolMonths)
        pool[n \in {n \in Months : n >= first}] ==
            MonthIncome(n) + LastMonthOverspent(n) - MonthAssigned(n)
              + (IF n = first THEN 0 ELSE pool[n - 1])
    IN IF PoolMonths \cap 1..m = {} THEN 0 ELSE pool[m]

\* Reports. kind_filter drops adjustments; the overview drops their bucket too.
Totals(ids, adjusted) ==
    [income |-> Total("income", ids) + (IF adjusted THEN Total("adjustment", ids) ELSE 0),
     expense |-> SpentOf(ids)]
OverviewOfAll(m, adjusted) == Totals(RowsOf(m), adjusted)  \* a plausible bug: the bucket stays in
Overview(m, adjusted) ==
    Totals(IF adjusted THEN RowsOf(m) ELSE RowsOf(m) \ In(Adjustments, m), adjusted)
SpendingByBucket(m) == [b \in Buckets |-> Total("expense", In(b, m))]
Trend(m, adjusted) == Totals(RowsOf(m), adjusted)
TrendOf(b, m, adjusted) == Totals(In(b, m), adjusted)
YearOverYear(m, adjusted) == Totals(RowsOf(m), adjusted)
OfTag(t, m) == {i \in RowsOf(m) : rows[i].tag = t}
Comparison(m) == [t \in Tags \cup {None} |-> Total("expense", OfTag(t, m))]
CategoryTrend(t, m, adjusted) ==
    SpentOf(OfTag(t, m)) + (IF adjusted THEN Total("adjustment", OfTag(t, m)) ELSE 0)
Stacked(m, adjusted) ==
    [t \in {rows[i].tag : i \in RowsOf(m)} |-> CategoryTrend(t, m, adjusted)]

----------------------------------------------------------------------------
Onto(t, to) == tags' = [tags EXCEPT ![t] = to]

(* Buckets and tags. *)

CreateBucket(b) ==
    /\ Step
    /\ buckets[b].state = "absent"
    /\ buckets' = [buckets EXCEPT ![b] = [state |-> "live", rollover |-> TRUE]]
    /\ UNCHANGED <<tags, budgets, rows>>

SetRolloverEnabled(b, enabled) ==
    /\ Step
    /\ InUse(b)
    /\ buckets' = [buckets EXCEPT ![b].rollover = enabled]
    /\ UNCHANGED <<tags, budgets, rows>>

DeleteBucketInUse(b) ==  \* a plausible bug: the row goes, whatever points at it
    /\ Step /\ InUse(b)
    /\ buckets' = [buckets EXCEPT ![b] = [state |-> "absent", rollover |-> TRUE]]
    /\ UNCHANGED <<tags, budgets, rows>>
\* Live rows under a deleted tag count, live tags do; budget rows do not.
DeleteBucket(b) ==
    /\ Step
    /\ InUse(b)
    /\ ~\E t \in Tags : tags[t].state = "live" /\ tags[t].bucket = b
    /\ \A m \in Months : In(b, m) = {}
    /\ buckets' = [buckets EXCEPT ![b].state = "deleted"]
    /\ UNCHANGED <<tags, budgets, rows>>

\* The foreign key admits a deleted bucket.
CreateTag(t, b) ==
    /\ Step
    /\ tags[t].state = "absent"
    /\ Exists(buckets[b])
    /\ Onto(t, [state |-> "live", bucket |-> b, system |-> FALSE])
    /\ UNCHANGED <<buckets, budgets, rows>>

MoveTag(t, b) ==
    /\ Step
    /\ tags[t].state = "live"
    /\ Exists(buckets[b])
    /\ Onto(t, [tags[t] EXCEPT !.bucket = b])
    /\ UNCHANGED <<buckets, budgets, rows>>

\* The transactions keep the tag, or the live ones are given another.
DeleteTag(t, into) ==
    /\ Step
    /\ tags[t].state = "live" /\ ~tags[t].system
    /\ into # None => Exists(tags[into])
    /\ rows' = [i \in Ids |-> IF into # None /\ rows[i].state = "live" /\ rows[i].tag = t
                              THEN [rows[i] EXCEPT !.tag = into] ELSE rows[i]]
    /\ Onto(t, [tags[t] EXCEPT !.state = "deleted"])
    /\ UNCHANGED <<buckets, budgets>>

----------------------------------------------------------------------------
(* Budgets. *)

\* One row a bucket and month: a second one takes the place of the first.
Upsert(new) ==
    budgets' = [p \in DOMAIN new \cup DOMAIN budgets |-> IF p \in DOMAIN new THEN new[p] ELSE budgets[p]]

SetAllocation(b, m, n) ==
    /\ Step
    /\ Exists(buckets[b])
    /\ Upsert([p \in {<<b, m>>} |-> n])
    /\ UNCHANGED <<buckets, tags, rows>>

CopyFromPreviousMonth(m) ==
    /\ Step
    /\ LET previous == {b \in Buckets : Budgeted(b, m - 1)} IN
       Upsert([p \in previous \X {m} |-> budgets[<<p[1], m - 1>>]])
    /\ UNCHANGED <<buckets, tags, rows>>

----------------------------------------------------------------------------
(* Transactions, as far as they are planned for. *)

OnlyRow(i, to) ==
    /\ Step
    /\ rows' = [rows EXCEPT ![i] = to]
    /\ UNCHANGED <<buckets, tags, budgets>>
Record(i, kind, m, t, n) ==
    /\ rows[i] = NoEntry
    /\ t # None => Exists(tags[t])
    /\ OnlyRow(i, [state |-> "live", kind |-> kind, month |-> m, tag |-> t, amount |-> n])
Retag(i, t) == rows[i].state = "live" /\ (t # None => Exists(tags[t])) /\ OnlyRow(i, [rows[i] EXCEPT !.tag = t])
Discard(i) == rows[i].state = "live" /\ OnlyRow(i, [rows[i] EXCEPT !.state = "deleted"])
Restore(i) == rows[i].state = "deleted" /\ OnlyRow(i, [rows[i] EXCEPT !.state = "live"])

Command ==
    \/ \E b \in Buckets :
          \/ CreateBucket(b) \/ DeleteBucket(b)
          \/ \E enabled \in BOOLEAN : SetRolloverEnabled(b, enabled)
          \/ \E t \in Tags : CreateTag(t, b) \/ MoveTag(t, b)
          \/ \E m \in Months, n \in Allocations : SetAllocation(b, m, n)
    \/ \E t \in Tags, into \in Tags \cup {None} : DeleteTag(t, into)
    \/ \E m \in Months : CopyFromPreviousMonth(m)
    \/ \E i \in Ids :
          \/ \E k \in PlanKinds, m \in Months, t \in Tags \cup {None}, n \in Amounts : Record(i, k, m, t, n)
          \/ \E t \in Tags \cup {None} : Retag(i, t)
          \/ Discard(i) \/ Restore(i)

\* A command that changes nothing is left out.
PlanNext == Command /\ <<buckets, tags, budgets, rows>>' # <<buckets, tags, budgets, rows>>
PlanSpec == PlanInit /\ [][PlanNext]_planVars

----------------------------------------------------------------------------
(* Properties. *)

(* Whatever is merged, moved or deleted, a tag stays in a bucket that
   exists or existed, a transaction keeps a tag that does, and a bucket has
   one budget row a month at most. *)
PlanTypeOK ==
    /\ buckets \in [Buckets -> [state : States, rollover : BOOLEAN]]
    /\ tags \in [Tags -> [state : States, bucket : Buckets, system : BOOLEAN]]
    /\ \A t \in Tags : Exists(tags[t]) => Exists(buckets[tags[t].bucket])
    /\ DOMAIN budgets \subseteq Buckets \X Months
    /\ \A p \in DOMAIN budgets : budgets[p] \in Nat /\ Exists(buckets[p[1]])
    /\ \A i \in Ids : /\ rows[i].kind \in PlanKinds /\ rows[i].month \in Months /\ rows[i].amount > 0
                      /\ rows[i].tag # None => Exists(tags[rows[i].tag])

(* What the month's pool and all buckets hold together is what came in less
   what was spent in budgeted months: the running floor of a bucket that
   does not roll over and the claw-back of the next month cancel out, in
   every month, overassigned ones, skipped ones and changed flags included. *)
MoneyIsConserved ==
    \A m \in Months :
        LET spent(b) == Sum([n \in Months |-> Spent(b, n)], {n \in 1..m : Budgeted(b, n)}) IN
        ToBudget(m) + Sum([b \in Buckets |-> Available(b, m)], Buckets)
          = Sum([n \in Months |-> MonthIncome(n)], 1..m) - Sum([b \in Buckets |-> spent(b)], Buckets)

(* The reports tell one story with the budgets: the trend of a bucket is
   what its budget calls spent, the categories stack up to the month's
   expense (and to its adjustments, when they are asked for), the
   comparison of tags and the split by bucket add up to the same, and the
   overview differs from the trend by the Adjustments bucket only. *)
ReportsAgree ==
    \A m \in Months, adjusted \in BOOLEAN :
        LET stacked == Stacked(m, adjusted)
            all == Trend(m, adjusted)
            hidden == IF adjusted THEN {} ELSE In(Adjustments, m)
        IN /\ \A b \in Buckets : TrendOf(b, m, adjusted).expense = Spent(b, m)
           /\ Sum(stacked, DOMAIN stacked)
                = all.expense + (IF adjusted THEN Total("adjustment", RowsOf(m)) ELSE 0)
           /\ Overview(m, adjusted).expense = all.expense - SpentOf(hidden)
           /\ Overview(m, adjusted).income = all.income - Total("income", hidden)
           /\ YearOverYear(m, adjusted) = all
           /\ Sum(Comparison(m), Tags) = Sum(SpendingByBucket(m), Buckets)
           /\ MonthIncome(m) = Trend(m, FALSE).income

=============================================================================
