--------------------------- MODULE SchedulePosting ---------------------------
(***************************************************************************)
(* Recurring schedules: the catch-up pass of an activation                 *)
(* (post-due-schedules.ts), the receipt transaction that posts one         *)
(* schedule (schedules.rs), and the user who edits, resumes and deletes    *)
(* schedules while a pass runs.                                            *)
(*                                                                         *)
(* Abstractions: a date is a day number and a frequency a number of days   *)
(* (civil dates are the subject of module Calendar); what a schedule posts *)
(* is the count of transactions per occurrence; one account is behind all  *)
(* schedules. The 24 of the code is Cap. Reissues of one operation are     *)
(* module Mutations. The two lists a pass reads are read at one time: a    *)
(* due date is never nulled, so no row can be in both. mark_schedule_posted*)
(* has no caller in the program.                                           *)
(***************************************************************************)
EXTENDS Integers, FiniteSets

CONSTANTS Schedules,
          Cap,        \* transactions one pass posts for a schedule
          Periods,    \* the frequencies, in days
          Starts, Ends, \* the dates a form may give
          MaxDay,     \* bound on today
          MaxEdits,   \* bound on what users do
          MaxFaults   \* bound on failed calls and abandoned passes together

ASSUME ScheduleAssumption ==
    /\ Cap \in Nat \ {0}
    /\ MaxDay \in Nat /\ MaxEdits \in Nat /\ MaxFaults \in Nat
    /\ Periods \subseteq 1..MaxDay + 1 /\ Periods # {}
    /\ Starts \subseteq 0..MaxDay /\ Ends \subseteq 0..MaxDay + 1

VARIABLES
    rows,      \* the schedules table
    account,   \* the account they post to is live
    posted,    \* how often an occurrence of a schedule has been posted
    today,
    pass,      \* the running pass
    form,      \* the row an open form, or the list, was loaded with
    rewound,   \* history: schedules whose due date a save moved back
    misled,    \* history: schedules a pass parked although it had posted them
    edits, faults

vars == <<rows, account, posted, today, pass, form, rewound, misled, edits, faults>>

NoDate == -1
Never == MaxDay + 1
Horizon == 2 * MaxDay + 2
Row == [live : BOOLEAN, enabled : BOOLEAN, completed : BOOLEAN, parked : BOOLEAN,
        posts : BOOLEAN, freq : Periods, start : 0..MaxDay, end : 0..Never,
        next : {NoDate} \cup 0..Horizon]
Fresh(start, end, freq, posts) ==
    [live |-> TRUE, enabled |-> TRUE, completed |-> FALSE, parked |-> FALSE, posts |-> posts,
     freq |-> freq, start |-> start, end |-> end, next |-> start]
Absent == [Fresh(0, Never, CHOOSE f \in Periods : TRUE, TRUE) EXCEPT !.live = FALSE]
NoForm == [id |-> "none", row |-> Absent]
Idle == [on |-> FALSE, at |-> 0, todo |-> {}, failed |-> {}, touched |-> {}]

\* A row of an older version may have no due date.
Init ==
    /\ rows \in [Schedules -> {Absent} \cup
                   {[Fresh(0, Never, f, TRUE) EXCEPT !.next = NoDate] : f \in Periods}]
    /\ account = TRUE
    /\ posted = [s \in Schedules |-> [d \in 0..MaxDay |-> 0]]
    /\ today = 0
    /\ pass = Idle /\ form = NoForm
    /\ rewound = {} /\ misled = {}
    /\ edits = 0 /\ faults = 0

Active(r) == r.live /\ r.enabled /\ ~r.completed /\ ~r.parked
Due(r) == IF r.next = NoDate THEN r.start ELSE r.next

----------------------------------------------------------------------------
(* The user. *)

Edits == edits < MaxEdits /\ edits' = edits + 1
Touch(s) == pass' = [pass EXCEPT !.touched = IF pass.on THEN @ \cup {s} ELSE @]

Create(s, start, end, freq, posts) ==
    /\ Edits
    /\ rows[s] = Absent
    /\ end >= start
    /\ rows' = [rows EXCEPT ![s] = Fresh(start, end, freq, posts)]
    /\ Touch(s)
    /\ UNCHANGED <<account, posted, today, form, rewound, misled, faults>>

\* The list, or an edit form, keeps the row it was loaded with.
Open(s) ==
    /\ rows[s].live
    /\ form = NoForm
    /\ form' = [id |-> s, row |-> rows[s]]
    /\ UNCHANGED <<rows, account, posted, today, pass, rewound, misled, edits, faults>>

(* update_schedule: enabling clears the park marker, a due date is kept
   unless one is given, completed is not written. *)
Updated(r, to) ==
    [to EXCEPT !.completed = r.completed,
               !.parked = ~to.enabled /\ r.parked,
               !.next = IF to.next = NoDate THEN r.next ELSE to.next]

Write(s, to) ==
    /\ Edits
    /\ rows[s].live
    /\ rows' = [rows EXCEPT ![s] = Updated(@, to)]
    /\ rewound' = IF Due(rows'[s]) < Due(rows[s]) THEN rewound \cup {s} ELSE rewound
    /\ form' = NoForm
    /\ Touch(s)
    /\ UNCHANGED <<account, posted, today, misled, faults>>

\* The form echoes the due date it was loaded with; a parked row stays so.
Save(end, freq, posts) ==
    LET r == form.row IN
    /\ form # NoForm
    /\ end >= r.start
    /\ Write(form.id, [r EXCEPT !.end = end, !.freq = freq, !.posts = posts,
                                !.enabled = @ /\ ~r.parked])

\* firstDueOnOrAfter: the first occurrence not before today (of the first 1000).
FirstDue(r) ==
    LET missed == IF Due(r) < today THEN (today - Due(r) + r.freq - 1) \div r.freq ELSE 0
    IN Due(r) + missed * r.freq

Resume ==
    LET r == form.row IN
    /\ form # NoForm
    /\ r.parked \/ ~r.enabled
    /\ Write(form.id, [r EXCEPT !.enabled = TRUE, !.next = IF r.parked THEN NoDate ELSE FirstDue(r)])

Close ==
    /\ form # NoForm
    /\ form' = NoForm
    /\ UNCHANGED <<rows, account, posted, today, pass, rewound, misled, edits, faults>>

Delete(s) ==
    /\ Edits
    /\ rows[s].live
    /\ rows' = [rows EXCEPT ![s].live = FALSE]
    /\ UNCHANGED <<account, posted, today, pass, form, rewound, misled, faults>>

ToggleAccount ==
    /\ Edits
    /\ account' = ~account
    /\ UNCHANGED <<rows, posted, today, pass, form, rewound, misled, faults>>

Midnight ==
    /\ today < MaxDay
    /\ today' = today + 1
    /\ UNCHANGED <<rows, account, posted, pass, form, rewound, misled, edits, faults>>

----------------------------------------------------------------------------
(* post_due_schedule: one schedule in one transaction. *)

(* The loop: occurrence i falls on Day(i); it ends at the first one that is
   not due, is past the end, or is over the cap. *)
LoopKeepsDate(r, at) ==  \* a plausible bug: the cap leaves the last date posted as the next one
    LET Day(i) == Due(r) + i * r.freq
        n == CHOOSE i \in 0..MaxDay + 1 :
                /\ Day(i) > at \/ Day(i) > r.end \/ (r.posts /\ i >= Cap)
                /\ \A j \in 0..i - 1 : Day(j) <= at /\ Day(j) <= r.end /\ (r.posts => j < Cap)
    IN [dates |-> IF r.posts THEN {Day(i) : i \in 0..n - 1} ELSE {},
        next |-> IF Day(n) <= at /\ n > 0 THEN Day(n - 1) ELSE Day(n),
        completed |-> Day(n) <= at /\ Day(n) > r.end,
        capped |-> Day(n) <= at /\ Day(n) <= r.end]
Loop(r, at) ==
    LET Day(i) == Due(r) + i * r.freq
        Over(i) == Day(i) > at \/ Day(i) > r.end \/ (r.posts /\ i >= Cap)
        n == CHOOSE i \in 0..MaxDay + 1 : Over(i) /\ \A j \in 0..i - 1 : ~Over(j)
    IN [dates |-> IF r.posts THEN {Day(i) : i \in 0..n - 1} ELSE {},
        next |-> Day(n),
        completed |-> Day(n) <= at /\ Day(n) > r.end,
        capped |-> Day(n) <= at /\ Day(n) <= r.end]

Counted(counts, dates) == [d \in 0..MaxDay |-> counts[d] + (IF d \in dates THEN 1 ELSE 0)]
Advanced(r, did) == [r EXCEPT !.next = did.next, !.completed = did.completed, !.parked = @ \/ did.capped]

PostDue(s, at) ==
    IF ~Active(rows[s]) THEN UNCHANGED <<rows, posted>>
    ELSE LET did == Loop(rows[s], at) IN
         /\ account
         /\ posted' = [posted EXCEPT ![s] = Counted(@, did.dates)]
         /\ rows' = [rows EXCEPT ![s] = Advanced(@, did)]

----------------------------------------------------------------------------
(* postDueSchedules: one pass of the main window. *)

Fault == faults < MaxFaults /\ faults' = faults + 1

ListedDue(r) == Active(r) /\ r.next # NoDate /\ r.next <= today
Listed(r) == Active(r) /\ (r.next = NoDate \/ r.next <= today)

StartPass ==
    /\ ~pass.on
    /\ \E s \in Schedules : Listed(rows[s])
    /\ pass' = [on |-> TRUE, at |-> today, todo |-> {s \in Schedules : Listed(rows[s])},
                failed |-> {}, touched |-> {}]
    /\ UNCHANGED <<rows, account, posted, today, form, rewound, misled, edits, faults>>

Answered(s, outcome) ==
    pass' = [pass EXCEPT !.todo = @ \ {s}, !.failed = IF outcome = "ok" THEN @ ELSE {s}]
Called(s) == s \in pass.todo /\ pass.failed = {}
PassFrame == UNCHANGED <<account, today, form, rewound, edits>>

Post(s) ==
    /\ Called(s)
    /\ PostDue(s, pass.at)
    /\ Answered(s, "ok")
    /\ PassFrame /\ UNCHANGED <<misled, faults>>

\* The transaction commits and the answer does not arrive.
PostAnswerLost(s) ==
    /\ Called(s) /\ Fault
    /\ PostDue(s, pass.at)
    /\ Answered(s, "lost")
    /\ misled' = IF rows' # rows THEN misled \cup {s} ELSE misled
    /\ PassFrame

\* An account is gone, or the call fails: nothing is written.
PostFails(s) ==
    /\ Called(s)
    /\ \/ Active(rows[s]) /\ ~account /\ UNCHANGED faults
       \/ Fault
    /\ Answered(s, "failed")
    /\ PassFrame /\ UNCHANGED <<rows, posted, misled>>

Park ==
    /\ pass.failed # {}
    /\ rows' = [s \in Schedules |-> IF s \in pass.failed /\ rows[s].live
                                    THEN [rows[s] EXCEPT !.parked = TRUE] ELSE rows[s]]
    /\ pass' = [pass EXCEPT !.failed = {}]
    /\ PassFrame /\ UNCHANGED <<posted, misled, faults>>

\* The write that parks fails: the pass goes on without it.
ParkFails ==
    /\ pass.failed # {} /\ Fault
    /\ pass' = [pass EXCEPT !.touched = @ \cup pass.failed, !.failed = {}]
    /\ PassFrame /\ UNCHANGED <<rows, posted, misled>>

PassDone == pass.on /\ pass.todo = {} /\ pass.failed = {}
EndPass ==
    /\ PassDone
    /\ pass' = Idle
    /\ PassFrame /\ UNCHANGED <<rows, posted, misled, faults>>

\* The window closes, the process dies or the session is replaced.
Abandon ==
    /\ pass.on /\ ~PassDone /\ Fault
    /\ pass' = Idle
    /\ PassFrame /\ UNCHANGED <<rows, posted, misled>>

----------------------------------------------------------------------------
Next ==
    \/ \E s \in Schedules :
          \/ \E start \in Starts, end \in Ends, f \in Periods, p \in BOOLEAN : Create(s, start, end, f, p)
          \/ Open(s) \/ Delete(s)
          \/ Post(s) \/ PostAnswerLost(s) \/ PostFails(s)
    \/ \E end \in Ends, f \in Periods, p \in BOOLEAN : Save(end, f, p)
    \/ Resume \/ Close \/ ToggleAccount \/ Midnight
    \/ StartPass \/ Park \/ ParkFails \/ EndPass \/ Abandon

Spec == Init /\ [][Next]_vars

----------------------------------------------------------------------------
(* Properties. *)

\* The row shapes, the pass and its bookkeeping: a schedule is tried once in a pass.
TypeOK ==
    /\ rows \in [Schedules -> Row]
    /\ account \in BOOLEAN
    /\ posted \in [Schedules -> [0..MaxDay -> Nat]]
    /\ today \in 0..MaxDay
    /\ pass \in [on : BOOLEAN, at : 0..MaxDay, todo : SUBSET Schedules,
                 failed : SUBSET Schedules, touched : SUBSET Schedules]
    /\ pass.failed \cap pass.todo = {}
    /\ form = NoForm \/ form \in [id : Schedules, row : Row]
    /\ rewound \subseteq Schedules /\ misled \subseteq Schedules
    /\ edits \in 0..MaxEdits /\ faults \in 0..MaxFaults

(* An occurrence is posted once, whatever passes are abandoned, answers lost
   or schedules parked and resumed, unless a save has moved the due date of
   the schedule back (a form opened before the pass echoes the old date). *)
PostedOnce ==
    \A s \in Schedules \ rewound : \A d \in 0..MaxDay : posted[s][d] <= 1

(* A pass leaves no schedule behind: at its end each one the user has not
   written meanwhile, and whose parking did not fail, is past the day of the
   pass, or has ended, is parked or switched off, a row that never had a due
   date included. *)
PassSettles ==
    PassDone => \A s \in Schedules \ pass.touched :
                   Active(rows[s]) => rows[s].next > pass.at

(* "The domain operation rolled back the whole pass before parking": a pass
   parks no schedule it has posted. It does: see Findings in the README. *)
RolledBackBeforeParking ==
    \A s \in misled : ~(rows[s].parked /\ pass.on /\ s \notin pass.failed)

(* No occurrence is ever posted twice, a form open during a pass included. One
   is: see Findings in the README. *)
NeverPostedTwice ==
    \A s \in Schedules : \A d \in 0..MaxDay : posted[s][d] <= 1

=============================================================================
