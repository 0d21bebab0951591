# Notchy: a verification project

Notchy is a local-first finance application: a Svelte frontend in a Tauri
webview, a Rust core that owns one SQLite database per profile, and a set of
JSON files that say which profiles exist and what is being done to them. This
directory holds TLA+ models of its core, the TLC configurations that check
them and theorems that TLAPS proves about them. Paths are those of the
repository; `src-tauri/src` is written `core`, `src/lib` is written `lib`, and
"design" is `specs/2026-10-19-profile-management-design.md`.

    tlc -workers 2 -config Mutations_retry.cfg Mutations     # one run
    tlapm MutationsProofs.tla                                # its proofs

`PROJECT.json` maps every definition to the lines it translates and lists the
runs, the mutants that show each property can fail, the hazards and the
findings.

1. Inventory, 2. Plan, 3. The modules, 4. What the runs show, 5. Findings,
6. What is proved, 7. Not modelled

## 1. Inventory

### The parts and how they interact

    form ── invokeMutation ──▶ command ── with_session ──▶ executor ──▶ SQLite
             (localStorage)               (read permit)    (one thread)
    shell ── windows barrier ──▶ ProfileCoordinator ──▶ registry, journals,
                                  (write permit)         staging, trash, resets
    main page ── post due, backups ──▶ the same commands, on its own account

| Part | State | Operations | What is hard about it | Module |
|---|---|---|---|---|
| **Mutation path** `lib/native/mutation-intent.ts`, `core/database/receipt.rs`, `executor.rs`, `core/profiles/coordinator.rs` | markers in localStorage, the session generation, the queue, one transaction, `operation_receipts` | submit, retry, receive, admit or expire, begin, replay, apply, record, commit | lost answers, reloads, death between effect and answer, two windows, a session that expires under a retry | `OnceOnly`, `Mutations` |
| **Profile reset** `core/profiles/reset.rs` | live, replacement and rollback database, the journal, the pre-reset backup | `reset`, `finish_reset`, its undoing, `reconcile_resets` | four renames and two journal writes, each of which may fail or be the last thing the process does | `ProfileReset` |
| **Profile catalogue** `create.rs`, `delete.rs`, `journal.rs`, `registry.rs` | `profiles.json` and its copy in memory, journals of creations and deletions, staging, trash, profile directories | create, restore, rename, activate, delete, reconcile | publication in several files; the copy in memory may differ from the file; retries of finished work | `ProfileCatalog` |
| **Profile backups** `core/profiles/backup.rs` | previews with a digest, exports | preview, export, restore as a new profile | a preview that is stale when used; an export that fails half way | `ProfileCatalog`, `AutomaticBackup` |
| **Sessions and windows** `coordinator.rs`, `windows.rs`, `lib/profiles/*` | active session, generation, permits, one pending transition, one-use tokens, acknowledging windows | begin, acknowledge, commit, cancel a switch; a window opens or closes; the page reloads | callbacks of several windows, a token issued after the session changed, reopening when activation fails | `ProfileSessions` |
| **Legacy adoption, bootstrap** `legacy.rs` | the database of earlier versions, the registry, recovery | adopt, bootstrap | decides under one permit, acts under another | `ProfileSessions` |
| **Database lifecycle** `executor.rs`, `startup.rs`, `lock.rs`, `connection.rs`, `manifest.rs`, `migrations.rs`, `restore.rs` | lifecycle, connection, queue, the database file and its journal | initialise, retry, inspect, back up, migrate, restore in place, shut down | the lifecycle is read before a job waits in the queue; every step may fail or be the last; the caller may go away | `DatabaseLifecycle` |
| **Backup publication** `core/database/backup.rs` | staged and published copies | publish, export to a user file, sweep | a failure after the rename, a directory that is not synced | `AutomaticBackup` |
| **Automatic backups** `database/automatic_backup.rs`, `profiles/automatic_backup.rs`, `clock.rs` | one durable job, registered copies, the last trusted clock | due, capture, verify, register, prune, switch on and off | a clock that jumps; files deleted by rows of a database that was restored or reset | `AutomaticBackup` |
| **Recurring schedules** `domains/schedules.rs`, `lib/logic/post-due-schedules.ts`, `lib/stores/schedules.svelte.ts`, the form | schedules with their next date and parking mark | create, edit, resume, delete, post due, park | the cap of 24 per pass; a failure whose recording fails; a form that is open while a pass runs | `SchedulePosting` |
| **Civil calendar** `domains/civil_date.rs`, `types.rs`, `budgets.rs`, `lib/utils/schedule_next_due.ts` | the date | day numbers, months, recurrence, validity | five computations in two languages that must agree | `Calendar` |
| **Ledger** `domains/transactions.rs`, `balance.rs`, `accounts.rs`, `reconciliations.rs`, `debts.rs`, `goals.rs` | accounts, transactions (a transfer is one row), refunds, goals | create, edit, convert, import, bulk edit, move, delete, restore, reconcile, write off | sequences of legal calls that break a link between rows; three balance queries | `Ledger` |
| **Buckets, tags, budgets, reports** `domains/categories.rs`, `budgets.rs`, `reports.rs` | buckets, tags, allocations | merge, move, delete, allocate, copy a month; the pool and seven reports | figures recomputed by different queries must tell one story | `Planning` |
| **Rules, commands, types, paths, metadata** | single rows, none | argument checks, forwarding | none | none |
| **Frontend** other stores, routes, browser adapter, messages | view state | presentation | not part of what must survive a failure | none |

Shared state ties the parts together: the coordinator's permit (jobs read,
transitions write), the executor's queue, and the files that a start
reconciles. Every answer crosses the webview boundary and may be lost there.

### What makes each part correct

- **Mutation path.** An operation id takes effect at most once and for one
  request; who was told "saved" has the effect; an effect nobody was told of
  keeps its marker; every call ends.
- **Reset.** The user finds the complete old or the complete new database; no
  database the user may expect is ever only in a place a start does not look
  at; what a reset sets aside was backed up; the application starts again.
- **Catalogue.** A listed profile has its files; a confirmed profile stays; a
  deleted one does not come back; the application starts again.
- **Sessions.** A job runs in the session it was admitted for; a session is
  closed only with the consent of every window; a closing never just leaves
  the user without a profile.
- **Lifecycle.** Ready means a whole, current database behind a stored
  connection; nothing answered as saved is lost to a migration or a restore;
  every call ends and every start settles.
- **Automatic backups.** What is called backed up is in a file that stays;
  retention never thins the cover; an export never costs the user a file; a
  job that was begun is finished.
- **Schedules.** No occurrence is posted twice; a pass leaves none behind.
- **Calendar.** Both languages name the same day and the same next occurrence.
- **Ledger.** The balance queries agree; what is to settle a balance settles
  it; every stored row satisfies the schema.
- **Planning.** The pool and the envelopes add up to the money there is; the
  reports agree with the budgets and with each other.

`PROJECT.json` lists 40 hazards with the line where each bites and the
properties that would catch it. The seven that no property covers have a note:
four are promises the code does not keep (section 5), three are in section 7.

## 2. Plan

Most important first. What survives a failure came before what is computed,
and each module came with its proofs where they are in reach.

| | Module | Models | Checked | Proved |
|---|---|---|---|---|
| 1 | `OnceOnly`, `Mutations` | the promise of the mutation path and the path | yes | `MutationsProofs` |
| 2 | `ProfileReset` | reset and its reconciliation | yes | `ProfileResetProofs` |
| 3 | `ProfileCatalog` | create, restore, rename, delete, reconciliation | yes | `ProfileCatalogProofs` |
| 4 | `DatabaseLifecycle` | executor, startup, migrations, restore in place | yes | `DatabaseLifecycleProofs` |
| 5 | `ProfileSessions`, `MCProfileSessions` | permits, tokens, the barrier, activation, bootstrap | yes | `ProfileSessionsProofs` |
| 6 | `AutomaticBackup` | publication, capture, retention, exports | yes | `AutomaticBackupProofs` |
| 7 | `SchedulePosting` | the pass, the posting, the user | yes | `SchedulePostingProofs` |
| 8 | `Calendar` | the calendars of both languages | yes | `SchedulePostingProofs` |
| 9 | `Books`, `Ledger` | every command on accounts, rows and goals | yes | `BooksProofs` |
| 10 | `Planning`, `MCPlanning` | buckets, tags, budgets, reports | yes | `BooksProofs` |

`Mutations` refines `OnceOnly`, its abstract specification. `Ledger` and
`Planning` extend `Books`, and their proofs share a module because both rest on
the same facts about sums; the proofs about `Calendar` are where the schedules
that use it are. Each module has one passing run of all its properties;
two have a violation run for a disagreement with the repository's own
documents. All modules avoid RECURSIVE operators and hold their parameters in
CONSTANTS with a named assumption, so that they can be proved about.

Left of the plan: `ProfileReset` and `ProfileCatalog` composed (a prepared
reset whose profile was deleted), the file steps of the legacy adoption, the
time zone.

## 3. The modules

### Mutations

One action per step of a mutation: `SubmitNew`, `SubmitAgain`, `ConfirmRetry`,
`DeclineRetry`, `SubmitChosen`, `Receive` and `Reload` are `invokeMutation`
(mutation-intent.ts:19-58) and what a webview may do to it; `Admit` and
`Expire` are `with_session` (coordinator.rs:110-123) and the queue
(executor.rs:193-215); `Begin` to `Commit` are `run_idempotent`
(receipt.rs:46-115), one action per statement of the transaction that matters:
lookup, conflict, replay, refusal, effect, receipt, commit. `Reopen` is a
profile transition, `Crash` the death of the process, `OtherCommand` whatever
else changes the rows a request depends on.

- `pending[r]` is the marker in localStorage; a set because two windows may
  mark the same request. `Definitive` is line 56: an expired session says
  nothing about the attempt.
- Requests stand for (command, arguments), so comparing requests stands for
  the comparison of the command kind and the hash (receipt.rs:12-32).
- `PreChecked` requests are those whose command looks at its row before it
  calls `run_idempotent`: `delete_tag` (categories.rs:344).
- Id 0 is an id a caller passes itself (`MutationOptions.operationId`), which
  nothing stops it from using for two requests; that is how conflicts arise.
- `effects`, `verdicts` and `told` are history variables: no guard reads them.

`OnceOnly` is the promise: one outcome per id, and verdicts that agree with
it. `Promise == INSTANCE OnceOnly WITH outcome <- Outcome, verdicts <- Given`
is the refinement mapping. It shows the receipts and the verdicts of commands that read
their receipt first (`ByReceipt`); calls of other commands are stutters.

### ProfileReset

The file operations of reset.rs:46-145 for one profile, in the order of the
code. `op` and `step` are the program counter of the reset under way; the
write permit allows one. `Stage` to `Finish` are lines 64-112; `Fail` and
`FailSuspended` are the closure of lines 90-107, whose undoing runs only if
`original.db` exists; `RemoveLive`, `RestoreOriginal`, `DropJournal` are the
three ignored results of lines 104-106; `CleanCommitted`, `DiscardJournal`,
`PutBack` and `Redo` are the four branches of `reconcile_resets`. `Redo` runs
the same swap actions in mode `reconciling`, where an error ends the start
instead of undoing the swap.

A database is `[by, edits]`: which reset made it, and how many edits it holds.
`possible` is what the user may expect: one database in use, two from the
moment a journal announces a reset until its answer or the next look.

### ProfileCatalog

The same style for several profiles: the journal of a creation
(`prepared`, `published`, `committed`), its staging directory, the registry on
disk and the coordinator's `known` copy, the journal and the trash of a
deletion. `MakeStage` to `Commit` are `finish_create` (create.rs:77-119), run
for a caller or for `reconcile_operations`; `Intend` to `Claim` are `delete`
(delete.rs:44-98); `PutBack`, `Forget`, `EmptyTrash`, `Close` the branches of
`reconcile_deletes` (delete.rs:99-120), which runs at a start and also when a
prepared deletion is tried again. `open` is `Start`, the journals of
creations, those of deletions, `Started`; the resets that `open` reconciles
before them are `ProfileReset`.

A profile is named by the operation that creates it, because the journal fixes
the generated id. All creations ask for `FirstName`: the code never compares
the names of two profiles, so more names would only rename states.

### DatabaseLifecycle

The executor of one profile and what starts it. Callers are async tasks: `Ask`
reads the lifecycle (`ensure_ready`, `initialize`, `retry`), `Send` finds a
place in the bounded queue or `Refused` reports that the executor is gone,
`Cancel` is a future that is dropped. The executor thread takes one job
(`Take`) and runs it a step at a time: `Edit` is a data job; `Classify`,
`Bootstrap`, `UpgradeBackup`, `Migrate("migrate", ..)` (one version, one
commit) and `Stamp` are startup.rs:232-358 with the inspection of manifest.rs;
`Rollback` to `Install` are `perform_restore` (restore.rs). `Fail` is an error
of any step, with the lifecycle the code then leaves; `Crash` the death of the
process, which may leave a hot journal (`hot`). `Shutdown` is a message in the
same queue, and the jobs behind it are refused.

A content is `[version, edits]`: the schema version and the callers whose
edit it holds; 0 is no database. `saved` is the history of "saved" answers,
`torn` says that a hot journal was retired instead of rolled back.

### ProfileSessions

The permit: `running` holds the sessions of admitted jobs (readers), `writer`
the transition that holds it alone. `Call`, `Begin`, `FilesDone`, `Reopen`,
`OpenManager`, `Finish` are activate, reset and delete of an open profile
(coordinator.rs:83-211, reset.rs, delete.rs) with the reopening of
the old profile when the new one does not open; `Repeat` is a reset sent again
under its operation id, which `journal` answers before any token is asked for
(reset.rs:50-53): a prepared record is finished at once, a committed one is
reported; `Adopt`, `Decide`,
`BootActivate`, `MarkRecovery` are `bootstrap` (legacy.rs:145-159), which every
load of the main page calls, under permits of its own and without a token. The
barrier is `Prepare`, `Ack`, `Issue`, `OpenWindow`, `CloseWindow`, `Cancel`
(windows.rs); the page that drives it and gives up is `Call`, `GiveUp`,
`Release`, `Reload` (windows.ts, profiles.svelte.ts). Tokens remember the
session they were issued for and are spent by `Entitled`. `disturbed` is a
history variable, for `ConsentedSwitch` only: it says of the request of the page
whether something that asked no window has come between.

### AutomaticBackup

One check is a handful of steps under the permit: `CheckBackwards`,
`CheckNothing`, `CheckPrune`, `CheckPending`, `CheckFresh` decide what the check
does (profiles/automatic_backup.rs:54-187); `Rename`, `SyncDirectory`, `PublishFails` publish the
copy (backup.rs:169-274); `Register` verifies and records it; `Scan`, `Unlink`,
`Forget` are retention, row by row. `Export*` is the export to a file of the
user over the same protocol, with `Undone` its undoing. `files` is the
directory as the process sees it and `disk` what a power loss leaves. The user
sets the clock, switches backups off, resets the profile, takes or damages
files.

### SchedulePosting

`StartPass` reads the two lists and `Post`, `PostAnswerLost`, `PostFails` try
each schedule once; `Park` and `ParkFails` record the failure;
`PostDue` is the receipt transaction of schedules.rs:328-360, its `Loop` ends
at the first occurrence that is not due, past the end or over the cap. The
user creates, edits, resumes and deletes while it runs; an edit form echoes
the row it was loaded with (`form`), the due date included. `Abandon` is a
closed window, a dead process or a replaced session. `posted` counts postings
per schedule and day; `rewound` marks schedules whose due date a save moved
back.

### Calendar

The state is the date on the wall, which starts at the epoch and moves a day at
a time (`Walk`, `Tick`). `CivilFromDays`,
`DaysFromCivil` are the day-number arithmetic of civil_date.rs, `NextDue` its
stepping, `NextDueInTheForm` the TypeScript one over the day number;
`MonthStart`, `MonthEnd`, `NextMonth`, `PreviousMonth` the month arithmetic of
budgets and reports.

### Books

What `Ledger` and `Planning` share: ids, amounts, the bound on operations, the
marks of a row, and `Sum`, the SUM of a query as the sum of a function over a
finite set.

### Ledger

An action per command, the whole command: `CreateAccount` with its opening
row, dated today or later, `CreateTransaction`, `Import`, `Update` with the
conversion between kinds and the move to another day, `Restate` (delete and restore of many), `SetAccountMany`, `Duplicate`,
`Reconcile` with its adjustment, `WriteOff`, the goals. `Balance`,
`ListedBalance` and `NetWorth` are the three queries (balance.rs,
accounts.rs). `Legal` is the CHECK of the schema. `stated` is a history
variable: the account and balance the last command was told, and whether that
was an asset opened `overdrawn`, whose row accounts.rs:238-247 writes with the
opposite sign.

### Planning

Buckets, tags, allocations and rows that carry a month; `Upsert` is the one
budget row a bucket has a month. Names that `Ledger` has too carry a prefix
(`PlanInit`, `PlanNext`, `PlanTypeOK`). `Available`,
`RolledOver`, `LastMonthOverspent` and `ToBudget` are budgets.rs:117-357;
`Overview`, `Trend`, `TrendOf`, `YearOverYear`, `Comparison`, `CategoryTrend`,
`Stacked`, `SpendingByBucket` the queries of reports.rs.

### Failures

Each file operation may fail in the ways the code distinguishes. In
`ProfileReset` and `ProfileCatalog` `Faults` is the set of kinds that may and
`MaxFaults` bounds how many do; the other modules count them in `failures` or
`faults`.

| Kind | What fails |
|---|---|
| `write`, `journal`, `registry` | a file cannot be written: nothing changes, the caller gets an error |
| `sync` | `publish_json` or a move has renamed, then its directory cannot be synced: the change *is* there and the caller gets an error (registry.rs:84-85) |
| `move` | a rename or removal fails |
| `read` | a database cannot be opened or validated |
| `build` | the seeding of a database is cut short, by an error or a death |

A death may come after any step. A rename is taken to survive the death of
the process (the kernel has it); only `AutomaticBackup` also has power losses,
which undo what was not synced, because registration relies on the sync.

## 4. What the runs show

Every passing run explores its state space completely. "Live" marks temporal
properties checked under fairness.

| Run | Instance | Shows |
|---|---|---|
| `mutations_retry` | 2 forms, 2 requests (one `PreChecked`), ids 0-2, 2 calls, 1 reopening or crash | `TypeOK`, `AtMostOnce`, `SavedIsDurable`, `SilentEffectKeepsMarker`, `ImplementsOnceOnly`; live `EveryCallEnds` |
| `reset_swap` | 2 resets, 2 edits, 2 faults of any kind, 2 deaths | `TypeOK`, `CompleteOldOrNew`, `NeverLost`, `BackedUpFirst`; live `StartupConverges` |
| `catalog_publication` | 2 profiles (one restored), 2 names, 2 deletions, 2 faults of any kind, 2 deaths | `ListedIsWhole`, `PromisedKept`, `DeletedStaysDeleted`; live `StartupConverges` |
| `lifecycle_serve` | 2 callers, queue of 2, schema versions 2-4, 5 calls, 1 failure, 1 death | `TypeOK`, `ReadyServes`, `NothingLost`, `MigratesWhatIsBackedUp`; live `EveryCallEnds`, `Settles`, `StartupConverges` |
| `sessions_barrier` | 2 profiles (symmetric), 2 windows, 3 sessions, 2 requests, 1 reload, 1 window opened, 1 repeated reset | `TypeOK`, `JobsKeepTheirSession`, `ConsentedSwitch`, `NoSilentClose` |
| `backup_daily` | 4 days of 2 halves, weeks of 2 days, 1 day and 1 week kept, 2 edits, 2 schema versions, 2 faults | `BackedUpIsKept`, `PruneKeepsCover`, `UserFileKept`; live `PendingSettles` |
| `schedules_catch_up` | 2 schedules, 4 days, a cap of 2, 2 edits, 1 fault | `PostedOnce`, `PassSettles` |
| `ledger_books` | 2 accounts, 3 rows, 1 goal, 4 operations | `TypeOK`, `QueriesAgree`, `SettlesToStated` |
| `planning_pool` | 2 buckets and Adjustments, 2 tags, 2 rows, 3 months, 3 operations from any plan | `PlanTypeOK`, `MoneyIsConserved`, `ReportsAgree` |
| `calendar_to_2101` | every one of the 47,847 days the schema admits | `CalendarsAgree`, `RecurrencesAgree` |
| `catalog_interrupted_staging` | 1 profile, 1 cut-short seeding | finding 1 |
| `ledger_self_transfer` | 2 accounts, 1 row | finding 2 |

**Why the bounds are enough.** *Mutations*: a retry that meets its own first
attempt in another window, with an answer on its way; a second id shows that a
new intent is not mistaken for the old one; two requests on the chosen id give
conflict and replay in both orders. *Reset*: a journal left by one reset while
the other runs, and two faults with two deaths give a failure in the swap, one
in its undoing, a death, a start that fails and one that dies. *Catalogue*: a
retried deletion finds another one prepared. *Lifecycle*: two callers and two
places fill the queue behind a start or a restore; three versions give two
migrations, one commit each, so that a death falls between them. *Sessions*:
a switch, the bootstrap of a reload and a second page that asks again; a
window opens while the other is asked; a reset whose swap failed is repeated
under its id. *Backups*: a limit of one date and one
week makes retention delete from the third copy on, and two half days per date
with an offset let the local date and the instant disagree. *Schedules*: four
days and a cap of two make a backlog that one pass cannot post; two schedules
let one fail while the other is in the list. *Ledger*: a row, its conversion,
its move and a refund of it, or an account, its deletion, another currency and
its restoration. *Planning*: three months are a month, its carry and what the
carry does to the one after; the initial states already hold every small plan.
*Calendar*: the bound is the program's own.

**Conditions.** `CompleteOldOrNew`, `NeverLost` and `BackedUpFirst` hold while
only writes and reads fail (`Orderly`), with deaths anywhere; section 5 says
by which single fault the unconditional forms break. In the catalogue
`ListedIsWhole` holds whatever fails; the others while only registry writes
and moves fail. `ConsentedSwitch` excepts the bootstrap, a repeated reset whose
record is still prepared (`Repeated`: the code finishes it without a token) and
a request that was `disturbed`: a command of an earlier load was on its way
when the page asked, or since then a reset was repeated, or a bootstrap closed a
session or opened one behind a reload. `SettlesToStated` says of an asset opened
overdrawn that it shows the opposite of what was entered, `PostedOnce` schedules whose due date a save moved back,
`PassSettles` what the user writes during the pass, `BackedUpIsKept` and
`PendingSettles` files the user took away, `QueriesAgree` accounts with a
transfer to themselves. Each exception is a finding or an act of the user.

**Fairness.** The core's thread and the async runtime run on while the process
lives: `WF` of the code's steps, where one thread takes them one at a time
(`CoreStep`, `ResetStep`, `CodeStep`, `Executor`), and of each caller's own
`Send` and `Refused` in `DatabaseLifecycle`, because the queue wakes its
senders. An answer on its way arrives. An application that is down is started
again, because the properties ask whether a start *can* succeed. In `AutomaticBackup` the check is
`SF`: the page checks every minute, exports and other transitions only take the
permit in between, and its queue serves in order. Failures and deaths are
finite (bounded), nothing is assumed of users. Deadlock is off: an idle application whose bounds are used up has
nothing to do.

`ProfileCatalog`, `AutomaticBackup` and `SchedulePosting` state a `TypeOK`
that documents the variables; it is proved, and not among the properties of
their runs.

## 5. Findings

Disagreements of the code with its own documents, comments or messages, met
while modelling. The first two have a run, with the quotations in
`PROJECT.json`; for each other one the module states the promise as a property,
and TLC refutes it on the instance given.

| | Where | What | Property |
|---|---|---|---|
| 1 | create.rs:90-93 | The staging directory is made before its database; a failure or death between leaves a directory that every later start takes for staged and rejects. | `ProfileCatalog!StartsAgain`, run `catalog_interrupted_staging` |
| 2 | transactions.rs:718 | `set_account_many` moves a transfer to the account it goes to: a transfer from an account to itself, which the two balance queries count differently. | `Ledger!NoSelfTransfer`, run `ledger_self_transfer` |
| 3 | categories.rs:344 | `delete_tag` checks that the tag is not deleted before it reads the receipt, so the retry of a deletion whose answer was lost is refused (receipt.rs:38 promises the cached result). | `Mutations!RetryReturnsCached`, one form, one request, `PreChecked` |
| 4 | mutation-intent.ts:56 | A rejection removes the marker although another attempt under the same id is still under way and may be applied (line 55 calls it definitive). | `Mutations!RejectionIsDefinitive`, two forms, three calls |
| 5 | reset.rs:103 | If the first rename of the swap fails, the journal and the replacement stay; a later start resets the profile after all, over edits that no backup has. | `ProfileReset!SwapIsBackedUp`, one `move` fault |
| 6 | reset.rs:104 | The committed record is on disk but its save reports an error; the undoing removes the new database, and a death there lets the next start remove the old one. | `ProfileReset!SomethingSurvives`, one `sync` fault |
| 7 | reset.rs:119 | The journal that a failed rename leaves makes every start fail when a later reset of the profile dies in mid-swap. | `ProfileReset!StartsAgain`, two resets |
| 8 | create.rs:117 | A creation whose last record is not written is run again by the next start, also after the profile was deleted. | `ProfileCatalog!NoneReturns`, one `journal` fault |
| 9 | delete.rs:72 | A deletion that was refused and undone has left the registry without the profile. | `ProfileCatalog!PromisesHold`, one `sync` fault |
| 10 | manifest.rs:752 | A death between the sync and the removal of SQLite's rollback journal leaves it hot, and the read-only inspection of the next start may not roll it back: the program's own database is refused. | `DatabaseLifecycle!OwnDatabaseAccepted` |
| 11 | accounts.rs:379 | Restoring a deleted account does not repeat the check of accounts.rs:201 ("Single-currency rule: must match existing accounts"). | `Ledger!OneCurrency`, two currencies |
| 12 | ScheduleForm.svelte:120 | A form that was open during a pass sends the due date it was loaded with; the next pass posts the occurrence again (schedules.rs:3-5 promises each once). | `SchedulePosting!NeverPostedTwice` |
| 13 | post-due-schedules.ts:52 | "The domain operation rolled back the whole pass before parking" is untrue when the answer of a committed pass is lost: a schedule is parked that has been posted. | `SchedulePosting!RolledBackBeforeParking` |

Further observations, visible in the models as exceptions or left to them:

- *Lifecycle.* A caller dropped while it waits for a place in the queue
  strands the lifecycle in Initializing or Restoring (startup.rs:190; the
  exception `abandoned` of `Settles`). A restore that fails before it closes
  the connection leaves RecoveryRequired with a connection stored
  (restore.rs:239, executor.rs:66); no start is accepted then. Jobs admitted
  before a restore run on the restored database, though restore.rs:12 says it
  "rejects pending jobs". `restore_database` has no caller but tests.
- *Sessions.* The bootstrap of an earlier load of the page still runs after
  the next one has chosen another profile (legacy.rs:151); windows.rs:43
  compares a session and line 51 binds the token to the one of that moment;
  `MarkRecovery` holds no permit; an activation that fails from recovery clears
  the flag; a deletion whose sync fails (delete.rs:72) leaves neither session
  nor recovery; a repeated reset suspends the active profile without a token
  (reset.rs:50-53; action `Repeat`, and without the exception `Repeated` TLC
  finds `ConsentedSwitch` violated); finishing one transition drops another's pending request.
- *Backups.* A damaged pending snapshot fails every later check; a clock set
  ahead and back blocks backups until it catches up; retention picks the
  newest copy by the text of a local time.
- *Schedules.* A completed schedule does not reopen when its end date is
  extended; a `pending_save_unresolved` answer parks a schedule.
- *Ledger.* The opening balance of an overdrawn asset account is recorded as
  positive (accounts.rs:238-247), so that an account opened with -1 shows 1:
  `SettlesToStated` states it as `overdrawn`; a goal can be restored on a deleted account (goals.rs:396);
  refunds may point to deleted rows.
- *Planning.* `spending_by_bucket` and the comparison do not subtract refunds;
  adjustments count as spending in the category reports but as income in the
  trend, which does not hide the Adjustments bucket; `create_tag` and
  `move_tag` accept a deleted bucket; a deleted bucket's budget still counts in
  the pool. `ReportsAgree` states the reports as they are to each other.

## 6. What is proved

Each module of proofs EXTENDS its component's module. The theorems hold for
all values of the constants that satisfy the module's named assumption, which
TLC evaluates in its run: finite bounds, model values that are distinct, and
for the books finitely many accounts, buckets, tags, months and rows, because a
sum is over a finite table.

| Module | Theorems (property) |
|---|---|
| `MutationsProofs` | `TypeCorrect` (`TypeOK`), `AppliedAtMostOnce` (`AtMostOnce`), `SavedStaysSaved` (`SavedIsDurable`), `SilentEffectIsMarked` (`SilentEffectKeepsMarker`), `Refinement` (`ImplementsOnceOnly`) |
| `ProfileResetProofs` | `TypeCorrect` (`TypeOK`); while `Orderly`: `SetAsideIsBackedUp` (`BackedUpFirst`), `OldOrNewIsFound` (`CompleteOldOrNew`), `OneSurvives` (`NeverLost`) |
| `ProfileCatalogProofs` | `TypeCorrect` (`TypeOK`), `WholeIsListed` (`ListedIsWhole`), `ConfirmedIsKept` (`PromisedKept`), `DeletedIsGone` (`DeletedStaysDeleted`) |
| `DatabaseLifecycleProofs` | `TypeCorrect` (`TypeOK`), `ReadyIsServed` (`ReadyServes`), `SavedIsNeverLost` (`NothingLost`), `MigrationIsBackedUp` (`MigratesWhatIsBackedUp`) |
| `ProfileSessionsProofs` | `TypeCorrect` (`TypeOK`), `JobsKeepSession` (`JobsKeepTheirSession`), `SwitchIsConsented` (`ConsentedSwitch`), `NeverSilentlyClosed` (`NoSilentClose`) |
| `AutomaticBackupProofs` | `TypeCorrect` (`TypeOK`), `BackedUpStays` (`BackedUpIsKept`), `PruneCovers` (`PruneKeepsCover`), `UserFileStays` (`UserFileKept`) |
| `SchedulePostingProofs` | `TypeCorrect` (`TypeOK`), `NeverTwice` (`PostedOnce`), `PassLeavesNothing` (`PassSettles`); of `Calendar`: `CalendarsAlwaysAgree` (`CalendarsAgree`), `RecurrencesAlwaysAgree` (`RecurrencesAgree`), `MonthsAndYearsAgree` |
| `BooksProofs` | of `Ledger`: `TypeCorrect` (`TypeOK`), `SettlesAsStated` (`SettlesToStated`), `QueriesAlwaysAgree` (`QueriesAgree`); of `Planning`: `PlanTypeCorrect` (`PlanTypeOK`), `PoolConserves` (`MoneyIsConserved`), `ReportsAlwaysAgree` (`ReportsAgree`) |

These are all the safety properties of the passing runs: every invariant, every
action property and the refinement.

**Mutations.** Any number of forms, requests, ids, calls and restarts.

- *At most once.* `AtMostOnce` is not inductive: nothing in it stops a
  transaction that has applied its effect for an id which got a receipt
  meanwhile. `ReceiptInv` adds that there is one transaction at a time
  (`OneTransaction`), that one with an effect is the first for its id
  (`FirstForItsId`), and that effects and receipts are the same fact
  (`EffectsAreReceipts`). Steps fall into those that leave the tables alone
  (lemma `ReceiptStutter`), those that end a transaction without effect
  (`ReceiptEnd`), and `Begin`, `Apply`, `WriteReceipt` and `Commit`.
- *Saved stays saved.* A form trusts an answer by its call number, so the
  invariant `AnswerInv` adds that every call on its way has a number of its own
  (`CallsAreNumbered`), that a waiting form's number names its own request and
  id (`CallsMatchForms`), that every "saved" on its way is about a stored
  receipt (`AnswersAreTrue`) and so is every one received (`ToldIsTrue`).
- *Silent effects.* `Marked` says of an id and a request that it is marked or
  was answered definitively. No step takes that from them (lemma
  `MarkedStays`): the one that removes a marker tells the form why. Calls are
  sent marked, so calls and receipts always are (`MarkerInv`).
- *Refinement.* `Commit` of a request that reads its receipt first is
  `Take`, `Replay` is `Repeat`, refusals and conflicts are `Refuse`; every
  other step, and every step of a `PreChecked` call, leaves the mapped
  variables alone.

**ProfileReset.** Any number of resets, edits, deaths and failures to write or
to validate. The three theorems beside the types hold as long as no rename,
removal or sync has failed; findings 5 and 6 refute them without that.

- *Types.* An edit needs a file, and that `live` is one does not follow from
  its type. `OpenOnFile` adds what the code relies on: an open profile has its
  file and no rename is under way, because `finish_reset` closes the session
  before it moves anything.
- *Backed up first.* The danger is an edit between the backup and the rename.
  `SwapInv` rules it out: at most one journal is prepared (`OneUnfinished`); it
  is prepared only from the first rename to the last, never while the profile
  can be edited, and no start ends before visiting it (`Announced`); the
  original is where the next step looks for it (`SetAside`); and the database the
  next rename would set aside is in the backups (`Covered`). All of it holds
  while the failures are `Orderly`, and lemma `OrderlyStep` is what lets each
  step use that: failures are only appended, so an orderly history was orderly
  before and its last step failed in no rename, removal or sync.
- *Old or new.* Neither property says what the user may expect in the middle of
  a swap. `WholeInv` does: while a journal is prepared it is the database set
  aside or the fresh one (`OldOrNew`), which nothing else is yet (`NewIsNew`);
  with none prepared it is the live one (`InPlace`); `Expected` says what each
  step finds.

**ProfileCatalog.** Any number of profiles, names, deletions, failures and
deaths.

- *Whole.* `ListedIsWhole` speaks of idle moments and of the registry in
  memory. `StoredInv` says of both registries, at every step, that a profile
  either lists is in place, or in the trash of a deletion whose record is about
  this profile (`Listed`); a record about another one does not bring it back.
  A profile only the file lists, which a failed sync leaves, is in place, so
  emptying the trash of what memory does not list loses nothing. `Expected`
  says what each step finds.
- *Kept and gone.* A deleted profile could only return through an unfinished
  creation. `PromiseInv` rules that out while `Orderly`: a listed profile's
  creation is recorded as committed, or the next thing that happens to it is
  that record (`CommittedOrResumed`), by the step under way or by a start, which
  takes up every unfinished creation before any deletion (`Pending`). Deletions
  begin when neither is the case.

**DatabaseLifecycle.** Any number of callers, versions, failures and deaths.
Three layers. `MachineInv`: types, each caller's job is queued once and is not
the one being run (`QueueInv`), and a call knows where its job is
(`CallInv`). `OneStarter`: at most one start or restore is queued or running,
and then the lifecycle says so; this is what the two-phase `ensure_ready` and
`startup_lock` are for, and without it a second start could run over a ready
database. `FilesInv` on top: files are whole (`WholeFiles`), no transaction is
open without a file (`DataOnFile`), each step finds what the one before left
(`StepInv`, with what a migration or a replacement would destroy held by a
backup), `ReadyServes` and `NothingLost`.

**ProfileSessions.** Any number of profiles, windows, sessions, requests,
reloads and openings. A writer excludes readers, so a closing session has no
job. For `SwitchIsConsented` the invariant follows one token through its life:
it was issued when every open window had acknowledged, stays covered while
windows open and close, and is bound to the session that was acknowledged, as
long as nothing has disturbed the request. A reset that finds its record
prepared needs no token and is the exception the property names; that the
record is a prepared one when the session closes is read off the same step. `NeverSilentlyClosed` follows the writer
that closed a session to the end it takes.

**AutomaticBackup.** Any limits of retention and any number of edits, schemas,
jobs and faults. `BackupInv` has four parts on top of the types.

- *Kept.* `BackedUpIsKept` compares a revision with copies, and a check that is
  under way will change both. `JobInv` says that the job on record is younger
  than every copy, by id and by the calendar, and that what is being published
  is that job; `FileInv` that its file is there after the rename and safe after
  the sync of the directory, which is why registration may believe it;
  `LastInv` that the copy of the last success is the newest of all, so that the
  id a prune protects is the one the record is about.
- *Prune.* Retention keeps the newest copy of each of the last days and weeks
  and of each schema version. `FirstsCover` and `RetentionCovers` say of the
  operator alone that what it keeps covers what there was. Copies are unlinked
  one at a time, so `PruneInv` says that what remains once all the condemned
  are gone still covers, and `CoverBetween` that every set between the two
  does.
- *Exports.* `UserFileKept` needs no invariant: the steps of an export and its
  undoing remove only what the export itself put there.

**SchedulePosting.** Any number of schedules, days, edits and faults, any cap
and periods. Lemma `LoopEnds`: the loop of a posting ends, and what it
posts lies between the due date and the new one. `PostedBeforeDue` is the
inductive form of `PostedOnce`: the due date separates what has been posted
from what has not. `PassInv` is that of `PassSettles`: what the pass has left
behind it, it has settled.

**Calendar.** No last year: the arithmetic is proved for every day from the
epoch on. `WallInv` ties the walk to the day number through `DayByDay` (the
day after) and `ThereAndBack` (number to date to number). The weekly steps are
walked day by day (`WalkExists`, `StepsWalk`).

**Sums.** `Sum` is a fold that takes elements in the order CHOOSE gives them.
`SumsExist` and `SumsAgree` say that the recursion has one value; `SumAdd` that
the order does not matter; from it come `SumUnion`, `SumPlus`, `SumShift` (one
value changes), `SumWhere` (a WHERE clause is a zero), `SumByParts` (a join)
and `SumByClass` (a GROUP BY). They know nothing of money.

**Ledger.** Any number of accounts, rows, goals and operations, any amounts.

- *Types.* Conversions between kinds rewrite half the fields of a row. `RowsInv`
  says that every stored row is legal, and each command is shown to write
  legal rows only, whichever row it found.
- *Settled.* `SettlesToStated` speaks of the account just stated. Its inductive
  form is `Settled`, a balance that is a sum over the rows of the account:
  lemma `NewRowMoves` says by how much one more row moves it, and the
  adjustment is exactly the difference; a row whose day has not come moves
  nothing (`LaterRowRests`). `Reached` is the balance told, or its opposite for
  an asset opened overdrawn (`OpeningTold`).
- *Queries.* Net worth joins rows with accounts, so it is the sum of the
  balances by `SumByParts`; the list adds two queries, which meet only in a
  transfer of an account to itself (`ListShowsBalance`).

**Planning.** Any number of buckets, tags, months and rows, any amounts.
`PlanInv` is the reference integrity of `PlanTypeOK` with the types of all
fields; buckets and tags are deleted by marking them, so it is kept.

- *Conservation.* Everything is computed on read, so this is a fact about every
  state of `PlanInv`. The carry and the pool are recursive walks over the
  months, which have a solution (`WalkExists`). `CarryIs`: what a month carries
  into the next is what was available plus what was owed, where owed is the
  part the floor of a bucket without rollover cut off. `OverspentIs`: what next
  month's pool claws back is the sum of the same amounts, and there they cancel
  out. `PoolStep` covers the months before the first one the query visits, in
  which nothing moves (`QuietMonth`). Conservation in one month gives it in the
  next (`ConservedStep`), and so in all (`EveryMonthConserves`).
- *Reports.* `TotalByClass`: totals by tag, and by bucket, add up to the total
  of the rows; `TotalOfParts`: leaving a part out takes its total away.

The induction theorems of the library take an operator as a parameter, which
the provers used here cannot instantiate. Where a proof needs induction (a sum,
the end of a loop, a walk over months, a division) it has the form of a least
counterexample: `LeastSet`, `LeastIn` and `LeastOf` give a smallest set or
number for which a statement fails, and the step before it gives the
contradiction.

Only model-checked: liveness, which is beyond this prover, as ENABLED and
RECURSIVE operators are.

## 7. Not modelled, and why

- `ProfileReset` and `ProfileCatalog` are not composed: that a prepared reset of
  a profile that was deleted meanwhile fails every start (reset.rs:137) is read
  from the code, not checked.
- No property says that a job admitted before a restore does not run on the
  restored file (executor.rs:208), that no occurrence of a schedule is passed
  over (schedules.rs:344; a resumed schedule passes over some on purpose), that
  nothing is deleted on a clock that is not trusted
  (profiles/automatic_backup.rs:147), or that a refund points to a row that is
  not deleted (transactions.rs:718, 652).
- One clock: today is the UTC date in the database layer and the local date in
  the forms (civil_date.rs:41); for part of the day they differ.
- Other models take from `DatabaseLifecycle`'s files that SQLite rolls back
  when a profile is opened; finding 10 says where it is not let to.
- In the modelled parts: the text of errors, hashes and ids as strings, the
  content of databases beyond what the properties compare; the optional export
  before a deletion, the `preferences` file and the file steps of the legacy
  adoption; previews and the safe-destination check of exports; temporary
  files that `publish_json` leaves behind, which nothing reads; the bound of
  1000 occurrences in `firstDueOnOrAfter`; startup events and the status
  snapshot; `mark_schedule_posted` and `retention_deletions`, which nothing
  calls.
- Categorisation rules: single-row edits of a table whose only reader is the
  import form. CSV and JSON text: formatting.
- Commands, types, paths: checks of arguments and forwarding. An operation id
  that does not parse is refused before any state changes.
- The browser adapter, the other stores and components: presentation, and an
  in-memory double for development.
- Power loss outside `AutomaticBackup`, file systems that lose a rename, a
  second process (`lock.rs` excludes one).
