# Verification of Sales-Orders

TLA+ models of the order database of this repository (`migrations/sql`, PostgreSQL functions, triggers and
constraints) and of the Python service around it (`src/sales_orders`), checked with TLC and proved with TLAPS.
Paths below are relative to the repository.

## 1. The system

Sales-order emails become rows of a PostgreSQL database. The rules live in the database, as triggers, views and
constraints, so that they hold for every client; the Python service prepares the rows, runs the stored functions
and wraps every command in one transaction (`db.unit_of_work`), at READ COMMITTED. Several people and scheduled
jobs use it at once. The parts, with the state each keeps and what makes it correct:

| Part | State | Operations | Correct when |
|---|---|---|---|
| Order workflow, gate, locks (`0001`, `0002`, `0003`, `0006`, `0011`, `service.py`) | `sales_order`, `sales_order_line`, `sales_order_check`, `sales_order_status_history` | create, update header or line, record check, change status | only clean, checked orders are approved; approved content is frozen; a held order is validated again; the history is a walk |
| ARR ledger (`0004`, `0006`) | `arr_movement`, `arr_contract` | post on approval, post on late link | every linked recurring line of a processed order is booked exactly once |
| Overlapping transactions (all of the above) | row locks, uncommitted writes | the same | the rules survive interleaving |
| Account ownership (`0007`-`0013`) | `customer_account_allocation`, `employee`, `employee_absence`, `account_history_review` | take on approval, allocate, set, leave, load, absence | one owner at a time, no owner lost, the past not rewritten, no order or hand-over gives an account to a leaver |
| Account history from the Register (`0009`, `0013`) | the same tables | `build_account_history` | periods without overlap, owner changes only with a named salesperson, no leaver after the last day |
| Register and SN (`0004`, `register.py`) | `register_entry`, `register_sync`, `sales_order.sn_ref` | sync, assign one, assign pending | a sync replaces the mirror; an SN is sourced from the Register, never guessed, never given twice |
| Xero owner groups (`0012`, `xero.py`) | `xero_group_*`, `customer_xero_owner` | sync, reconcile, apply | the newer of the two decisions wins |
| Intake and money (`service.py`, `models.py`, `checks.py`, `0001`) | `source_email`, `document`, `supplier_quote`, order rows, FX snapshot | `create_sales_order` | one order for one (message, sequence), none lost; the checks the content asks for |
| Authority (`0003`) | `employee_permission`, the login's employee | `current_employee`, `has_permission` | only people entitled to it approve, waive and accept losses, and outcomes are in their names |
| Master data (`service.py`, `0001`-`0012`) | customers, employees, suppliers, products, groups and their history | `load_master_data` | a complete file loads, loading it again changes nothing, history is only added to |
| Command line (`cli.py`, `db.py`) | - | one transaction for each command | a command takes effect as a whole or not at all |
| Audit, deployment | `audit.*` | logging, migrations | - |

How they meet: a status change is one UPDATE, whose triggers check the transition, run the gate (a view over
header, lines, checks, customer and documents), write the history, post ARR and pass the account to the order's
salesperson. Linking an ARR contract to a line of a processed order posts ARR, too. A Register sync feeds SN
candidates; an SN is part of the gate. A Xero sync, a leaver and the build of the history all write ownership
periods; master data says which Xero group stands for whom.

What is hard: two of these commands overlapping; sequences such as approve, hold, correct, re-approve and link; rules
evaluated once at creation and relied on later; the order in which leavers are recorded; facts of an outside
system seen at two moments. `PROJECT.json` lists each hazard at its line, also those that no property covers yet.

## 2. Modules

| Module | Content |
|---|---|
| `CommercialTerms` | What the workflow promises about content: drafted, binding as it stands, changed only after release, void for ever. Abstract specification. |
| `OrderWorkflow` | Order, lines, checks, history and ledger; one action per committed command with all its triggers. Implements `CommercialTerms`. |
| `OrderWorkflow_proofs` | Theorems about `OrderWorkflow`, for all constants. |
| `ApprovalRace` | The same commands cut into statements, with row locks, visibility at READ COMMITTED, commit and rollback. |
| `ApprovalRace_proofs` | Theorems about `ApprovalRace`, for all constants. |
| `AccountTimeline` | What ownership promises: an owner or nobody for each account and day; who may change which days. Abstract specification. |
| `Ownership` | Allocation periods, leavers, absences, review log; one action per routine. Implements `AccountTimeline`. |
| `Ownership_proofs` | Theorems about `Ownership`, for all constants. |
| `Timeline_proofs` | `Ownership` implements `AccountTimeline`, for all constants. |
| `AccountHistory` | The build of the history from the Register, beside the routines of `Ownership`, against a reference definition. |
| `AccountHistory_proofs` | Theorems about `AccountHistory`, for all constants: the build and the other routines together. |
| `Register` | Operators: parsing a Register export, SN candidates and their scores. |
| `Submission` | Operators: when a submission is valid, what it refers to and brings along, the checks it raises. |
| `Intake` | Loading orders and Registers and giving SNs, by overlapping sessions, statement by statement. Uses `Register` and `Submission`. |
| `LeftFold` | A fold over a sequence is a loop: what proofs about folds rest on. |
| `Intake_proofs` | Theorems about `Intake` and `ParseRegister`, for all constants. |
| `MasterData` | Operators and one action: loading a master-data file, row by row. |
| `XeroOwners` | Finance editing Xero, the daily sync reading it, the reconciliation, beside `Ownership` and `MasterData`. |
| `XeroOwners_proofs` | Theorems about `XeroOwners` and `MasterData`, for all constants. |
| `MCOrderWorkflow`, `MCApprovalRace`, `MCOwnership`, `MCIntake`, `MCXeroOwners` | Values of constants, a constraint, symmetry. |

### OrderWorkflow

`status`, `header`, `lines`, `checks`, `history`, `ledger` are the tables; `backing` stands for what the gate reads
elsewhere (credit terms, supplier account, signed document, stated totals), which changes at any time. A header
keeps customer, order type, "has an exception reason", "has an SN"; a line keeps its ARR contract and the
content that `validate_line` freezes, reduced to what the rules read: is it recurring, its MRR, its margin, is a loss
explained, is it fully coded. Names of checks, amounts and customers are parameters.

| Action | Code |
|---|---|
| `CreateSalesOrder` | `service.create_sales_order`, with `checks.required_checks` |
| `UpdateHeader`, `AssignSn` | UPDATE of `sales_order` under `tg_sales_order_lock`; `assign_sn` |
| `InsertLine`, `UpdateLine`, `LinkArrRef` | `tg_sales_order_line_validate`, `tg_line_post_arr_on_link`, `service.link_arr_ref` |
| `RaiseCheck`, `RecordCheck`, `RenameChecker` | INSERT and UPDATE of `sales_order_check` under its trigger, `service.record_check`; the last one is an UPDATE that leaves the status as it is |
| `ChangeStatus` | `tg_sales_order_status`, `_history`, `post_arr_movements` |
| `BackingChanges` | any update of the rows behind `backing` |

A command that a trigger rejects rolls back, so it is not enabled. Approval also passes the account to the order's
salesperson; those rows are read by warnings only, never by the gate, and belong to `Ownership`.

### ApprovalRace

A command starts with the UPDATE that takes the lock of one row (the order, the check, a line), waiting for its
holder. Later trigger statements read what is committed by then plus their own writes. An approval runs
`PostOnApproval`, `GateExceptions`, `GateChecks` (triggers fire in the order of their names), a link `FinishLink`;
`Commit` publishes everything at once, `Rollback` may come at any point: a gate that finds something, an error or a
lost connection. An insert of a movement that another session has pending waits for it: the unique constraint.
Every line is an ARR line and its content is one Boolean, "no blocking rule fires on it": amounts are the other
module's subject.

### Ownership

`periods` is `customer_account_allocation` (an open end is the day after the calendar), `left` is
`employee.left_on` (only `employee_leaves` makes an employee inactive, and it sets the date in the same transaction),
`absences` is `employee_absence`, `review` tells for which customer and day `account_history_review` has rows.

| Action | Code |
|---|---|
| `TakeAccountForOrder` | trigger `take_account_on_approval`, `take_account_for_order`, `order_cover_for` |
| `SetAccountOwner` | `set_account_owner`, called by `apply_xero_owners` |
| `AllocateAccount` | `allocate_account` |
| `EmployeeLeaves` | `employee_leaves`, `apply_leaver` (both loops) |
| `LoadAccountAllocation`, `RecordAbsence` | the service functions of those names |

The EXCLUDE constraint is a guard of the loader only: that the routines never need it is an invariant to check, not
an assumption. Which days two periods can fight over is decided by dates alone, so an order is just a customer, a
salesperson, a day and an explicit cover.

### AccountTimeline

One owner or nobody for each account and day, and the last day of those who left. `Give` hands accounts over, each
from a day on, to a house account or to somebody who has not left, and behind no later change (`Passes`; a Xero sync
may pass several in its one transaction). `Record` fills days nobody had with history from a file, `Rebuild` with
history from the Register, `Leave` passes on exactly the days of a leaver after the last one. Whom a file names, and
who gets a leaver's days, is left open: it may be somebody who has left, as the loader and `apply_leaver` do it
(`leaver_order`, below). `Ownership` and `XeroOwners` map to it by `OwnerOn`: the owner of the period that covers the
day.

### AccountHistory

One action, `BuildAccountHistory`: `build_account_history` of `0009` as `0013` redefines it. `History` folds over a
customer's rows like the loop (`NextStarts`: House never takes over; an account that passes twice in a day does not
get a period in between), `PeriodsFrom` closes each period the day before the next, and `Outcomes` applies
`apply_leaver` for every leaver, in any order: `Ownership`'s `Vacated` and `Lost`, of the periods so far.
`RegisterOwner` is the reference: what the owner of a day should be, without any loop.

### Register, Submission, Intake

`ParseRegister` folds over the lines of an export (`ReadRow`; `Reason` is the chain of checks of `parse_register`);
`LayoutKnown` is `_locate_columns`; `Candidates` and `Score` are `v_sn_candidate`. A cell is what is typed in it, and
the constants say which texts spell an SN or the same name. `ValidSubmission` is what `models.py` accepts, the
`...References` are the look-ups that raise, `Attachments` the inserts shared between orders, `RequiredChecks` the
rules of `checks.py`.

`Intake` has the tables `mirror` (`register_entry`), `orders`, `shared` (keys of emails, documents and quotes), and
for every session its transaction `tx`: where it is, what it has read, what it has written. `loaded` (the export of
the last sync that committed), `beside` (the rows other syncs committed after its DELETE had started), `listed` (every
row the mirror ever held) and, in `tx`, `late` are history variables. Exports may be anything: nothing is assumed of
what two of them have in common.

| Action | Code |
|---|---|
| `StartSync`, `Snapshot`, `DeleteMirror`, `InsertRows` | `cli.load_register`, `service.load_register` |
| `ListPending`, `FindBest`, `PickSn` | `assign_pending_sns`, `assign_sn_from_register` |
| `StartMatch`, `StartChoose` | `service.assign_sn`, without and with an SN |
| `LockOrder`, `RunTriggers`, `WriteSn` | `UPDATE sales_order SET sn_ref`: the row lock, `lock_commercials` and `sn_must_be_on_register`, the unique index |
| `StartSubmit`, `UpsertEmail`, `LookForOrder`, `Attach`, `CheckGivenSn`, `InsertOrder` | `create_sales_order` and its helpers |
| `Commit`, `Rollback`, `BreakDeadlock` | `db.unit_of_work`; a lost connection; PostgreSQL's deadlock detection |
| `ChangeStatus` | `change_status`, in one step: only that it needs the order's row and an SN matters here |

`Holds` says who waits for whom: for a deleted row, a key of a unique index, an order's row.

### MasterData, XeroOwners

A master-data row has a kind, a key, and what can go wrong with it: references, a part that may never change, an id
that is unique, days in force. `LoadRow` is one upsert; `Sections` is the order of `load_master_data`.

`XeroOwners` extends `Ownership`. Xero's groups (`member`, `groupName`) change at any time. `StartFetch`, `FetchGroup`
and `FetchFails` are `xero.py`'s reads; `SyncXeroGroups` is `service.sync_xero_groups` with
`refresh_customer_xero_owner`, the view `v_account_owner_reconciliation` and `apply_xero_owners`. `written` keeps, per
period, whether it was written before, at or after the moment Xero's present answer was first seen: this is all that
the view compares. `Adopt` is `set_account_owner` for every adopted account, in the one transaction of the sync.

## 3. Runs

| Run | Question | Result |
|---|---|---|
| `order_gate` | Does what was approved stay clean and frozen; are checks decided, by somebody named, before approval; is a held order validated again; does the workflow implement `CommercialTerms`? | holds, 148,897 states |
| `order_arr` | Over approval, hold, re-approval and late links: each line booked once, only after an approval, none missed? | holds, 340,713 states |
| `approval_race` | What do the order's row lock and the unique constraint save when three transactions overlap? | holds, 503,760 states up to symmetry |
| `ownership` | Whatever the order of approvals, hand-overs, leavers, files, absences and builds of the history: one owner at a time, an account passed or the refusal logged, no start of an ownership forgotten unlogged (NN/E is judged by it), `AccountTimeline` implemented, and a history that is the Register's? | holds, 43,810 states |
| `intake` | Two sessions loading, matching and choosing at once: is no order, submission or SN doubled or lost, does the mirror hold the last export and of others only what its DELETE could not see, is an SN always sourced, does every command end? | holds, 75,996 states |
| `xero_owners` | The daily sync beside edits in Xero, orders, leavers and files: does only a new answer take an account, do accounts settle, do complete files load, and is `AccountTimeline` implemented? | holds, 232,943 states |
| `arr_exact` | Is what is booked what the line says (README.md:27)? | violated |
| `loss_approval` | Has every approved loss a margin check (checks.py:82)? | violated |
| `frozen_lines` | Are lines frozen from approval on (docs/data-model.md:94)? | violated |
| `missed_arr` | Is each linked line of a processed order booked, under overlap? | violated |
| `leaver_order` | Does an account never pass to an employee after their last day (0013:15)? | violated |
| `xero_rename` | Does only a change of the owner in Xero win over the database (ADR 0003:47)? | violated |

**Bounds.** Orders share nothing the properties compare, so one order is enough; two customers and a contract of each
make the customer rules bite. One line shows every gate rule; two are needed for "a link of one line posts the other".
`MaxHistory` 6 fits received, validated, approved, on hold, received, validated; 7 fits the second approval, which the
ledger properties and `HeldOrdersRevalidated` are about (a hold before the first approval shows the latter within 6).
The ARR run fixes the gate open (`GateOpen`): checks and outside data are the other run's subject, so states with them
add nothing to the ledger. In the race, a line can only be booked twice if it is missed first (a link overlapping an
approval) and then two later links post it together: three lines, three sessions. Accounts share nothing, so one is
enough; two salespeople suffice for every routine (a leaver, and the person before or after), and three days give a
period before, on and after any day. The file may hold every period of that calendar. A last day is at most the last
but one of it. The Register holds every sorted sequence of up to three rows of a customer (the shortest in which House
stands between two salespeople, or one of them returns), one with a row without a salesperson and one with a label
nobody has mapped. `HistoryFollowsRegister` looks at every Register in every reachable state.

`intake`: `MaxOrders` 3 is the number of submissions; `MaxCommands` 4, between two sessions, fits two loads and two
matches, or two syncs around a load and its match. Two of the submissions come in one email; two bring the same two
documents in opposite order (the deadlock); two orders want one SN, one by matching, one as given. Three exports: one
with a bad row before a good one with its SN, one that has no SN in common with it, and one whose columns have moved;
overlapping syncs of the first two, and of the first and itself, are the two ways an INSERT can go. Rare combinations of content (terms, tenants, covered employees) are left to the
operators: no property here depends on them.

`xero_owners`: one customer, one contact, two groups, three names, two salespeople and House. `MaxChanges` 3 is the
number of edits, commands and failed reads together: an edit that a sync reads half of, and the edit that undoes it;
an order between two syncs; two names exchanged. `MaxDay` 2: a day before and a day after a hand-over. Syncs and days
are not counted. The four master-data files load in any order and again.

**Fairness.** An order moves when a person moves it, so `order_gate`, `order_arr`, `approval_race` and `ownership`
assume no fairness and claim no liveness. `intake` assumes it for each session's next statement (`WF_vars(Step(s))`: a
program that waits for nobody goes on; nothing forces a command to start) and for `BreakDeadlock` (PostgreSQL ends a
ring of waiting transactions). Commands are bounded, so nobody waits behind an endless stream of others;
`EveryCommandEnds` says that there is no wait but for another command. `xero_owners` assumes `WF_all(DailySync)`: the
task is scheduled daily (ADR 0003:51 "Sync daily", docs/deployment.md:53) and reads group after group. Failed reads
are bounded: Xero is reachable in the end. Days need not pass.

**Deadlock** is checked in every run but `intake`, which stops when all commands have been used. A PostgreSQL deadlock
ends in a `Rollback` (`ApprovalRace`) or a `BreakDeadlock` (`Intake`).

## 4. Disagreements found

1. *ARR is not exact after a correction* (`arr_exact`). Approve, hold, correct an amount (or the order type, or the contract), approve
   again: `post_arr_movements` ends in `ON CONFLICT (sales_order_line_id) DO NOTHING`, so the first figure stays.
2. *A loss can be approved without a margin check* (`loss_approval`). `required_checks` runs when the order is created; a
   line changed to a loss afterwards, with a rationale, raises no check.
3. *A line can change after approval* (`frozen_lines`). `tg_sales_order_line_validate` reads the order's status
   without locking the order; an edit that started before the approval commits after it.
4. *A line can miss ARR* (`missed_arr`). A link and an approval that overlap each see the other's old state; neither
   posts, and `v_arr_ref_outstanding` lists only lines without a contract.
5. *An account can pass to somebody who has left* (`leaver_order`). `apply_leaver` gives a leaver's later periods to the
   owner before them without asking whether that one has left. Periods filed by the master-data loader can do the
   same; the run leaves them out.
6. *Renaming a Xero group takes accounts back* (`xero_rename`). `refresh_customer_xero_owner` compares the names of the groups along with the owner, so a
   rename, or a contact that was out of its group during one sync, restarts `observed_since`: the next sync takes
   the account from the salesperson of a later order.

Two more promises do not hold. They are stated beside the properties that take their place in the runs; put into the
cfg named here, in place of its properties, TLC refutes them in seconds.

- *A check outcome can be put in anybody's name* (`CheckOutcomeOwned` in `OrderGate.cfg`). 0003:156 says that "every outcome is
  recorded against the acting employee (nobody can record a check in someone else's name)".
  `tg_sales_order_check_authority` lets an UPDATE pass that leaves the status as it is (0003:169), and the application and
  every person may UPDATE the table (db/bootstrap/grants.sql:11 and :39): once a check is passed or waived, a second
  statement renames the employee on it (`RenameChecker`). tests/test_authority.py:70 only tries it in the statement that
  changes the status. What is left is `ApprovalDecided`: at approval, every check is decided and names somebody.
- *Overlapping syncs can mix two exports* (`MirrorIsOneExport` in `Intake.cfg`). service.py:850 says "Replace the Register
  mirror with a fresh export, in one transaction". The DELETE of `load_register` (service.py:861) does not see what another
  sync inserts meanwhile, and its INSERT only fails if both exports have an SN in common. Otherwise, or if one of them
  has no row that can be loaded, both commit, and the mirror has the rows of both. What is left is `MirrorReplaced`: the
  last export is there as a whole, and nothing that was there when its DELETE started.

## 5. Proofs

`OrderWorkflow_proofs` proves for every set of orders, lines, customers, contents, checks and employees, and every
`MaxHistory`, from the assumptions of the module: `DataAssumption` (constants are of their kind, an order's header may
gain an SN, NULL is no value), `CheckAssumption` (permissions are sets of employees, "margin_approval" is a check
type) and `HistoryAssumption`.

- `TypeCorrect`: `TypeOK` is inductive.
- `ProcessedStayClean`: inductive with `TypeOK`. The gate establishes it; the lock and `OnlyLinks` leave the content
  alone; a link keeps a line clean because the contract's customer is checked again (`LinkKeepsClean`), and the
  order's margin depends on the contents only (`MarginOfContent`).
- `HistoryUnbroken`: inductive with `TypeOK`. `HeldRevalidated` follows from it: the only way out of a hold towards
  approval is received, then validated.
- `OnlyApprovedBooked` needs a strengthening, `ApprovalsOnRecord`: a processed order has an approval in its history.
- `OneMovementPerLine`: inductive with `TypeOK`.
- `ApprovalsDecided`: an action property, from `TypeOK` and `DecidedNamed`: a check that is decided names somebody, though
  not always the one who decided it (section 4). `AlwaysNamed` proves that this is inductive.
- `ArrAccounted`: inductive; the lemma `ProcessedStep` says what a step can do to a processed order.
- `WorkflowImplementsTerms`: initial states map to initial states and every step maps to a step of `CommercialTerms`
  or to a stutter, under the mapping `PhaseOf`, `TermsOf`.

`Ownership_proofs` proves for every calendar, customer, employee, file and set of absences, from `OwnerAssumption`
(house accounts are no employees, filed periods are periods, NULL is neither owner nor day):

- `TypeCorrect`: `TypeOK` is inductive; no routine makes a period that ends before it starts.
- `OneOwnerAlways`: `OneOwnerAtATime` is inductive with `TypeOK`. Every period a routine writes is part of one period
  there was (`PartsApart`), or the open one, which nothing follows (`PassedToApart`), and a leaver's period is cut
  into two (`VacatedApart`).
- `PassedOrLogged`, `StartsNotForgotten`: action properties, from the two invariants. `OneOwnerAtATime` is needed for the second: only
  because one period covers the day does the log name the start that is lost.

`Timeline_proofs` proves `RoutinesImplementTimeline`, from the same assumption: every step of `Ownership` is a step of
`AccountTimeline` or a stutter, under `OwnerOn`. `HolderIs` turns `OneOwnerAtATime` into "the owner of the day is the
owner of the one period that covers it". Approvals and hand-overs are shown to pass accounts to nobody who has left; of
leavers and files this is not claimed. `PassedToOwner` and `NobodyAfter` tell a hand-over day by day (`Passes`, `Give`),
`VacatedOwner` a leaver (`Leave`), `LoadingIsRecord` a filed period (`Record`). The invariant is needed: with two
periods over a day, its owner would be arbitrary. These theorems are about `Ownership!Spec`, all routines but the build
of the history.

`AccountHistory_proofs` adds the build. It proves for any number of customers and leavers and any Register, from
`OwnerAssumption` and `HistoryAssumption` (finitely many employees, a label without owner is no owner, a customer's rows
are a sequence in the order of their days):

- The loop over the rows, by `FoldIsLoop`: after k rows the periods found so far are `Faithful`. They are in order, none
  starts after a row that is still to come or after its owner's last day, and each day in one of them has the owner
  that the first k rows say (`LabelBy`). `PeriodStarts` and `PeriodGoesOn` are the two things a row can do; a row without
  salesperson does nothing (`EmptyRow`). Because no period starts after its owner's last day, a leaver cuts periods of
  the accounts that are built and never undoes one. `PeriodsFound` turns the starts into periods, day by day.
- The loop over the leavers, by `FoldIsLoop` again: after n of them (`Applied`) House has the days after their last ones
  on the accounts that were built, on the others only days of people who have left have changed hands, and no start
  is forgotten unlogged (`Remembered`). A sequence in `SetToSeqs` has every leaver (`AllLeavers`, by counting), so the
  owners of the accounts that were built do not depend on the order (`OutcomeFound`).
- `HistoryInv` is inductive: `TypeOK`, `OneOwnerAtATime` and `LastDaysEarly` (the day after a last day is on the
  calendar). `HistoryTypeCorrect`, `HistoryOneOwner` and `HistoryFollows` come from it, and `HistoryPassedOrLogged` and
  `HistoryStartsKept` for the routines and the build together.
- `BuildImplementsTimeline`: the build is a `Rebuild`. The accounts without a period are those that nobody ever had
  (`NeverOwned`), and once a row has named somebody, every later day has an owner (`OwnedFromThenOn`).

`ApprovalRace_proofs` proves for any number of sessions, lines and statuses gone through, from `RaceAssumption`. The
invariant `RaceInv` ties the locks to the transactions:

- `LocksHeld`: who runs a command holds the lock of the row it writes. From it, `StillTrue`: what a status change or a
  header edit found when it started still is so when it commits. `WalkUnbroken` and `HeaderStaysFrozen` need no more.
- `HeaderStaysSound` is an invariant together with `StillTrue`, whose last part says that an approval that has passed
  the header's part of the gate keeps its verdict until it commits.
- `PostsApart`: a movement that is not committed is of a line without one, and of one session. `NeverBookedTwice` is this at
  a commit.
- `ApprovalFirst`: a processed order, a movement and a link that posts all come after an approval. `BookedAfterApproval` cannot do without
  the part about links: they read the status, and it may change before they commit.

`LeftFold` proves `FoldIsLoop`: the results after each element of a sequence exist, each comes from the one before, and
the last is the fold. The library defines a fold by recursion over sets of indices, so the proof first shows that this
function exists. Induction on the length is by the least counterexample (`LeastNat`, from the well-foundedness of the
natural numbers): the library's induction theorems, which take a predicate as a parameter, cannot be used.

`Intake_proofs` proves for any number of sessions, submissions, exports and commands, from `SheetAssumption` (an
export's lines are a sequence), `FileAssumption` (emails and exports are different files, NULL is none of them) and
`BoundAssumption`.

- `ParseIsFirstTrusted`, by induction over the lines: `ParseRegister` is `FirstTrustedRows`. Only
  `MirrorIsReplaced` uses it.
- `IntakeInv` is inductive: types (`TypeInv`), what is committed (`CommittedOrders`, `MirrorLoaded`), what each session may
  rely on (`SessionInv`: what it wrote, has seen and holds is so), and what two sessions never do at once (`PairInv`: write
  the same key, or delete the same row). A step changes one session (`Local`), so what the others rely on stays (`OthersRelyOn`,
  `PairsOfOthers`, `LocalKeeps`) and each action has one lemma. `Commit` is the only action that publishes: `CommitForAll` says what
  its rows mean for the tables, `CommitForOthers` what they mean for those who are still running.
- `MirrorIsReplaced` is `MirrorLoaded`. It rests on `Replacing`: of a sync that has started its DELETE, every row of the mirror
  is about to be deleted (`snap`), deleted (`gone`) or was committed by another sync since (`late`). It holds for exports
  with and without a common SN, so the INSERT's failure is not needed.
- `OneOrder`, `OneSn`, `NeverInvented` are parts of `CommittedOrders`. They are not inductive alone:
  two sessions that both passed their look-up would break them, if the unique index (`WritesApart`) did not keep
  them apart until one of them has committed.
- `NothingLost`, `LockedSnStays`: action properties, from the invariant.

`XeroOwners_proofs` proves for any number of customers, contacts, groups (finitely many), people, files and changes,
from `OwnerAssumption`, `XeroAssumption` and `FileAssumption` (a file is a sequence of rows, each of a kind its section
`Holds` and with references its kind `Names`; a group it names is mapped to an owner there is).

- `HistoryNeverRewritten`, by induction over the rows of a file: one row keeps what is history (`LoadingOne`), and so does any sequence of
  them (`LoadingAll`). The same induction shows that every mapped group has an owner.
- `CompleteFilesAreAccepted`, by the same induction: of every row that is there, the file or the rows before it have one with its key, its
  id and its days (`StandsFor`), so nothing can be in the way of a row that contradicts none of them (`NothingInTheWay`).
  What a row names is found because it comes before it in the file (`NamedBefore`): `Sections` is an order in which every kind
  follows those it `Names`, which with customers before employees would be false.
- `LoadedAgainQuietly`: a row that was loaded is `AtHome`: it is there as the file has it, or merged with the one before it, and it would
  not be refused. The rows after it leave it so (`AtHomeStays`), and a row at home is left alone (`AtHomeIsQuiet`). Needs that
  there is at most one row under a key (`OneByKey`, in `XeroInv`), and that the file names no row twice (`NamesOnce`, as in all files
  of the run). Without the second it is false: a file with a customer twice, first with a Xero contact and then without it, and
  after it another customer with that contact, loads once and is refused the second time.
- `XeroInv` is inductive. `ReadOnce`: a group is read once, under one name, although it may be renamed between two reads; without
  it a contact in one group could count twice (`AnswerType`). `SeenBefore`: no answer is dated after today. `Explained`: where
  Xero's answer names somebody who is still here, the owner of the day it was first seen is that one, or got the
  account afterwards (`written` is not "before"), or the account changes hands later.
- `SyncByCustomer` tells a sync customer by customer; `SyncGives` says that it passes the account to somebody who is
  still here and before whom nobody comes, or leaves it alone. `XeroTypeCorrect` and `OneOwnerBesideXero` follow with the lemmas of `Ownership_proofs`.
- `OldAnswersTakeNothing` needs `Explained`: were an account taken by an old answer, its period of today would be older than the
  answer and reach back to the day of it (nothing changes later), so the owner of that day would be the one Xero names.
- `SyncImplementsTimeline`: a sync is a `Give`, everything else a step of `Ownership`, or a stutter.

Every invariant and action property of the passing runs is stated by a theorem. Only model-checked: all liveness
(`EveryCommandEnds`, `EventuallySettled`), which is out of the prover's reach, as is everything about ENABLED.

## 6. Not modelled

- *Order workflow.* The dates of ARR movements and the `arr_at`/`arr_bridge` sums; GL codes defaulted by a trigger;
  a statement that gives a check or a line another key (order, check type, line number); non-standard credit terms; who is logged in (an
  employee is a parameter of the action).
- *Warnings.* NN/E, `XERO_OWNER_MISMATCH` and the other rules that block nothing, `customer.existed_before`, which only
  they read, and the lists printed for people.
- *Ownership.* Overlapping ownership transactions: each is one step.
- *Intake.* Rounding: amounts are whole, so the generated columns of a line are exact. The rows of one `executemany` are inserted in one
  step. A new order takes the smallest unused id. An order number is an SN and is typed like one.
- *Xero and master data.* Allocations and absences in master-data files are loaded in `Ownership`; `customer.is_active` is true. Times are
  kept as before, at or after the moment Xero's answer was first seen.
- *Outside.* The parsing of emails and workbooks into submissions, Xero's HTTP and tokens, printing and argument
  parsing, the audit log (one row per change, which no rule reads), grants, containers, alembic.

## 7. Plan

Done, in this order: `CommercialTerms` and `OrderWorkflow`, `ApprovalRace`, `AccountTimeline` and `Ownership`,
`Register`, `Submission` and `Intake`, `MasterData` and `XeroOwners`, `AccountHistory`, the refinement of
`AccountTimeline`, and the theorems about `ApprovalRace`, `Intake`, `XeroOwners` and `AccountHistory`. Next, models:
rounding, and the NN/E rule over `AccountHistory`.
