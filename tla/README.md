# A TLA+ model of Nabio Elege

Nabio Elege is a Django application that runs the administration of an
electoral campaign: forms and the people who answer them, tasks, finance,
purchasing, stock, bookings, documents, and the closing of the campaign. Web
requests run concurrently against one PostgreSQL database; background work goes
through a transactional outbox and Celery. This directory holds TLA+ modules
that model it, the configurations that check them with TLC, and theorems about
them that TLAPS proves. Source paths below are relative to `src/`.

## The system

| Component | State | Operations | Interaction |
| --- | --- | --- | --- |
| Outbox (`apps/core/outbox.py`, `tasks.py`) | `OutboxEvent` rows: status, attempts, available_at, updated_at | enqueue, select a batch, claim, send, publish, record a failure | written in the transaction of the business operation; read by a task that Celery beat starts every 5 s; sends task messages to Redis |
| Submission processing (`apps/forms/processing.py`, `tasks.py`) | `Submission.processing_status`, `Person`, `ContactPoint`, `ServiceRequest` | `process_submission` | called by Celery for a message of the outbox, retried when it raises; writes outbox events of its own |
| Form intake (`apps/forms/public_services.py`, `services.py`) | `Submission`, `SubmissionReceipt`, `Manifestation`, `IdempotencyRecord` | public and assisted submission | enqueues `submission.accepted.v1` |
| Form publication (`apps/forms/services.py`, `apps/workspace/form_views.py`) | `Form`, `FormVersion`, `PrivacyNoticeVersion`, `SourceLink` | draft, review, publish, pause, close | the intake reads what it publishes |
| Stock (`apps/operations/services.py`, `apps/workspace/services.py`, `views.py`) | `StockBalance`, `StockMovement`, `StockReservation` | entry, return, exit, reserve, release, consume | under the campaign lock; purchase receipts are entries |
| Finance (`apps/finance/services.py`, `apps/workspace/services.py`) | `Obligation`, `PaymentRecord`, `PaymentAllocation`, `BankEntry`, `ReconciliationLink` | submit, approve, reject, allocate, reconcile, reverse | orders create obligations; archiving asks whether all are paid |
| Commands (`execute_action`, `module_edit`) | `IdempotencyRecord`, `row_version` of every record | look a command up, check the version, run the action, record it | the gate to all workspace records |
| Tasks (`apps/operations/services.py`) | `Task`, `TaskDependency` | add a dependency, start, block, review, complete, reopen, cancel | archiving asks for open tasks |
| Purchasing (`purchase_action`) | `PurchaseRequest`, `PurchaseItem`, `PurchaseOrder`, `PurchaseReceipt` | add item, submit, approve, reject, receive | creates obligations and stock entries |
| Bookings, trips, shifts (`validate_booking`, `review_action`) | `AssetBooking`, `LogisticsTrip`, `ElectionShift`, `FieldActivity`, `FieldAssignment` | create, edit, approve, accept, check in, complete, cancel | share assets, vehicles and people |
| Documents (`document_services.py`) | `Document`, `DocumentVersion`, private files | upload, rescan, download | ClamAV over the network |
| Accounting (`apps/workspace/services.py`) | `BudgetVersion`, `BudgetLine`, `AccountingBatch`, `FilingRecord` | add a line, approve, snapshot, review, export, file | reads payments and reconciliations |
| Login (`auth_views.py`, `security.py`) | attempt guards, `SecurityProfile`, sessions | login, second factor, recovery code, revocation | every request |
| Membership (`views.py`, `auth_views.py`) | `Membership`, `Invitation`, `Role` | invite, accept, revoke | permission checks of every operation |
| Closure (`campaign_phase`) | `Campaign.phase`, `ClosureItem` | next phase, archive | asks every other component for open matters |

What is hard in it, and where, is the `hazards` list of `PROJECT.json`: each
entry names the line where it bites and the properties that would catch it.
The recurring themes are three. *Requests overlap*: almost every operation is
"read, decide, write back", and what keeps two of them apart is a row lock,
often the campaign's, taken as a side effect of another purpose. *Messages and
processes fail*: the outbox delivers at least once, workers die between two
commits. *Decisions go stale*: a request decides with a copy it loaded before
it waited for a lock.

What makes each component correct: a row that says published was sent and every
row is settled in the end (outbox); each submission has its effects exactly once
and a person is registered once (processing); the balance is what the rows say
and nothing is promised twice (stock); no payment or obligation is allocated
beyond its amount and a reversed payment counts nowhere (finance); the
dependency graph has no cycle (tasks); receipts never exceed the order
(purchasing); no resource is used twice at once (bookings); an archived campaign
changes no more (closure).

## The modules

| Module | Models | Checked by | Proved in |
| --- | --- | --- | --- |
| `Outbox` | the outbox rows and any number of overlapping `dispatch_outbox` executions | `MCOutbox`, three runs | `OutboxProofs` |
| `Registry` | what the processing of submissions promises: each submission is processed in one indivisible step | as a property of `pipeline` | `PipelineProofs` |
| `Pipeline` | `Outbox` composed with the Celery tasks that process submissions | `MCPipeline`, two runs | `PipelineProofs` |
| `Stock` | movements, reservations, balances and the archiving of the campaign | `MCStock`, two runs | `StockProofs` |
| `Ledger` | what the stock promises: every movement, reservation, release and consumption is one step, decided on the sums of the rows | as a property of `stock` | `StockProofs` |
| `Books` | what the finance promises: every operation is one step on the books, and what counts follows from the payments alone | as a property of `finance` | `FinanceProofs` |
| `Finance` | obligations, payments, bank entries and what links them | `MCFinance`, two runs | `FinanceProofs` |
| `Desk` | how the workspace changes a record: the campaign's lock, the reading, the writing | in all that follow | – |
| `TaskGraph` | tasks and their dependencies | `MCDesk` | `OfficeProofs` |
| `Purchasing` | requests, items, orders, receipts, the obligation of an order | `MCDesk` | `PurchasingProofs` |
| `Review` | the workflow of all reviewable records, decisions, publications | `MCDesk` | `ReviewProofs` |
| `Bookings` | asset bookings, trips, shifts, events, on top of `Review` | `MCDesk` | `ReviewProofs` |
| `Field` | workers, activities, assignments, on top of `Review` | `MCDesk` | `ReviewProofs` |
| `Accounting` | budgets, batches with their manifest, filings | `MCDesk` | `OfficeProofs` |
| `SecondFactor` | one-time and recovery codes, failed attempts, enabling | `MCDesk` | `OfficeProofs` |
| `Documents` | uploads, scans, private files | `MCDesk` | `OfficeProofs` |
| `Access` | memberships and invitations | `MCDesk` | `OfficeProofs` |
| `Workspace` | all areas from `TaskGraph` to `Access` | `MCDesk` | `OfficeProofs` |
| `Forms` | purposes, forms, versions, review, publication | `MCForms`, `MCIntake` | `FormsProofs` |
| `Intake` | `Forms` with submissions, idempotency keys, service requests, the campaign's phases | `MCIntake` | `FormsProofs` |

How they are composed:

- `Pipeline` EXTENDS `Outbox` and shares its variables: a task takes a message
  that the outbox counts as sent. `Registry` is instantiated in `Pipeline` under
  the name `Reg`, over the variables that stand for the tables.
- `Desk` is what almost all operations of the workspace have in common and is
  EXTENDED by every module of an area. `Bookings` and `Field` EXTEND `Review`
  and use its actions for the events, trips, shifts and activities whose
  cancellation reaches other rows; `Intake` EXTENDS `Forms` and interleaves its
  requests with the public's.
- `Workspace` puts the areas side by side. Records of different areas share only
  the campaign's row, so a behaviour stays in one area; that the areas keep each
  other waiting adds no order in which rows are read or written.
- `Stock` and `Finance` look closer at the same gate: at the look-up of a
  command and at the row locks taken after the campaign's. Each instantiates
  what it promises: `Ledger` under the name `Rows`, over the variables that
  stand for movements and reservations; `Books` under the name `Atomic`, with
  `decision` and `reversed` read off `state`.

In all modules a row that does not exist yet is `"absent"` (or `None`, where a
row is a record), a transaction's writes appear at once when it commits, and a
row lock is a variable that says who holds it. Definitions whose names say
With..., Without..., ...Unlocked, ...Misspelt, ...WhenShown and the like, and
which stand right before a definition of the same beginning, are plausible
faults of it; no specification uses them (`PROJECT.json`, `mutants`, says which
property each of them breaks).

### Outbox

| Model | Code |
| --- | --- |
| `status`, `attempts`, `wait`, `age` | `OutboxEvent.status`, `attempts`, `available_at` − now, now − `updated_at` (up to just past the five minutes) |
| `stage`, `batch`, `claimed` | where an execution of `dispatch_outbox` is: the ids it selected, the row it claimed |
| `sent` | messages the broker accepted for a row: nothing in the code counts them |
| `Enqueue` | `enqueue_outbox_event`, `core/services.py:41-61` |
| `SelectBatch`, `Claim`, `Skip` | `core/tasks.py:10-20`, `claim_outbox_event` |
| `Send`, `SendRaises` | `current_app.send_task` and its `except`; a send that raises may have reached the broker |
| `MarkPublished`, `RecordFailure` | the two final writes, by primary key |
| `Crash`, `FinalWriteRaises` | the process dies between two transactions; the final write itself raises and the loop swallows it |

Each action is one transaction of the code, or the call between two. The
selection is an action of its own, so that rows are claimed by id long after
they were selected. The final writes look neither at the status nor at who
claimed the row, as in the code: two workers may hold one row once the claim is
stale.

### Registry and Pipeline

`process_submission` is one transaction with four points at which others may
interfere: before its first query (`Take`), once that has locked the
submission's row together with the form's and the campaign's (`Lock`, because
`select_for_update` with `select_related` locks the joined rows too), after the
search for known contacts (`SearchContacts`), and at the commit (`Commit`).
`AlreadyDone` is the early return for a submission that is not `received`. `Raise` rolls back and
lets Celery publish the message again, up to `MaxRetries`; `Kill` loses the
message, because Celery acknowledges a message when a worker takes it
(`task_acks_late` is not set). Encrypted values and blind indexes are left out:
two contacts match when they are equal. `RegisterByHand` is the elector form of
`module_edit`, which inserts a contact without searching for it.

### Stock

A request goes through `Arrive` (the page is loaded and its campaign copy read),
`Lock` (the campaign's row), then `Repeated` (the command was recorded before)
or `Read` (the checks, and the balance read into memory), then one of the
commits or `Refuse`. The three routes of the code differ in what they look at
after the lock, and `Admitted` keeps the difference: a movement and
a consumption read the campaign again (`operations/services.py:62-68`), a release
(`execute_action`) and a new reservation (`module_edit`) do not. `booked`,
`moves` and `made` record what was committed; `quantity`, `place` and `rstatus`
are the reservation rows. `Archive` is `campaign_phase` with the one of its
blockers that concerns stock, active reservations.

### Finance

| Model | Code |
| --- | --- |
| `state`, `amount` | `approval_status` or `status`, and `amount_cents` (of a bank entry its absolute value: only debits are reconciled) |
| `alloc`, `link`, `undone` | `PaymentAllocation`, `ReconciliationLink`, its `reversed_at` |
| `Arrive` | somebody posts from the page of a record; `shown` is the amount on it |
| `stale` | the page's `row_version` is no longer the record's |
| `Enter` | `execute_action` or `module_edit` gets the campaign's row |
| `LockRow` | the object first, and its version compared; then the rows the service locks |
| `Edit`, `Submit`, `Decide`, `Allocate`, `Reconcile`, `Reverse` | the services of `finance/services.py` and the reversal in `run_domain_action` |
| `Refuse` | any `ValidationError`, permission, repeated command or broken connection: the transaction leaves nothing |

Sums are cardinalities of sets of cents, so that they can be reasoned about
without recursion. Row locks are taken one at a time, so that waiting can be seen; the reads
and the write of an operation are one action at the end, since the rows they
concern are all locked by then. Allocation rows of a payment survive its
reversal, as in the code, and stop counting for the obligation.

### Desk and its areas

| Model | Code |
| --- | --- |
| `Begin(q, j)` | `Campaign.objects.select_for_update()`, the record's lock and version (`workspace/views.py:171-176`, `453-469`), then everything the operation's checks read |
| the guards ...`Allowed` | the conditions of `run_domain_action`, `module_edit`, `validate_booking`, `clean` |
| the actions that `End(q)` | the saves and the commit |
| ...`Rollback` | any error, also one nobody foresaw: the transaction leaves nothing |

The reading and the writing are two steps on purpose: what a check found may be
out of date when its conclusion is written, unless something keeps the others
away. An operation of another area that does not take the campaign's row
(`Export`, `BeginRescan`, `ReadInvitation`, the public's submission) interleaves
with both. If `Begin` lets two requests in at once (`BeginUnlocked`), `NoCycle`
fails, and so do other properties of the run.

- `TaskGraph`: `progress` is `Task.status`, `edges` the rows of
  `TaskDependency`. `Visited` is the search of `add_task_dependency`, defined by
  the closed sets it never leaves, so that it can be reasoned about without
  recursion. A cancelled predecessor is not completed and blocks its successors
  for ever (`operations/services.py`); the model has it as the code has.
- `Purchasing`: `price` and `owed` keep the order's amount apart from the
  obligations created with it, `received` and `stocked` are the sums of the
  receipts and of the stock entries they make. An edit can move a draft order to
  another request; the one-to-one column is checked when the row is saved.
- `Review`: `fields` is everything a form may change, so that an approval is
  about a value; `decisions` holds one pair per `ReviewDecision`.
- `Bookings`: `custody` and `booking` are an `AssetBooking`; the fields of a trip
  or shift are the record's `fields`. `BookingFree`, `TripFree` and `ShiftFree`
  are the queries of `validate_booking` and `run_domain_action`; a trip or shift
  is validated when it is approved and again when it starts.
- `Field`: `staff`, `trained`, `duty`, `place` are a worker, its training, an
  assignment and what it joins.
- `Accounting`: the snapshot is two queries (`seen`, then the rest); a reversal
  is the only change of finance they could see half of.
- `SecondFactor`: a page is two transactions, the verification of the code and
  the enabling (`verified` in between). Time is the period of 30 seconds.
- `Documents`: the upload scans, stores, then writes its rows; each of the
  three may fail, and the commit may. A rescan holds the document's row only.
- `Access`: `waiting` is a request that was let through before it has the
  campaign's row; an acceptance locks only its invitation.

### Forms and Intake

`Forms` has the requests of the builder, of the API's publication and of the
workspace's forms for purposes and forms. `Intake` adds those that do not hold
the campaign's row: a public submission locks link and form (`ReadAndLock`),
reads the phase unlocked, and waits for the campaign only when its inserts
reference it (`Submit`). `FormFree` is the form's row. The builder and the
assisted submission look at the phase under the lock; `module_edit` and
`execute_action` do before it, so that a purpose, a form or an item of the
checklist may still be saved in an archived campaign: the model lets them, and
`ArchivedStaysClosed` says what stays closed all the same. `ProcessSubmission`
is `Registry`'s single step; it asks for no phase.

## What the runs check

| Run | Instance | What it shows |
| --- | --- | --- |
| `outbox` | 2 workers, 2 rows, limit 3, 1 crash | safety of rows that are selected, taken over, written late |
| `outbox_live` | 2 workers, 1 row, limit 3, 2 crashes, backoff up to 3 | every row is published or given up in the end, and stays so |
| `outbox_limit` | 1 worker, 1 row, limit 2, 1 crash | the limit of attempts is exceeded (a finding) |
| `pipeline` | 2 submissions that share a contact, 2 tasks, 1 dispatcher, 2 raises, 1 retry, 1 kill, 1 crash, 1 elector by hand | one person per contact, effects once, review only when justified; implements `Registry` |
| `pipeline_live` | 2 submissions, 2 tasks, 1 raise, 1 retry | an accepted submission is processed or sent to review |
| `stock` | 1 balance, 2 reservations, 2 commands, 2 requests, amounts 1 and 2, 3 units at most | balances match rows, nothing is promised twice, commands take effect once, archived stock stands still; implements `Ledger`; 679 134 states |
| `stock_archive` | the same, smaller | a reservation is created after the campaign is archived (a finding) |
| `finance` | 1 obligation, 2 payments, 1 entry, 2 requests, records of 1 or 2 cents, shares of 1 | limits, statuses, reversals, stale pages, lock order; implements `Books`; 1 190 337 states |
| `finance_locks` | 1 payment, 1 entry, 1 request | an entry is locked before a payment (a finding) |
| `desk` | 2 requests in each area, see below; 504 062 states | `Workspace`: the safety properties of all areas |
| `intake` | 2 people, 1 form, 2 purposes, 2 versions, 2 requests, 2 public submissions, 2 contents under 1 key, at most 2 accepted, 1 item of the checklist; 473 172 states | reviewed by another, answered is stored, archived stays closed |
| `form_fields` | 2 people, 1 purpose, 1 form, 1 version, 1 optional field, 2 requests | a form is published with a field its purpose does not allow (a finding) |

What `desk` says of each area, by its properties:

| Area | Records | Property |
| --- | --- | --- |
| tasks | 3 tasks | `NoCycle`: no tasks that wait for each other; `PredecessorsFirst`: nothing is started or completed before what it depends on |
| purchases | 2 requests, 2 orders, 2 items (1 in stock), amounts 1 and 2, quantities up to 2 | `ReceiptsWithinOrder`: no delivery beyond the order, stock and status agree with the receipts; `OneObligationPerOrder` |
| contents | 1 content, 1 proposal, 2 texts | `ApprovedUnchanged`: what is carried out or published is what was approved (also in the next three areas) |
| bookings | 1 car, 1 van, 1 driver; 2 bookings, 2 trips, 1 event | `NoDoubleUse`: no asset, vehicle or driver in two places at a time |
| shifts | 2 shifts, 2 periods, one person or none | `NoDoubleUse`, of responsible people |
| field | 2 workers, 2 activities (1 a training), 2 assignments | `StaffAvailable`: whoever is expected somewhere can be there |
| accounts | 2 budgets of up to 2 lines, 2 batches, 2 payments | `AccountsAsSigned`: one approved budget, unchanged since; a manifest of one moment |
| factor | 4 periods, 2 recovery codes, 2 failures | `CodeOnce`: a code is accepted once, recovery codes shown once |
| documents | 2 documents | `AvailableForGood`: evidence stays available, with its file |
| access | 2 users, 1 founder, 2 invitations | `InvitationOnce`: every entry used up an invitation of its own |

*Bounds.* Two of everything that races is where each of these hazards first
shows: one to overtake the other. `MaxCrashes`, `MaxRaises`, `MaxKills` and
`MaxRetries` bound faults; each is large enough that the fault hits every stage
of the operation and that another one can follow in a different process. The
limit of attempts (ten in the code), the five minutes of a stale claim and the
backoff are scaled down, keeping first, middle and last attempt apart (limit 3)
and a claim that has to age (StaleAfter 1 or 2). `MaxQuantity` 3 of `Stock` is
the largest value of the quantity column, small enough to be exceeded. In
`finance` two payments compete for one obligation and one entry, each record may
be larger than, equal to or smaller than what is asked of it, and an entry of two
cents goes through unreconciled, partial and reconciled and back. In `desk` three
tasks are the fewest with a cycle no single check sees; quantities of 2 are
received in parts, exactly, and too much; the periods of bookings and trips
overlap, touch and lie apart; four periods let a code be too early, valid in all
its three, and too late (`MaxPeriod`), two failures freeze a profile
(`MaxFailures`), and two lines tell a budget that has grown from one that has not
(`MaxLines`). In `intake` one key with two contents is the retry and the
conflict, two versions the conflict of versions, `MaxAccepted` 2 leaves one
submission behind while another is processed; optional fields are left to
`form_fields`, which has the smallest instance that has any.

*Deadlock* is checked in `outbox`, `pipeline` and `finance`. In the other runs
(`CHECK_DEADLOCK FALSE`) the system may really stop: the stock of an archived
campaign has nothing left to do, and where rows are never deleted all ids of the
instance are used up and all records reach their last status.

*Symmetry* is used for workers, tasks, requests, people and records that the
specification does not tell apart, and only in runs without liveness. A name of
`MCDesk.cfg` such as `m1` stands for rows of different tables in different areas;
the permutations map each of these sets to itself.

*Fairness.* `Outbox`: the clock advances; Celery beat starts the selection
every five seconds (`settings.py:157-162`), so weak fairness of `SelectBatch`; an
execution that has begun goes on unless its process dies, so weak fairness of
`Dispatch`. `Crash`, `FinalWriteRaises` and `Enqueue` have none. `Pipeline`: a
task may be enabled and disabled again while others hold the campaign's row;
PostgreSQL queues lock waiters, so a task that asks again and again gets it:
strong fairness of `Run`. `EventuallyDone` is stated for runs in which no worker
is killed and no task raises more often than it is retried, since the code
has no recovery for those: a submission whose message is lost stays `received`.

## Findings

1. `outbox_limit`: the limit of attempts is not one. A dispatcher that dies
   while it holds the last attempt leaves a claim that goes stale and is taken
   over without asking how many attempts there were (`core/outbox.py:20-24`; the
   limit is looked at only in `_record_failure`, line 55). What does hold, and
   is proved, is `AttemptsBounded`: the excess is at most one for each other
   dispatcher and for each death.
2. `stock_archive`: a reservation that waits for the campaign's row while the
   campaign is archived is created in the archived campaign
   (`workspace/views.py:158-171`). Movements are not affected, and that is proved
   (`ArchivedStockFrozen`).
3. `finance_locks`: the lock order that a comment promises
   (`finance/services.py:105`) is not the one of the only path there is. The
   campaign's row makes it harmless (`NoCircularWait`, proved).
4. `form_fields`: the fields of a version are compared with its purpose when it
   is drafted (`workspace/form_views.py:43-44`) and never again; the purpose is
   still a draft then. A purpose that loses the field before the approval
   leaves a published form that refuses every submission
   (`forms/public_services.py:86-87`).

## What else was seen

Behaviour of the code that the models have, and that no document of the
repository contradicts:

- Who decides is compared with the creator of a record. Somebody who edited the
  draft later may approve it (`workspace/services.py:38-40`).
- A cancelled predecessor blocks its successors for ever: the only way on is to
  cancel them too.
- A booking may be made for an event that is cancelled already; only the
  cancellation of an event looks at its bookings.
- The server runs an action that the status allows, whether or not the page
  would have offered it (`available_actions` is for the page).
- A membership that is revoked makes the records that name it fail `full_clean`:
  an asset in the custody of somebody who left cannot be returned, and its
  booking keeps the campaign from being archived. The models have it as one of
  the refusals.
- A submission accepted before the archiving is processed after it and opens a
  service request that nobody can close.
- Two managers may revoke each other: both permissions are read before the
  campaign's row is locked.
- An upload that fails after `upload_document` returned leaves a file without a
  row; never a row without a file (`AvailableForGood`).

## What is proved

The theorems hold for all values of the constants that satisfy the named
assumptions: finite sets of workers (`Outbox`) and of records (`Finance`),
natural limits, tables with different ids, periods that end after they start,
finite sets of contacts, `None` apart from everything else. None limits the
number of rows, requests or amounts. Each is proved for the specification of its own module: `Spec` of
`Outbox`, `Stock` and `Finance`, and `PSpec`, `TaskSpec`, `PurchaseSpec`,
`ContentSpec`, `BookingSpec`, `FieldSpec`, `FormSpec`, `IntakeSpec`,
`AccountSpec`, `FactorSpec`, `DocSpec`, `AccessSpec`; and what is proved of the
areas once more for all of them together, the `Spec` of `Workspace` that the run
`desk` checks. Every invariant, action property and refinement that a passing
run checks is proved; `ConsumedOnce` of `Stock` and `SentWithinAttempts` of
`Outbox` are proved and have no run of their own any more: `ImplementsLedger`
says the first and more, and of the second, which is an invariant of the same
proof, `AttemptsBounded` is the part the code's limit is about.

*Outbox.* `PublishedWasSent` and `GivenUpOnlyWhenExhausted` are not inductive.
The invariant adds `WorkersInv` (a worker holds a row exactly while it is
dispatching it, and one that confirms has sent), `SentInv` (messages plus workers
about to send are no more than the attempts) and `AttemptsInv` (a row claimed
beyond the limit was taken over from workers that are still there or died).
`AttemptsInv` is what makes `AttemptsBounded` true: a take-over that goes beyond
the limit leaves a holder behind, and a holder only disappears by writing, which
gives the row up, or by dying, which is counted.

*Pipeline.* `PInv` adds two parts to the properties of the tables. `OwnerInv`: a
task past its first query owns the campaign's row, its submission is still
`received`, and what its search found is still so; since the owner is one, nobody
else writes a contact or registers one by hand in between. `KnownInv`: rows of
the outbox, messages and repeated messages are about accepted submissions only;
it uses the invariant of the outbox (`OutboxKeepsKnown`), of which every step of
the pipeline is a step or a stutter (`OutboxStepOrNone`). `ContactsStayApart`,
`EffectsHappenOnce` and `ReviewsAreJustified` are parts of `PInv`.
`RefinesRegistry` maps the intake, the registration by hand and `Commit` to the
steps of `Registry`, and everything else, faults included, to a stutter;
`OwnerInv` is what turns a commit with an old search into `Process`.

*Stock.* The invariant says that whoever is past the lock is alone (`LockInv`),
that what it read is still so (`ReadInv`: command unknown, reservation active,
balance unchanged) and that reservations and balances are well formed
(`RowsInv`). `BalanceMatchesRows` follows from `ReadInv` at each commit; the
cardinality lemmas about the units held are there for the step that adds or
takes away a reservation. `StockImplementsLedger` maps each commit to the step of
`Ledger` that decides on the rows: what a request read of the balance is the
balance (`ReadInv`), and the balance is the rows (`BalanceMatchesRows`,
`LedgerFree`), so the decision is the one that the rows would have given; the
command looked up is the one that has not moved anything yet, the reservation the
one that has not left. An arrival, a lock, a reading, a refusal and the expiry of
a reservation change nothing there.

*Finance.* `LockInv`: whoever is inside a transaction holds the campaign's row
and is alone. `ShownInv`: a page that is not stale shows its record as it is,
and nobody gets past the lock of the object with a stale one. `BooksInv`: an
obligation with allocations is approved, so an edit cannot go below them; a
reversed link has a row. From these, and the lemmas on how each step changes the
four sums (`AllocationSums`, `ReconciliationSums`, `ReversalSums`), follow
`WithinAmounts`, `EntryStatusTrue`, `ReversedCountsNowhere`, `NoCircularWait`
and `DecidedAsShown`. A reversal removes at least one cent from each of its
entries, which is why the code's "partial if anything is left" is the same as
the status that reconciling would have given. `FinanceImplementsBooks` needs one
invariant more, `UndoneReversed`: no link is marked but by the reversal of its
payment. With `ReversedCountsNowhere`, which is the converse, the marks say no
more than the payments, so the sums over unmarked links are the sums of `Books`
over payments that count (`SameBooks`); and a page that got past the lock shows
an amount that is there, so that its record exists in the books.

*The areas of the desk.* None of the properties is inductive, because a
conclusion is written in a later step than it was drawn. All the invariants have
the same two parts beside the property: a request that has begun is alone
(`Begin` asks that no other has), and what it has been let in to do is still
allowed by the rows as they are: nobody else could change them. The parts that
differ:

- `OfficeProofs`, tasks: `Acyclic` follows from `EdgeKeepsNoCycle`: if the search
  from the new predecessor does not find the task, some closed set holds the
  predecessor and not the task, and a cycle of the new graph that meets that set
  was one before. Cycles and the search are both defined by sets, so no induction
  over paths is needed. `InOrder` reads `PredecessorsFirst` off the
  pending request. `TaskTypes` is the type invariant both use.
- `ReviewProofs`: `ApprovalStands` needs that a decision is made once per record
  (a record never returns from `approved`). `UsesApart` and `StaffCanCome`
  need that a record past its approval keeps the fields it was validated with,
  so that a later check of another record sees what the earlier one saw;
  overlapping is symmetric. `BookedApprovalStands` and `FieldApprovalStands` say
  the same of events, trips, shifts and activities as `ApprovalStands` of
  contents; the lemmas of the common workflow (`SaveKeepsApproved`,
  `ActionKeepsApproved`) serve all three. They need that contents are no trips,
  shifts or activities (they are different tables).
- `PurchasingProofs`: `Grounds` adds what is so before an order is approved: it
  has its request to itself, a draft has received nothing, a submitted request
  has an item and no more are added to it, an item nobody received is not in
  stock. `ReceiptsFit` and `OneObligation` rest on it.
- `FormsProofs`: `PublishedWasReviewed` follows approvals through later edits:
  while a form is a draft its purpose may change, which the notice of the version
  reveals at the publication (`NoticeFits`), and no author ever changes. For the intake,
  `ArchiveCloses` and `AnswersAreStored` rest on `IntakeInv`: a public post has
  the lock of a form, which stays published until it commits (`FormsHeld`), and a
  request that was let in keeps what it relied on: as long as it has the
  campaign's row nobody archives (`RequestsAllowed`, `NothingOpen`). That the
  submissions change nothing an approval was about is `FormsInIntake`, from which
  `ReviewedInIntake` and the type invariant follow.
- `OfficeProofs`, the rest: `CodesOnce` (no code later than `last` was accepted, `UsedInOrder`; a page
  that will show recovery codes found the factor not enabled), `AvailableStays`
  (the document under an upload or a rescan is not available),
  `AccountsStand` (at the last query of a snapshot the payments are still as
  `seen`), `EntriesAreInvited` (an invitation being accepted is held by one
  request and in nobody's entries).
- `OfficeProofs`, all areas: `WorkspaceInv` has the invariant of the area people
  are in (`AreaInv`), the properties of all areas (`Orderly`), and that nothing
  is booked, on duty or stored where nobody does that (`OthersIdle`): contents
  and activities share the table-like variables of `Review` with trips and
  shifts, and that none of these starts to run in their areas is what
  `UnbookedKept` shows. A step keeps the invariant of its own area by the lemma of
  that area's module and the properties of the others because it leaves their
  rows alone (`OthersKept`). From it follow `WorkspaceTypes`, `WorkspaceOrderly`
  and `WorkspaceDecidesNow`, the reason behind all of them: what a request was
  let in to do is still allowed when it writes.

*Only model-checked.* `EventuallySettled` and `EventuallyDone`: liveness under
fairness, and ENABLED, are beyond the prover. The findings, which are
counterexamples. No module declares a RECURSIVE operator, so that nothing
recursive had to be left out of the proofs.

## Abstractions

- Outbox: the batch limit of 100 and the order of the selection are left out (a
  batch is everything that is due), and so are event kinds without a task and
  the payload. `drain_local_queue` and the inline processing of submissions run
  only with `LOCAL_DEMO`, on SQLite, and are not modelled.
- Pipeline: the tenant's row, encryption, retention and audit rows are left out. Publishing again
  with a delay is publishing again at any time.
- Commands: the scope of an idempotency record includes the actor; commands are
  random UUIDs, so a command belongs to one actor and page. Expiry of the records
  after 24 hours is not used by any look-up.
- Stock: quantities are whole numbers up to the column's largest. Purchase
  receipts, which call the entry movement, belong to purchasing.
- Finance: one currency; payments and entries cannot be edited (`registry.py`),
  drafts of obligations can. That the creator of an obligation may not decide it
  is one of the refusals. Statuses no code assigns (`verified`,
  `divergent`, `cancelled`) are left out. Obligations that purchase orders create
  enter as records. The refusal in an archived campaign is a refusal.
- Desk: a refusal changes nothing and is not an action; permissions, reasons,
  evidence documents, expiry dates and the independence of an approver are among
  the reasons for one. Where independence is the property (`Forms`), it is
  modelled. A page's version and the repetition of a command are in `Finance` and
  `Stock`; here the id of a new row stands for its command.
- Purchasing: what becomes of an obligation after it was created is in `Finance`,
  of stock in `Stock`.
- Second factor: one account whose secret is set. HMAC and hashes are equality.
- Intake: a link stands for all links of a form; the texts of notices and fields
  are left out, a version asks a set of optional fields; a receipt and a
  manifestation are inserted with the submission and never change. The rows a
  transaction waits for are taken in one step, so that two transactions that wait
  for each other cannot be seen. Tasks, obligations, reservations and bookings
  that keep a campaign from being archived are reasons for a refusal.

## Not modelled

- The inverse lock order of the processing (campaign, form) and of a public
  submission (form, campaign): whether PostgreSQL ends in a deadlock that it
  breaks by an error depends on the order in which it locks the rows of a joined
  query. An error rolls one of the two back: the task is retried, the visitor is
  told that the submission failed.
- The review of fiscal receipts and of in-kind contributions, the verification
  and suppression of an elector's contact: one step each, on a row that nothing
  else depends on.
- Login attempts and their guards, sessions and their versions, the first save
  of a security profile by `security_view` (unlocked, of a copy that may be
  stale), password changes.
- The public API beyond the services it calls: parsing, throttling, status codes.
- The audit trail: append-only, never read to decide. Encryption and the blind
  index: functions of libraries. Pages, dashboards, exports, maps, migrations and
  demo data: no state of their own.

What could follow: the row locks of `Intake` one at a time, as in `Finance`, to
see the inverse order; `Intake` and `Pipeline` over one set of submissions, so
that the rows of an accepted submission and its processing meet in one run; the
login's guards and the sessions' versions.
