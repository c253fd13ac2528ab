# EduSphere: a TLA+ model of the school management platform

EduSphere is a multi-tenant school management platform: a FastAPI service over
PostgreSQL (`src/apps/api`), a web client (`src/apps/web`), a mobile client
(`src/apps/mobile`), Redis for rate limits, and a daily job started by systemd.
Every HTTP request runs in its own worker with its own READ COMMITTED database
transaction; nothing in the service serialises requests except what the code
asks the database for: row locks, unique constraints, advisory locks. This
directory models the parts whose correctness depends on those choices.

All paths below that do not start with `src/` are under
`src/apps/api/app/`.

## 1. Inventory

| Part | State it keeps | Operations that change it | What makes it hard | What makes it correct |
|---|---|---|---|---|
| Cash register (`modules/cash`) | `cash_sessions`, `cash_movements`, `cash_counts` | open a session, add a movement, count, close | payments and cancellations of the fees module run at the same time under FOR SHARE, the others under FOR UPDATE; clients retry with idempotency keys; the close relies on figures the client saw earlier | one open session per cashier; the books of a closed session never move again; money leaves only within the balance; a retried request is recorded once |
| Payments and fees (`modules/fees`) | `student_fees`, `payments`, `payment_allocations` | generate fees, record a payment, cancel it, adjust a fee | several fees locked per payment; a double submission; an adjustment that races payments; the receipt uploaded before the commit | a fee is never overpaid, its status follows its payments, a payment changes only by being cancelled |
| Overdue reminders (`modules/fees/overdue_reminders.py`, `jobs/`) | notifications and reminder rows of three channels | the daily run: read, insert, commit, send, report | two runs at once; a crash between commit and sending; a tenant context that each commit clears | one message per fee, guardian and stage; stages in order; the reported status is true |
| Grades (`modules/grades`) | assessment results, subject averages, term averages, ranks | submit results, correct one, appreciation | the averages are recomputed from rows other teachers are writing, without a lock; the lock on published report cards is a read | averages agree with results; nothing changes under a published card |
| Report cards (`modules/report_cards`) | report cards and their PDF | generate, publish, verify | regeneration races publication; a class is one long transaction with rendering and uploads | a published card is the one that was reviewed; one announcement per publication |
| Attendance (`modules/attendance`) | sessions, records, absence notices and emails | open and lock a session, roll call, correction | a roll call sent twice or corrected meanwhile; emails sent after the commit | every new absence is told once, one email a day |
| Enrollments (`modules/students`) | enrollments, exits | assign a class, promote, enroll one, change a status | rows read before the class is locked; several classes locked by one call; single writes that look at no lock | a class does not exceed its capacity; no deadlock; a promotion forgets nobody |
| Students and guardians (`modules/students`) | students, status history, guardians, links | form, import, change, bulk change, attach, link an account | an import decides on rows read twice; only the matricule is unique | no twins, a history that explains the status, one way from a parent to a child |
| Student files (`modules/students/router.py`, `core/storage.py`) | photo, documents, the disk | upload, replace, remove | the disk and the database do not commit together | a row never names a file that is gone |
| Authentication (`modules/auth`, web and mobile clients) | user sessions, reset tokens, tokens stored by the clients | login, refresh, logout, revoke, reset | rotation of refresh tokens with several tabs, lost answers, deaths between two commits | a session that was not ended stays usable; one live session per login |
| Rate limiting (`core/rate_limit.py`) | counters in Redis | check, count, reset, per endpoint | check-then-count; INCR and EXPIRE are two commands; Redis may be down | the limit holds up to the requests in progress; a lock ends |
| Accounts, organizations, schools, partners (`modules/platform`, `users`, `partners`, `rbac`) | users, roles, organizations, schools, sources | found, add, invite, change a role, promote, rename | advisory lock on the email and row lock on the organization in some paths, unique keys alone in others | an account in one organization, one school per name, a school has an administrator |
| Notifications and announcements (`modules/notifications`) | notifications, `read_at`, the page that shows them | announce, remind, page through, mark one or all | notices are dated before they are seen; requests of one page overlap | in order, none skipped, none marked unseen |
| Academic structure (`modules/academics`) | years, terms, levels, classes, subjects, assignments | single-row creations, updates and removals | removing a subject of a class takes marks and assignments with it | rows refer to rows that are there |
| Tenancy and permissions (`core/tenancy.py`, `core/permissions.py`) | roles; settings of the current transaction | scope a role, confine a teacher, set the tenant context | five queries each written on its own; three reads decide on one write; the context ends with each commit | every part has the same idea of what an account may do |
| Audit (`modules/audit`) | audit rows | one insert in the caller's transaction | none | committed with the operation |
| Read models (`parent`, `teacher`, `cashier`), storage, email, SMS, readiness, screens | none of their own | none | external services | see "Not modelled" |

The parts interact through the database (the fees module locks the rows of the
cash module; grades read report cards and assignments; report cards read
averages; roll calls read enrollments; reminders read fees and payments), through
calls inside one transaction (audit, notifications), and through messages sent
after a commit (email, SMS). Clients interact with the service by requests that
may be repeated, and whose answers may be lost.

## 2. Plan

The modules were written in the order of the harm a mistake does: money first
(`CashRegister`, `CashLedger`), then marks and report cards (`ClassAverages`,
`ReportCards`), sessions of users (`AuthSessions`, `RateLimiter`), the daily
reminders (`OverdueReminders`), and then the records of a school, which share a
composition, `SchoolRecords`: `Enrollment` with the `Attendance` that reads
it, `StudentFiles`, `StudentDirectory`, `Onboarding`, `Notices`, `Teaching`.

| Part | Modules | Proofs |
|---|---|---|
| Cash register; payments and fees | `CashRegister`, `CashLedger` | `CashRegisterProofs`, `CashBooksProofs`, `SumLemmas` |
| Grades and averages; report cards | `ClassAverages`, `ReportCards` | `ReportCardsProofs`, `SumLemmas` |
| Authentication; web and mobile clients | `AuthSessions` | `AuthSessionsProofs` |
| Rate limiting | `RateLimiter` | `RateLimiterProofs` |
| Overdue fee reminders | `OverdueReminders` | `OverdueRemindersProofs` |
| Students, guardians, enrollments | `Enrollment`, `StudentFiles`, `StudentDirectory` | `SchoolRecordsProofs` |
| Attendance | `Attendance` | `SchoolRecordsProofs` |
| Accounts, organizations, schools, partners | `Onboarding` | `SchoolRecordsProofs` |
| Notifications and announcements | `Notices` | `SchoolRecordsProofs` |
| Academic structure; tenancy and permissions | `Teaching` | `SchoolRecordsProofs` |
| The five parts above on one database | `SchoolRecords` | `SchoolRecordsProofs` |

What the plan has left:

- Models: the fee catalogue (categories, schedules, generation of fees), the
  links that reset a password, assessments and their types, the subject lines of
  a report card and the emails of its publication, a class whose students leave
  between two submissions, class capacities lowered while a class fills.
- Proofs: every safety property of a passing run has its theorem, and the liveness
  properties stay with TLC (section 16). What is left is to state abstractly what
  the daily reminders and the rotation of a login promise, as `CashLedger` does for
  the till, and to show that `OverdueReminders` and `AuthSessions` implement it.

Every module is written in the same way: a request is a worker, its statements
are actions, its transaction becomes visible in its commit action, and what is
kept only inside one process (a SQLAlchemy session, a local variable) is a
field of the worker. Three facts about the platform shape all of them:

- READ COMMITTED: each statement sees what is committed when it starts. A
  decision may be stale when it is written unless a lock or a unique key
  protects it.
- The unit of work of SQLAlchemy writes, at a flush, only the columns whose
  value differs from what the session loaded. Two requests on one row mix
  their columns; they do not overwrite each other's whole row.
- What leaves the database (files, emails, SMS, Redis) does not commit with it.

Definitions marked `Faulty variant`, named after the operator they alter, are
the mutations the properties must reject; no specification uses them. Variables
called history or described as such (`stray`, `doubt`, `stranded`, `forked`,
`unseen`, `raced`, ...) record that something the code does not prevent has
happened; a property that mentions one says so, and the sections below say what
it is.

A property of a run is often a conjunction of named parts, each with its own
comment: `FeesFollowPayments`, for one, is `FeeNeverOverpaid /\ FeeStatusDerived`.
The parts are about one hazard and are checked and proved together; each part
has a faulty variant that breaks it.

## 3. The cash register and the payments

### `CashRegister.tla`

A *worker* is one request in progress. Its transaction is the sequence of the
statements that matter to the others, one action each:

| Code | Actions |
|---|---|
| `open_session` | `OpenCheck`, `OpenInsert` (the partial unique index makes it wait), `OpenCommit` |
| `record_payment` | `PayLookup`, `PayFind`, `PayShare`, `LockFee` once per fee, `PayCheck`, `PayInsert` (the unique key makes it wait), `PayCommit` |
| `cancel_payment` | `CancelLock`, `CancelShare`, `LockFee`, `CancelCommit` |
| `add_movement` | `LockSession`, `MoveCheck`, `MoveCommit` |
| `create_count` | `LockSession`, `CountCommit` |
| `close_session` | `LockSession`, `CloseCheck`, `CloseCommit` |
| `update_student_fee` | `Adjust` |

`sessions`, `counts`, `payments`, `movements` and `fees` are the committed
rows. What a transaction wrote before its commit is invisible to the others
under READ COMMITTED, so it appears in the commit action; the two places where
an uncommitted row does matter, the unique indexes, are the waits of
`OpenInsert` and `PayInsert`. `share`, `excl`, `payLock` and `feeLock` are the
row locks; `Finish` releases them with the transaction. `SELECT ... FOR SHARE`
is two steps, because PostgreSQL picks the row in the snapshot of the statement
and evaluates the condition again after it waited. Fees are locked one by one
in any order: the statement has no ORDER BY. `Abort` is a rollback no rule of
the code asked for: a failing statement or upload, a process that stops, the
victim of a deadlock. `Reject` is an HTTP error decided by the code.

Sums are those of the SQL aggregates, over the rows (`SumFunction`). An amount
is a whole number of units: the code uses `Numeric(12, 2)` and never rounds.
Left out: wording, audit rows (same transaction), receipts, notifications,
catalogue checks of denominations, permissions, and the tenant (one school).
The status CANCELLED of a fee is never written by the code and is not modelled.

### `CashLedger.tla`

What the register promises to an accountant, without requests or locks: a
session receives money, gives back only what it received, takes money out only
within its balance, is sealed with its balance, and never moves again.
`ImplementsLedger` is the refinement: every commit of `CashRegister` is one
step of the till.

### Properties

Each line is a property, or a part of one: `FeesFollowPayments` is
`FeeNeverOverpaid` with `FeeStatusDerived`, `MovesAreLawful` is
`PaymentHistory` with `OutWithinBalance`, and `UniqueKeysHold` is
`OneOpenSession` with `NoDuplicateRecord`.

- `ClosedBooksFrozen`: the amounts frozen at the close stay those of the rows.
- `DecisionsStand`: whatever a request read and decided on is still true when
  it writes. This is the property behind the choice of each lock.
- `OneOpenSession`, `NoDuplicateRecord`: the two unique indexes do their job
  for any interleaving of openings and retries.
- `FeeNeverOverpaid`, `FeeStatusDerived`: hold as long as no amount due is
  adjusted (`NewDue = {}`); see the findings for what happens otherwise.
- `PaymentFits`: whatever is adjusted, a payment fits when it commits.
- `PaymentHistory`, `OutWithinBalance`: what one step may never do.
- `NoDeadlock`: no set of workers in which everyone waits for someone of the
  set. It holds for one fee: payments, sessions, fees and keys are locked in
  compatible orders. It fails for two fees, see the findings.
- `RequestsEnd`: every request is answered or rolled back.

### Runs

| Run | Bounds | What it shows |
|---|---|---|
| `TillRaces` | 3 requests at once on one session, a fee of 3, 2 payments of 1 or 2 with 2 keys, 1 movement out, 1 count | every pair and triple of operations on one session races a close; two payments that do not both fit; keys submitted again: `DecisionsStand`, `NoDeadlock`, `FeesFollowPayments`, `MovesAreLawful`, `ImplementsLedger` |
| `TillShifts` | 2 requests at once, 2 successive sessions of one cashier, 2 payments, 1 key, 2 counts of 1 or 2 per session, payments possible without a session | session turnover; two openings; a payment recorded while its session closes and another opens; a count after the count the client saw: `ClosedBooksFrozen`, `UniqueKeysHold` |
| `RequestsEnd` | at most 4 requests by 3 workers, 2 fees that can be locked in either order, 2 movements out of a session opened with 1 unit, amounts adjusted down to 1 | liveness, deadlocks included; movements that do not all fit; a payment races an adjustment: `RequestsEnd`, `PaymentFits` |
| `MultiFeeDeadlock` | 2 payments of the same 2 fees | a violation, see the findings |

Three workers are enough for the properties about locks: an interleaving that
breaks one involves a holder, a waiter and one request that changes what the
waiter read. The id sets bound the rows; `MaxCounts` bounds the counts of a
session, `MaxRequests` the requests of the liveness run. Symmetry is used over
the ids in the safety runs only.

`MCCashRegister` gives the constants their values, `MCCashLiveness` adds the
request budget.

Fairness (`FairSteps`): a statement that can go on does, because PostgreSQL
runs it, and a worker in a deadlock is aborted, because PostgreSQL's detector
picks a victim. No fairness is assumed of clients, of retries or of other
aborts. The budget is needed because a row that can be locked FOR SHARE again
and again may keep a FOR UPDATE waiting: nothing in the code excludes it.

### Findings

- `MultiFeeDeadlock`: two payments of the same two fees can deadlock, although
  the docstring of `record_payment` says that sorting the ids excludes it. The
  detector aborts one of them, which is answered 500; no money is lost.

Three more have no run of their own. The instance that shows each is
`TillRaces` with no movement and these changes:

| Change | Violated | What happens |
|---|---|---|
| 2 workers, `Alloc <- FullAlloc`, `Key = {k1}`, `Mode = {"other"}`, no count | `ReplayNeverRejected` | a double submission that pays the whole balance may be answered 422 (`modules/fees/service.py:262`), where the comment at lines 314-316 and the runbook promise the recorded payment |
| 1 worker, `NewDue = {1}` | `FeeNeverOverpaid` | an amount due can be adjusted below what was paid (`modules/fees/router.py:214`) |
| 1 worker, `Alloc <- FullAlloc`, `NewDue = {4}` | `FeeStatusDerived` | the status of a fee is not refreshed when its amount is adjusted: it stays PAID with a balance |

### Proofs

`CashRegisterProofs` proves `TypeCorrect`: `Spec => []TypeOK`. No run checks
`TypeOK` again. It is not inductive: that a request carries what its statement needs (`ReqOK`) and that a
request to close names a count that exists (`CountOK`) must be added; the
conjunction is `TypeInv`.

`CashBooksProofs` proves `DecisionsAlwaysStand`, `ClosedBooksStayFrozen`,
`PaymentsHaveHistory` and `OutgoingStaysWithinBalance`, which together are
`MovesAreAlwaysLawful`. The inductive invariant
is `BooksInv`: `TypeInv`, `LocksExclude` (a FOR UPDATE excludes every other
lock of the row), `LocksHeld` (every statement holds the locks its request
took), `DecisionsStand` and `ClosedBooksFrozen`. The argument: a step that
changes a row that a decision rests on needs a lock that excludes the lock of
the request that decided (`LocksExclude`, `LocksHeld`), so it is not another
request's step; and a session that is closed can only be changed by a request
whose decision stands, which needs it open. The lemma `BalanceKept` carries the
sums: the balance of a session depends only on its own rows.

`KeysAreUnique` (`UniqueKeysHold`): the inductive invariant `KeysInv` adds
`InsertsAlone`, that a request in front of its commit found no row of its key
and no other request is in front of a commit of the same key. The wait of the
unique index is what makes it inductive for openings and payments; a movement has
the exclusive lock of its session instead.

`PaymentsAlwaysFit` (`PaymentFits`) and `FeesAlwaysFollow`
(`FeesFollowPayments`): `FeesInv` adds that a fee has one holder and that what a
payment compared still fits while it holds its fees (`PaymentsFit`). `PaidChange`
says what one more row, or one cancelled, does to the sum of the allocations of a
fee. `FeesAlwaysFollow` has the hypothesis `NewDue = {}`, that no amount due is
adjusted; the findings show that it is needed, and `PaymentsAlwaysFit` holds
without it.

`RegisterImplementsLedger` (`ImplementsLedger`): every step of the register is a
step of `CashLedger` or leaves it where it is. Initial states map to initial
states (`LedgerInit`), and `LedgerMoves` takes each commit to the step of the till
it stands for. `LedgerInv` adds to `KeysInv` that a session that is not there has
no rows (`RowsOfSessions`), so that an opened session starts empty.

`NeverDeadlocked` (`NoDeadlock`): in a set of requests that all wait for each
other, nobody waits in front of an insert, since who was there first waits for
nobody; so nobody waits for a fee, since its holder would have to wait in front of an
insert; so nobody waits for a session, and nobody for a payment (`NoCircle`). `WaitInv` says of every lock who
holds it and at which statement (`LocksOwned`). The hypothesis is that a payment
pays one fee: `MultiFeeDeadlock` shows that two are too many, since the fees of
one payment are locked in any order.

`SumLemmas` has what these proofs need of `SumFunction`: that changing one
argument changes the sum by the difference, that a sum over a finite set is a
number, or zero, or bounded by another. A fold is a recursive function, so the
lemmas are by induction on finite sets; the theorems of the library that state
such inductions take an operator as a parameter, which the provers cannot
instantiate, and `SubsetInduction` reaches the same from the well-foundedness of
strict inclusion (`FS_StrictSubsetOrderingWellFounded`, `WFMin`).

The proofs hold for any number of workers, rows and amounts, under the
assumptions of `CashRegister`: `Null` is not an id, amounts have the signs
the request schemas enforce, and the ids of payments, movements and fees are
finite, so that sums over rows are defined. Liveness (`RequestsEnd`) is model-checked only.

## 4. Marks, averages and report cards

### `ClassAverages.tla`

The arithmetic of `modules/grades/service.py`, over tables of cells
`<<column, thing, student>>`. The unit is a hundredth of a hundredth of a point
(`Point` = 10000). The code computes with floats and stores `Numeric(5, 2)`;
what matters of this is that a session holds a finer value than the row it wrote
(`RoundedToCent` is the conversion), so four decimals stand for the float. They
are truncated, not rounded: the instances are far from any boundary where it
would show. `SortedByAverage` is the set of orders a query with `ORDER BY
average DESC NULLS LAST` may return, ties in any order. `RankAt` says what the
loop of `_assign_ranks` computes: the position of the first row of a run of
equal averages.

### `ReportCards.tla`

| Code | Actions |
|---|---|
| `apply_results_and_recompute` (from `submit_results` and `update_result`, which submits one student) | `BeginSubmit`, `SubmitMarks`, `SubmitAverages`, `SubmitSubject`, `SubmitRanks`, `SubmitGeneral`, `SubmitTerm`, `SubmitCommit` |
| `update_subject_average_appreciation` | `BeginRemark`, `RemarkCommit` |
| `generate_report_cards_for_class` | `BeginGenerate`, `GenerateStudent` once per student, `GenerateCommit` |
| `publish_report_card` | `BeginPublish`, `PublishCommit` |
| a rollback | `Abort` |

`stored` is what is committed, `cards` the rows of `report_cards`, `announced`
the in-app announcements, which are written in the transaction of the
publication. Each worker has a database transaction and a SQLAlchemy session:

- `mem` is the identity map. A SELECT does not overwrite an attribute that the
  session already holds (`Loaded`): after its own flush a session still sees
  the unrounded average it computed, whatever the row contains, while ORDER BY
  sorts what the row contains (`Table`).
- `todo` is what the next flush writes. Only attributes that differ from what
  was loaded are written (`Changes`, `Emit`). This is why the columns of one
  card can come from two requests.
- `dirty` is what was flushed: its rows stay locked until the transaction ends
  (`CanFlush`, `CanFlushCard`), and an insert fails when somebody else has
  inserted the row since it was read. A flush that must wait is an action that
  is not enabled; one that fails is an action that stays disabled, and the
  request ends by `Abort`. All rows of a flush are locked at once: the code
  locks them one by one, with the same effect on what is committed.
- `draft` is what a generation or a publication read. The card of one turn of
  the loop is flushed by the first query of the next (`HeldCards`).

Statements that read rows nobody else can change meanwhile are merged with
their neighbours. A request that is refused (403, 404, 409, 422) changes
nothing and is not a step. `Director`, `Marks` and `Remarkable` say which worker
may do what; the permissions behind them are not modelled.

Left out: enrollments that change (the students are those of the class),
assessments being created, templates and rendering (a document is its path and
the figures of its heading), verification codes, emails, audit rows.

### Properties

- `SubjectAveragesCurrent`, `GeneralAveragesCurrent`: the averages on record
  are those of the marks on record. The general average may differ by a cent
  from the mean of the rounded subject averages, because it is computed from
  unrounded ones.
- `RanksFollowAverages`: a better average has a better rank.
  `EqualAveragesShareRank` is the other half, and fails.
- `CardShowsItsPdf`: the figures of a card are those its document prints.
- `DateMatchesStatus`, `RegenerationUnpublishes`, `AnnouncedOnce`: what
  publication means. The date locks the marks, the status is what users see.
- `PublishedMarksFrozen`: what the lock on published cards is for.

### Runs

| Run | Bounds | What it shows |
|---|---|---|
| `TermSequence` | 1 worker that does everything, 2 students, 2 subjects, an assessment each, scores 2 or 3 of 3 or none, 1 remark, 4 requests | when requests do not overlap, general averages and ranks are right whatever batch each carries, and the lock on published cards does its job: `GeneralAveragesCurrent`, `RanksFollowAverages`, `PublishedMarksFrozen` |
| `ClassTerm` | 2 teachers of a subject each, 1 director, 1 student, 4 requests | generations, publications and regenerations racing submissions of two teachers; overlapping submissions leave each other's subject averages right: `TypeOK`, `SubjectAveragesCurrent`, `CardShowsItsPdf`, `DateMatchesStatus`, `RegenerationUnpublishes`, `AnnouncedOnce` |
| `TiedAverages` | 1 teacher, 2 students, 2 requests | a violation, see the findings |

Two of three is 13.33 of 20: with it an average on record and the average a
session holds differ. Weights and coefficients are 1 and 2, so that forgetting
one shows. Two students are enough for ranks and for batches that cover part of
the class. `MaxRequests` bounds the requests; four allow marks, a generation,
a publication and a second generation. Once the bound is reached the model
stops, so these runs do not check deadlock. No fairness is assumed: all
properties are safety.

The passing runs say under which overlap each property holds. Where the code
lets requests overlap more than that, the property fails, and a `violation` run
shows it, or the table of findings says how to see it.

### Findings

- `TiedAverages`: the rank loop compares an unrounded float of the session with
  a rounded value it loaded. Students with the same average, submitted in
  different requests, get different ranks.

Others are known and have no run of their own; the instance that shows each
is `ClassTerm` with these changes. Two directors means
`Worker = {Teacher, Principal, Deputy}`, `Director = {Principal, Deputy}`,
`Assessment = {Test}`, `Marks <- OneTeacher`:

| Change | Violated | What happens |
|---|---|---|
| none | `GeneralAveragesCurrent` | two teachers submit at once for one student; the general average leaves one subject out until the next submission (`grades/service.py:216`) |
| `Marks <- SharedSubject`, `Assessment = {Test, Exam}` | `SubjectAveragesCurrent` | two submissions at once in one subject; the average leaves one mark out (`grades/service.py:85`) |
| none | `PublishedMarksFrozen` | a card published between the check and the commit of a submission keeps other marks than those on record (`grades/service.py:45`) |
| two directors | `RegenerationUnpublishes` | a card published while its class is being generated again gets a new document and stays published, because assigning `DRAFT` to a card loaded as a draft writes nothing (`report_cards/service.py:183`) |
| two directors | `DateMatchesStatus` | a second publication that overlaps a generation dates a draft (`report_cards/router.py:206`) |
| two directors | `AnnouncedOnce` | two publications at once both announce, in spite of the comment at `report_cards/router.py:199` |
| two directors | `CardShowsItsPdf` | two overlapping generations leave the figures of one and the document of the other (`report_cards/service.py:180`) |

### Proofs

`ReportCardsProofs` proves every property of the two passing runs, each under the
hypothesis on overlap that the findings show to be needed, and nothing else: any
number of students, subjects, assessments and requests, any scores, weights and
coefficients.

| Theorem | Property | Hypothesis |
|---|---|---|
| `TermTypes` | `TypeOK` | none |
| `DatesMatchStatuses`, `CardsShowTheirPdf`, `RegenerationsUnpublish`, `AnnouncementsOnce` | `DateMatchesStatus`, `CardShowsItsPdf`, `RegenerationUnpublishes`, `AnnouncedOnce` | `OneDirector`: one worker generates and publishes |
| `SubjectAveragesFollowMarks` | `SubjectAveragesCurrent` | `OneWorkerPerSubject`: the marks of a subject are submitted by one worker |
| `GeneralAveragesFollow`, `RanksFollow` | `GeneralAveragesCurrent`, `RanksFollowAverages` | `OneSubmitter`: marks are submitted by one worker, whatever directors do |
| `PublishedMarksStay` | `PublishedMarksFrozen` | `OneWorker`: requests do not overlap |

Cards. A commit writes only what differs from what the session loaded. The
inductive invariant `CardsInv` therefore says that what the director loaded is
what the rows hold (`ReadIsCurrent`), together with the shape of the variables,
`DateMatchesStatus` and `CardShowsItsPdf` themselves: a publication that loaded a
published card writes the date alone, and a generation that computed the same
figures leaves them. `TeacherSteps` and `ReadingSteps` show that nobody else
writes cards, `GenerationStep` and `PublicationStep` that the two commits write a
whole card.

Types. `Sessions` says which cells a session holds, has flushed and is about to
flush at each statement, and that each holds a value of its kind. It is the ground
of all that follows.

Averages and ranks. `MemoryInv` says that a cell that nobody else can write
(`Private`) and that a session has not flushed is remembered as the row holds it
(`MemoryIsCurrent`), and that committed rows are rounded (`StoredIsRounded`). The
hypotheses on overlap make the cells of a subject, or all of them, private. Then:

- the subject average that is flushed is that of the marks the transaction sees,
  and at the commit that of the marks on record (`AveragesOf`, `SubjectsInv`);
- the general average is computed from subject averages of which some are not
  rounded. Each differs from its row by at most half a cent, so does their
  weighted mean (`MeansWithin`, by `SumWithin` and `QuotientWithin` of
  `SumLemmas`), and the column rounds once more: a cent in all (`GeneralWithin`,
  `GeneralRounded`, `GeneralInv`);
- the rank loop takes rows in the order of the columns. Rounding is monotone, so
  where two columns differ the unrounded averages differ in the same direction, and
  a better row comes first and is not taken for a tie (`RightRanks`, `RanksInv`).
  It says nothing of equal columns, which is the finding `TiedAverages`.

Published marks. When requests do not overlap, what was checked at the start still
holds at the commit (`CheckedOf`, `FrozenInv`).

## 5. Rate limiting: `RateLimiter.tla`

| Code (`core/rate_limit.py`) | Actions |
|---|---|
| the `ensure_*_not_rate_limited` functions (GET) | `EnsureLogin`, `EnsureRefresh`, ... (one per endpoint), `Refuse` for the 429 |
| the work between the check and the counting, in the routers | `Work` |
| the `register_*` functions (INCR, then EXPIRE by the one who created the counter) | `RegisterFailedLogin`, `RegisterRefresh`, ..., then `Expire` |
| `reset_login_attempts` (DEL) | `ResetLoginAttempts` |
| `except RedisError` of each of them | `EnsureBlind`, `RegisterBlind`, `ExpireBlind`, `ResetBlind` |
| a process that dies; Redis deleting a key | `Die`, `Lapse` |

A key is one counter; its endpoint decides whether attempts are counted before
or after the work (`CountedFirst`, `CountedAfter`) or only when a login fails.
`blind` counts the requests let through because the check failed, `interrupted`
holds the keys whose EXPIRE was lost: a counter without a time to live locks its
subject until somebody deletes the key, and nothing in the code arms it again.

- `AttemptsBounded`: the counter and the attempts still to be counted never
  exceed the limit by more than the other workers. The check and the increment
  are not one command, so the limit itself is not a bound.
- `CounterWillLapse`: a counter without a time to live has a request about to
  arm it, or its EXPIRE was lost.
- `LockoutEnds`: a subject at its limit is let in again, or its EXPIRE was lost.

`CountersAreSound` is the first two. The run `RateWindows` has 3 workers on one
counter with a limit of 2 and 3 faults: two workers pass the check together
while a third resets, and every command of a request can fail. Keys do not
interact, so one is enough; each of the seven endpoints is an initial state.
Fairness: a request that started goes on (or dies), and a time to live runs out;
both are what the web server and Redis do. No fairness is assumed of callers.

`RateLimiterProofs` proves `LimiterTypeCorrect`, `CountersLapse`,
`LimitHoldsUpToWorkers` and `CountersAreAlwaysSound` for any number of workers,
keys, attempts and faults. For the lapse: the worker that finds the counter at
0 arms it, and only it can leave that step without arming it, by a fault that is
recorded. For the bound: a step that lets a request through finds a counter
below the limit, and the requests still uncounted are at most the other workers;
each later step moves one request from the uncounted to the counter.
`LockoutEnds` is model-checked only.

## 6. User sessions: `AuthSessions.tla`

The rows of `user_sessions` of one account (`modules/auth`) and the tokens its
browsers and phones store (`src/apps/web/lib/api/client.ts`,
`src/apps/mobile/lib/api/client.ts`).

| Code | Actions |
|---|---|
| `apiFetch`, a 401 | `Fetch`, `Dropped`; `JoinFlight` when the tab is refreshing, `WebRefresh`, `PhoneRefresh`, `NothingToRefresh` |
| logout and login of a client | `WebLogout`, `PhoneLogout`, `WebLogin`, `PhoneLogin` |
| `/auth/refresh` | `Check`, `CheckFails`, `Limit`, `LimitReached`, `Revoke`, `IssueAfterRefresh` |
| `/auth/logout` | `Check`, `CheckFails`, `Revoke` |
| `/auth/login` | `IssueAfterLogin`, `AuthenticateFails` |
| a handler that fails, or that nobody waits for | `Fail`, `Finish` |
| the answer reaches the client, or does not | `WebRefreshed`, `WebRefused`, `WebLoggedIn`, `WebLoggedOut`, and the same on a phone; `WebAnswerLost`, `PhoneTimeout` |
| a session ended from the list, expiry, a deactivated account, the clock | `RevokeSession`, `SessionExpires`, `Deactivate`, `AccessExpires`, `WindowLapses` |

A store is shared by the tabs of a browser; a promise in flight
(`refreshInFlight`) belongs to one tab, and a phone has none. A token stands for
the pair and its row. Each handler step is one access to the database or Redis:
the revocation commits before the new session is inserted. The history
variables say what the code does not prevent: `ended` (ended by the user, or by
time), `stranded` (rotated, and nobody got the answer), `forked` (two handlers
held one token between its check and its revocation).

- `StoredTokenUsable`: a stored token is dead only for one of the reasons above,
  or because its own client is about to get the new one.
- `OneLivePerLogin`: a login has one live session, unless it was forked.
- `RefreshIsShared` is `OneRefreshPerTab` (no two requests of one browser tab
  present the same token) with `WaitsForSomething` (whatever waits, waits for a
  request in progress).

`AuthTabs` has a browser with two tabs, one of which makes two requests at a
time, and a phone, with 2 authentication requests at a time, one expiry, 2 events (a failure, a
lost answer, a logout, a login, an ended session), 5 tokens and a limit of one
refresh per window. Two handlers are what a fork needs; the tokens suffice for
every rotation the other bounds allow. The bounds stop the model, so deadlock is not
checked. Nothing is assumed fair.

What the histories stand for, at their lines: two requests of a phone that get
401 present the same token, since `src/apps/mobile/lib/api/client.ts:86` shares
nothing; two tabs of a browser do too, and the loser clears the good tokens the
winner stored (`src/apps/web/lib/api/client.ts:94`); a refresh that overlaps a
logout may leave a live session behind; a death between the two transactions of
`auth/service.py:129`, or a lost answer, leaves the client a token that is dead.

`AuthSessionsProofs` proves all of it (`SessionTypes`, `OneRefreshInFlight`,
`RotationKeepsOneHeir`, `DeadTokensHaveReasons`), for any clients, pages, tokens,
requests and limit. Every step looks, asks, moves a handler on, issues a token,
brings an answer or ends a token (`Moves`, `EveryStepMoves`), and each part of the
invariant is kept by each of these:

- `FlightsAreCalls`: the promise of a tab is the one refresh of that tab, both
  ways, which is `RefreshIsShared`;
- `OneStoreEach`, `NewsAreFresh`: a token that was issued is in one place, first
  in the answer that carries it, then in one store. So the request that rotates a
  stored token comes from that store, and `StoredTokenUsable` is inductive;
- `OneHeir`: a login that was not forked has one claim on its next token, either
  its live row or the handler between the revocation and the new row
  (`Claims`, `Claimed`). `OneLivePerLogin` alone is not inductive: between the
  two transactions of a refresh a login has no live row at all, and what matters is
  that only one handler will insert one.

## 7. Overdue fee reminders: `OverdueReminders.tla`

| Code (`modules/fees/overdue_reminders.py`) | Actions |
|---|---|
| the job is started, by its timer or by hand | `Start` |
| the queries of `send_overdue_fee_reminders`, in their order | `ReadFees`, `ReadBalances`, `ReadAccounts`, `ReadOthers` |
| one row under its SAVEPOINT | `Insert`, which waits for a row another run holds |
| the victim of a deadlock | `Abort` |
| the commit; the sending; the outcome, in its own transaction and context | `Commit`; `Send`; `Report` |
| a process that dies | `Crash` |
| days, payments, cancellations, due dates, contacts | `NextDay`, `Settle`, `Unsettle`, `MoveDueDate`, `ChangeContact` |
| `list_overdue_fees`, the report of the staff | `Contact`, built by `Furthest` and `Override` |

A message is `[channel, fee, who, stage]`, the unique key of its row.
`NextStage` is the earliest stage reached and not yet recorded on the channel.
`clear` remembers the fees that were paid when the run began and still are.

- `RemindersAreDue`: `StagesInOrder` (no stage is recorded before an earlier
  one) and `SettledLeftAlone` (a fee found paid gets no reminder).
- `MessagesAccountedFor`: `SentOnce`, `StatusIsTrue` (a row claims no more than
  the transport said) and `RunReportsAll` (a run that ends by itself leaves none
  of its rows ATTEMPTED).
- `ReportNeverGoesBack`: the stage shown to the staff only falls when the
  account that the notices belong to goes, and an outcome shown is final.
- `EveryStageReached`: in the end every stage due has been recorded on the
  channel that reaches the guardian.

`ReminderRaces` runs two jobs over one fee of two guardians, one with an account
and one without; two guardians are what a deadlock of two runs needs. The
thresholds are scaled to 0, 1, 2 days and the calendar to one day after the due
date, so that two stages are reached and the third is not; one crash or change by people. The
report is one expression although the code issues several SELECTs for it: it
writes nothing. Deadlock of the model is checked: a job can always start again.

Fairness: the timer starts the job again and a started run goes on (`WF`). A
last insert that becomes possible again and again is made (`SF`): two runs that
deadlock for ever would otherwise be a behaviour, whereas PostgreSQL gives the
row to the run that was waiting as soon as the other is aborted.

`OverdueRemindersProofs` proves all but the last property, for any number
of runs, fees, guardians and days. The inductive invariant `ReminderInv` is
`TypeOK`, `SoundJob` (what each run knows of its rows and messages), `Apart`
(two runs share no row and no message), `RowsOfMessages` and `StagesInOrder`.
`Apart` carries the argument: a row that is still uncommitted belongs to one
run, because the unique key makes the other wait; once it is committed nobody
finds it missing. `ReportsNeverGoBack` needs one more fact, of the report itself:
the three overrides yield the furthest stage among the rows it looks at on any
channel (`FurthestTops`, `OverrideTops`, `ReportIsFurthest`). Rows are only added
and an outcome replaces ATTEMPTED alone (`RowsGoForward`), so what the report
looks at only grows as long as the account stays (`LookedUpStays`).

## 8. The records of a school: `SchoolRecords.tla`

The modules of sections 9 to 15 are the routers of one application on one
database (`main.py`). They share no rows, except the enrollments that a roll call
reads. In `SchoolRecords` a step is a step of one of them (`EnrolMoves`,
`RollMoves`, `FilesMove`, ...) that leaves the rows of the others alone, and all
of them interleave.

`SchoolRecordsProofs` proves `SchoolKeepsItsParts`: in the school each component
behaves as its own specification says (`SchoolStepIsOfOne`), so that what is
proved of one holds in the whole: `SchoolTypesCorrect` (`RecordsTypeOK`) and
`SchoolIsSound`. The theorems of the roll call are for enrollments that change as
they please, since `RollSpec` says nothing of them.

TLC relies on it: in a behaviour of `MCSchoolRecords` requests of one kind move,
since interleaving two kinds would multiply the states and show nothing else. The
run `SchoolRecords` checks the properties of all parts, and `RecordsTypeOK`, with
these bounds, which the sections explain: 3 requests about enrollments, 4 about
roll calls, 4 uploads with 2 failures, 2 requests about accounts and schools, 3
about students, 3 posts and 2 reloads of a page, 3 about teaching; two requests
of each kind in progress. `ClassCapacity` is a violation, see section 9.
Requests are spent, never given back, so the model stops: deadlock is not
checked. No fairness is assumed; all properties are safety.

## 9. Enrollments: `Enrollment.tla`

| Code (`modules/students/service.py`, `router.py`) | Actions |
|---|---|
| `bulk_assign_students_to_class` | `Assign`, `LockClass`, `Count` or `Refuse`, `Write` or `Conflict` |
| `bulk_promote_students` | `Promote`, `LockClass` once per class, `Count` or `Refuse`, `Write` or `Conflict` |
| `create_enrollment`, `update_enrollment` | `Create`, `SetStatus` |

A bulk call reads the enrollments, then locks the classes in the order of their
ids, counts, and writes what it read before. `seen` is what it loaded: a column
is written only where it differs from it (`Placed`). The capacity it compares
with is `Fits`, with the students already in the class given back, as the code
does. `stray` is a history: the classes too full at first, or where somebody
was seated by a write that does not count (a single enrollment, a column mixed
with another request's, an assignment with such a credit). Lowering the capacity
of a class (`update_class`) is not modelled.

- `CountedClassesFit`: a class filled by counted calls alone is within its
  capacity, however they overlap.
- `BulkCallsGoThrough`: `NoLockCircle` (no two calls wait for each other;
  `LocksInOrder`, proved for any number of calls, excludes longer circles for the
  same reason) and `NobodyForgotten` (after a promotion each selected student has an enrollment in
  the new year, or an exit).

The instance has three students, two classes leading to two, of which one has a
single seat, two calls at a time and three requests.

Finding `ClassCapacity`: the places left are computed as if the selected
students who are in the class already gave their place back, but they are not
among those who ask for one. A selection of such a student and a newcomer is
accepted by a full class.

`SchoolRecordsProofs` proves `EnrolTypeCorrect`, `BulkCallsNeverDeadlock`,
`PromotionForgetsNobody`, `BulkCallsAlwaysGoThrough` and `CapacityIsKept`.
`EnrolInv` adds that locks are held in order (`LocksInOrder`), that a row once
there is never removed (`SeenRowsStay`), and what becomes of each student
(`EachHasAFuture`, `NobodyLeftAtWrite`). `CapacityInv` adds that a class has one
holder and that what was counted under its lock still stands (`CountStands`).

## 10. Attendance: `Attendance.tla`

| Code (`modules/attendance`) | Actions |
|---|---|
| `create_session`, `update_session` | `CreateSession`, `Lock`, `Unlock` |
| `submit_records`, `upsert_records` | `Submit`, `Check` or `Forbid`, `Load`, `Save` or `SaveFails` |
| `update_record` | `Correct`, `Check` or `Forbid`, `Save` |
| the emails after the commit | `SendMail`, `ReportMail` |
| a process that dies | `DieCalling` |

`FamiliesTold` is `AbsencesTold` (a record never turns absent without a notice
in the same commit and an email row for the day, and nobody is told of an absence the
commit does not leave on record) with `OneEmailADay` (one email per student,
guardian and day, whose row says what the transport said). The hard part is that
a writer compares with what it loaded, not with what is there. The instance has a
teacher and an administrator, two sessions of one day, and four requests, locks
and deaths. LATE counts as PRESENT, for no notice depends on it. Emails of a day that a death left unsent stay ATTEMPTED.

`SchoolRecordsProofs` proves `RollTypeCorrect` and `FamiliesAreAlwaysTold`, for
any class, sessions, writers, locks and deaths; it is assumed that there is a
session to speak of. `RollInv` adds to the types and `OneEmailADay` what a writer
knows of the emails it has to send (`Sends`): their rows say ATTEMPTED, the
transport had at most the one it was just given, and no two writers have one in
common, because the commit that inserts the row of a day's email is the one that
queues it. `SaveTells` is about the commit itself: what turns absent is what the
writer did not load as absent, so it is told, whatever another writer wrote since.

## 11. Student files: `StudentFiles.tla`

| Code (`modules/students/router.py`, `core/storage.py`) | Actions |
|---|---|
| upload or replace the photo; add a document | `UploadPhoto`, `UploadDocument`, `Store` or `StoreFails`, `Commit` |
| remove the photo; a document | `DeletePhoto`, `DeleteDocument`, `Commit` |
| a commit that fails, or whose answer is lost | `CommitFails`, `CommitUnanswered`, then `Undo` |
| the file that is not named any more, best effort | `Remove` |
| a process that dies | `DieUploading` |

`doubt` holds the paths whose commit succeeded and was taken for a failure: the
handler then removes a file that a row names. `apart` says that nothing failed
and no two requests overlapped so far. `FilesMatchRows` is `NamedFilesExist`
(every path a row names is on the disk, except those in `doubt`) with
`NothingLeftOver` (no file without a row, as long as `apart`). The instance has
two requests at a time, four requests and three paths, so that a replacement of
a replacement overlaps another; two failures.

`SchoolRecordsProofs` proves both (`FilesTypeCorrect`, `NamedFilesAlwaysExist`,
`FilesAlwaysMatch`). A path has one owner until its row commits, so no other
request can name or remove it (`Knows`, `Owned`); and as long as `apart`, the
only request in progress accounts for every file no row names (`Tidy`, `Alone`).

## 12. Accounts, schools and partners: `Onboarding.tla`

| Code | Actions |
|---|---|
| `platform/service.py`: create an organization with its school; add a school | `AskFound`, `TakeSlug`, or `AskAdd`, `LockOrg`; then `LockEmail`, `Resolve`, `Insert` or `InsertConflict`, `CommitSetup` or `CommitConflict` |
| `partners/service.py`: the same, in a partner's name; `create_partner` | the same with `src` the partner; `AskPartner` |
| `users/service.py`: invite, change a role, switch off or on | `AskInvite`, `AskChange`, then `Insert`, `CommitSetup`; `SetActive` |
| `platform/owner.py`: promote | `AskPromote`, `CommitSetup` |
| the activation link, after the commit | `Invite` |
| `schools/router.py`: rename | `Rename` |
| a process that dies | `FailSetup` |

`held` are the advisory locks on emails, the row lock or the uncommitted slug of
an organization, and the uncommitted key of an account. Names are compared in
Python, case and spaces ignored (`Normal`). `renamed` are schools whose name was
changed: the code does not compare it with the others then.

- `AccountsKeepTheirPlace`: an account has its roles in no organization, or all
  in the same one, and only the first kind is a platform account. An invitation
  decides long before it writes and takes no lock the other paths take.
- `FoundationsHold`: `OneSchoolPerName`, `InvitedAccountsExist`, and
  `NewSchoolHasAdmin` (a school appears with its source and an administrator
  whose role covers it).

The instance has five accounts of different kinds, one existing school, two more
of its organization whose names differ in case, a second organization, and two
requests: every pair of operations overlaps, and the locks and unique keys decide
between two. Roles are identified by their value, and PLATFORM_SUPPORT is folded into
SUPER_ADMIN. Resetting a password is not modelled.

`SchoolRecordsProofs` proves `OnboardTypeCorrect`, `PlacesAreKept` and
`FoundationsAlwaysHold`, for any accounts, organizations, schools and requests,
from a first state in which roles refer to organizations with a school
(`RolesAssumption`). A request decides on roles it read before, without a lock;
what saves it is that the place of an account never changes once it has a role
(`Keeping`: what is deleted is replaced in the same place, so an account keeps a
role, `KnownHaveRoles`). A new account is the exception, and the unique key of its
email makes the request that inserts it the only one (`Creating`, `Exclusive`).
The lock of the organization keeps what was read of the names true to the commit
(`Building`), and shows that a school appears with the commit of the request that
founds it and of no other (`SchoolAppears`); the role of an administrator of a
whole organization is never deleted, so relying on one that was read is safe
(`Administering`).

## 13. Students and guardians: `StudentDirectory.tla`

| Code (`modules/students`) | Actions |
|---|---|
| `create_student` | `CreateStudent` |
| the import of a file | `StartImport`, `ReadIdentities`, `Import` |
| `update_student`, `bulk_update_student_status` | `UpdateStudent`, `BulkUpdateStatus`, `Change` |
| `create_guardian`, the account of a guardian | `CreateGuardian`, `StartLink`, `Link` |
| attach and detach | `AttachGuardian`, `DetachGuardian` |

`DirectoryIsSound` has three parts. `ImportMakesNoTwin`: an import never creates
a student of the same name and birth date, except against rows from a form
(`byHand`) or committed since its reads (`unseen`). `StatusFollowsHistory`: the
last line of the history gave the student its status, and each line starts from
a status the student really had, although two changes may start from the same
one. `OneWayToAChild`: a parent's account reaches a child through one guardian,
which the reading of a child (`modules/parent/service.py`) relies on. An import
whose insert meets a unique key is rolled back as a whole, answered 500. The
instance has two files, two requests at a time and three requests, over four
student ids in two schools.

`SchoolRecordsProofs` proves `DirectoryTypeCorrect` (a matricule names one student
of a school) and `DirectoryStaysSound`, for any students, guardians, files and
requests. The first rows are assumed active and each with a matricule of its own
in its school (`PupilAssumption`). `DirectoryInv` adds what an import that has
read knows of its school: each student there is one it read, or appeared since
(`ViewsHold`); that the status a change read is one the student really had
(`ReadsWereReal`), since its own write starts from it; and that ties stay in a
school, where no two guardians have one account (`TiesStayInSchool`,
`OneAccountEach`), which makes `OneWayToAChild` a matter of rows rather than of
requests. An import keeps a line when it read neither its matricule nor its name
and kept no twin of it before. `KeepsNew` says so of all lines at once, and
`KeptIsDecided` shows that there are such lines in a file of any length, by going
through it in order; so what is added is new and no two of
it alike.

## 14. Notifications and announcements: `Notices.tla`

| Code | Actions |
|---|---|
| `create_announcement` to a school or a class; a run of reminders | `ToSchool`, `ToClass`, `Remind`, then `CommitPost` or `FailPost` |
| `list_notifications` and the page that shows them (`page.tsx`) | `OpenInbox`, `AnswerFirst`, `AskMore`, `AnswerMore` |
| `mark_read`, `mark_all_read` | `MarkRead`; `FindUnread`, `MarkAllRead` |
| `list_school_announcements` | `History` |

A notice is dated when its transaction begins and seen when it commits, and the
notices of one transaction have the same date. `NoticesAreFaithful` has four
parts: `InboxInOrder` (no notice twice, none above an older one),
`NothingSkipped` (who reaches the last page has seen all there was at the first,
except a notice with the date of one shown), `ArrivalsStayUnread`, and
`HistoryIsExact` (each announcement with its own recipients). The exception is
real: the cursor is a date with a strict comparison, so notices of one
transaction that straddle two pages are skipped. `raced` is set when a page was
on its way during a reload: the page then may have a hole. Two people of whom one reads, pages of
one notice, three transactions of which two overlap and two reloads show each
case. Notices of one date come in any order (`InOrder`): the query sorts by the
date alone.

`SchoolRecordsProofs` proves `NoticesTypeCorrect` and `NoticesStayFaithful`, for
any people, transactions, reloads and page size; people and texts are finite, so
that a page has a size, and no announcement is taken for a reminder
(`NoticeAssumption`). `NothingSkipped` says something of the last page only and is
not inductive. `NoticesInv` says what every page knows: the notices of a
transaction have one date and one text (`PostsApart`); a cursor is older than
nothing on the screen, and a full page of notices is not older than it
(`CursorsFollow`); and what there was at the first page is shown, has the date of
a notice shown, or is older than the cursor (`GoalAhead`). As notices are added
and never removed, a first page loaded again stays full and ends no earlier than
the cursor: it may repeat nothing and hide nothing of a page still to come.

## 15. Teaching and permissions: `Teaching.tla`

| Code | Actions and operators |
|---|---|
| `core/permissions.py` | `ScopeConditions`, `EnsurePermission`, `IsTeacherOnly` |
| `create_assessment`, `submit_results` (`grades/router.py`) | `StartMarks`, `Confine`, `CheckAssigned`, `WriteQuiz`, `WriteMarks`, `WriteFails` |
| `academics/router.py`: assignments, subjects of a class | `StartAssign`, `StartReassign`, `CommitSeat`, `SeatFails`, `RemoveAssignment`, `AddCourse`, `RemoveCourse` |
| roles and accounts (`users/service.py`) | `ReplaceRole`, `AttachRole`, `SetEnabled` |
| the scope of a teacher in `grades/router.py`, `students/router.py`, `teacher/service.py`, `notifications/service.py` | `MarksScope`, `RecordsScope`, `PortalScope`, `ClassTeachers` |

- `WritesAreEntitled`: the three reads that decide on a write decide as the rule
  would at once (`Rule`, the history `entitled`), unless the roles of the account
  changed between two of them (`swapped`).
- `SameScopeEverywhere`: the five queries agree on what a teacher is confined to,
  although an assignment outlives the role it was given for.
- `ElsewhereDoesNotMatter`: what an account may do in a school does not depend on
  its roles in the other schools of its organization.

The instance has a teacher of two schools, a teacher who is the administrator of
the organization, a platform administrator, three subjects of classes and a
fourth that may be added, one assignment, two requests at a time and three
requests. A second role in a school lifts the restriction of a teacher: that is
how the code is written, and `Rule` says so. Removing a subject of a class takes
its marks and assignments with it, even in a term whose cards are published.

`SchoolRecordsProofs` proves all three and `TeachingTypeCorrect`, for any accounts,
schools and requests. The inductive invariant `TeachingInv` adds `LocalRoles` (a
role given in a school is a role there), `Identified` (identifiers are not given
twice) and `Established` (what a request knows of its account as long as
`swapped` is false).

## 16. Checked and proved

| Module | Proved, for all values of the constants | Model-checked only |
|---|---|---|
| `CashRegister` | `TypeOK`, `DecisionsStand`, `ClosedBooksFrozen`, `MovesAreLawful`, `UniqueKeysHold`, `PaymentFits`, `ImplementsLedger`; `FeesFollowPayments` when no amount due is adjusted, `NoDeadlock` when a payment pays one fee | `RequestsEnd` |
| `ReportCards` | `TypeOK`, and all properties of the passing runs under a hypothesis on overlap each (section 4) | |
| `RateLimiter` | `TypeOK`, `CountersAreSound` | `LockoutEnds` |
| `AuthSessions` | `TypeOK`, `StoredTokenUsable`, `OneLivePerLogin`, `RefreshIsShared` | |
| `OverdueReminders` | `TypeOK`, `RemindersAreDue`, `MessagesAccountedFor`, `ReportNeverGoesBack` | `EveryStageReached` |
| `Enrollment` | types, `CountedClassesFit`, `BulkCallsGoThrough` | |
| `StudentFiles` | types, `FilesMatchRows` | |
| `Onboarding` | types, `AccountsKeepTheirPlace`, `FoundationsHold` | |
| `Teaching` | types, `WritesAreEntitled`, `SameScopeEverywhere`, `ElsewhereDoesNotMatter` | |
| `StudentDirectory` | types, `DirectoryIsSound` | |
| `Attendance` | types, `FamiliesTold` | |
| `Notices` | types, `NoticesAreFaithful` | |
| `SchoolRecords` | `RecordsTypeOK`, and all of the seven parts at once | |

`SchoolRecordsProofs` has the proofs of the seven parts side by side, each about
the specification of its module (`EnrolSpec`, `FilesSpec`, `OnboardSpec`,
`DirectorySpec`, `RollSpec`, `NoticesSpec`, `TeachingSpec`) and each with an
inductive invariant of its own, and then the composition.

Liveness under fairness (`RequestsEnd`, `LockoutEnds`, `EveryStageReached`) and
`ENABLED` are out of the prover's reach and stay with TLC. What a fold computes is
proved only where the lemmas of `SumLemmas` apply, that is for sums.

## 17. Not modelled

- Fee categories, schedules and the generation of fees: single-row writes and a
  loop of inserts under a unique key; the fees of the models are there at first.
- The tenant context of row-level security: each module has one tenant, or
  schools told apart by a column, and the policies themselves are SQL in
  migrations. Where the context is lost at a commit it is modelled
  (`Report`).
- The read models of parents, teachers and cashiers write nothing; the queries
  that decide what somebody reaches are operators (`WaysTo`, `PortalScope`).
- The audit log: one insert in the transaction of its operation.
- Disk, email and SMS adapters, readiness, configuration: calls to external
  services. Their outcomes (accepted, refused, lost) are in the models that call
  them.
- The web and mobile screens, apart from token handling and the page of notices;
  migrations and deployment.
- The reset of a password (a link can be used twice by two requests at once),
  the subject lines of a report card, and the emails of its publication, which a
  crash after the commit loses (`report_cards/router.py:246`).

Two listed hazards have no property: that loss, and the deadlock of two
submissions that flush in several rounds (`grades/service.py:263`), which the
model allows and ends by `Abort` as PostgreSQL does.

What the models show of the code and no property forbids, because the code does
not mean to prevent it: an overdue guardian who loses a phone or an account
starts again at J0 on the next channel; overlapping imports, or an import and a
form, may enter a student twice; two concurrent changes of one user's role in a
school may leave both roles; an administrator may be switched off between the
resolution of a new school and its commit; the last administrator of a school
may be given another role; several academic years may be current at once; a
term's marks go with a removed subject.
