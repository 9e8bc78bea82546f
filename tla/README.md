# Formal model of the enrollment backend

TLA+ modules, TLC runs and TLAPS proofs for the Go backend in this repository (a
modular monolith over PostgreSQL in which students request places in elective
groups and administrators decide on the requests). The promise of the system is in
its README: server-generated arrival order, per-group capacity under row locks, no
overbooking. Almost everything that can break it is an interleaving of transactions,
which the repository's tests reach only by chance; that is what is modelled here.

## 1. Inventory

| Component | State | Operations | Interacts with | What makes it correct |
| :-- | :-- | :-- | :-- | :-- |
| enrollment rules (`internal/enrollment/domain`) | none | `Classify`, `ValidateSubmissionAllowed`, `ApplyDecision` | called by submit and decide | priorities, cap, legal transitions |
| enrollment (`internal/enrollment`) | `enrollment_requests`, arrival sequence | `Submit`, `SubmitBatch`, `Cancel`, reads | locks groups and students, writes audit and outbox in its transaction | cap, idempotency, direct slots, arrival order |
| review (`internal/review`) | request status and group, `enrollment_decisions` | `Decide`, queue | locks request and group | no overbooking, settled requests stay, truthful audit |
| catalog (`internal/catalog`) | offerings, groups, capacities | create, update, `AdjustCapacity` | rows read by submit and decide | enrollment survives edits at any moment |
| student, window, semester | shift, status, windows, active semester | create, update, activate, close | rows read by submit | one active semester, submissions only in a window |
| notification (`internal/notification`) | outbox rows, leases, attempts | `Enqueue`, worker: reap, claim, deliver | fed by every status change; SMTP relay | nothing lost, given up only after the limit, no clobbering |
| reporting (`internal/reporting`) | export queue | create, claim, generate, mark | files on disk | each export handled once, and finished |
| identity, adminuser, settings | challenges, sessions, accounts, roles | start and verify login, authenticate, logout | every request | attempts capped, one session per code, no access after deactivation |
| audit (`internal/shared/audit`, `internal/audit`) | append-only events | write in the caller's transaction, list | every mutation | event and change commit together |
| platform, `cmd/api` | pool, rate limiter, migrations, shutdown | wiring | all | start-up and shutdown leave no half-done work |

Hard behaviours: any number of server goroutines and replicas run transactions at
READ COMMITTED; a value read in one statement is used in a later one; a client
retries what may already have been done; the answer to a COMMIT can be lost; a worker
dies between claiming and recording; leases expire under a worker that is still busy.
`PROJECT.json` lists each such hazard at its line, with the properties that cover it.

## 2. Modules

| Module | Models |
| :-- | :-- |
| `EnrollmentRules` | the pure rules, as operators |
| `EnrollmentStore` | the committed tables, the row locks, the queries the transactions run |
| `Submit` | `SubmitRepo.Submit`, one action per statement, and `SubmitRepo.Cancel` |
| `Review` | `Repo.Decide`, one action per statement that locks or reads shared rows |
| `Administration` | capacity adjustments, group, student and window edits |
| `Enrollment` | the composition of the four; its properties, inductive invariant and refinement |
| `EnrollmentLedger` | the abstract specification: every operation is one atomic change |
| `EnrollmentProofs`, `EnrollmentSafetyProofs`, `EnrollmentRefinementProofs` | the theorems about `Enrollment` |
| `Outbox`, `OutboxProofs` | the notification outbox and its workers, with time, leases and crashes |
| `RateLimiter`, `RateLimiterProofs` | the fixed windows per address in front of the login routes |
| `Identity`, `IdentityProofs` | one-time codes, sessions and the guards of the routes, statement by statement; what administrators edit in between |
| `BackofficeStore` | the tables behind the administrative endpoints, their row locks, audit trail and answers; creation and patching of a row, once for all of them |
| `Semesters` | create, activate and close, with the unique index and PostgreSQL's deadlock detection |
| `Directory` | students, academic records, import, administrators, settings |
| `Catalog` | electives, prerequisites, offerings, groups, capacities, windows |
| `Backoffice`, `BackofficeProofs` | the composition of the last four and its properties |
| `Requests` | submissions, cancellations and batches over the atomic ledger |
| `CatalogBrowsing` | offerings and the occupancy of their groups, as a student reads them |
| `ReviewQueue` | the queue: filters, count, pages one after another, warnings, groups to move to, decisions on what was shown |
| `Replicas` | start-up, migrations, serving, stopping and dying of the processes |
| `Reporting` | the export queue, its workers, the files, the download |
| `Program`, `ProgramProofs` | the composition of the last five |
| `MCEnrollment`, `MCOutbox`, `MCLogin`, `MCBackoffice`, `MCProgram` | instances for TLC |

### Enrollment: state and steps

`reqs` holds the committed requests, indexed by arrival sequence; `groups`,
`students` and `windows` what the transactions read of those tables; `audit` and
`outbox` the newest event and notification of each request; `glock`, `slock`, `rlock`
the holder of each `FOR UPDATE` row lock. `sub[t]` and `rev[a]` are the program
counter and locals of a Submit and of a Decide call.

* **Uncommitted writes.** They are invisible to others at READ COMMITTED, so the
  model applies them in the commit step. The one way they matter is a unique index
  that makes another insert wait: `IndexEntryPending`. The UPDATE of Decide and its
  COMMIT are one step, because after the UPDATE it waits for nobody: the inserts that
  follow reference only rows it has locked itself.
* **Submit** (`submit.go`): fast path, group lock, student lock, window, count,
  occupancy and classification, insert, commit. `SubmitFail` rolls back at any of
  them (cancelled context, lost connection, crash of the server); `SubmitCommit` may
  answer `FAILED` although it committed. `nextval` is drawn in the insert and never
  given back. `MaxArrival` plays the part of the sequence's MAXVALUE.
* **Decide** (`decide.go`): request lock, group lock (the target's for
  `CREATE_GROUP_ACCEPTANCE`), counts, then rules, update, decision row, audit,
  notification and commit, or rollback. Of the two counts the first is stable under
  the group lock, so both are taken at the instant of the second.
* **Cancel and the administrative edits** lock one row, read nothing else and are one
  step that waits for that row. Refusals that change nothing are not steps.
* **Edits**: capacity may be set below the accepted seats (the code only asks for a
  non-negative number), so "accepted <= capacity" is not an invariant of the program;
  `NoOverbooking` is about the steps that accept.
* `enrollment_decisions` and `group_capacity_adjustments` are append-only copies of
  what the audit event says, and stand behind `audit`.

### Outbox: state and steps

A row is PENDING, SENDING, SENT or FAILED with its attempts, remaining backoff and
its claim: who stamped `claimed_at` last and how long ago. Time is kept as ages, so
that the state is finite without a clock; ages saturate where the code stops telling
them apart. Stamps are distinct, as microsecond timestamps are, and the clocks of the
replicas and of the database agree. The claim is one transaction (`FOR UPDATE SKIP
LOCKED`). `Crash` also stands for a graceful shutdown, whose cancelled context makes
every later statement fail, and for a claim whose answer is lost. A worker may be paused
at any point and a send may take any time: `smtpx/send.go:36-37` dials without a timeout,
before the deadline of the conversation is set, and the worker's context has none. Only
the run `outbox_double_send` restricts this (`Prompt`): it looks for its counterexample
among the behaviours in which every send is short.

### Identity: state and steps

`admin` and `student` are the accounts of one address, `setting` the stored list of
domains, `challenges` and `sessions` the two tables, `calls[c]` the locals of an HTTP
call. Expiry times are kept as the time that is left, and `Tick` lets it pass. Every
statement of `StartLogin`, `VerifyLogin` and `Authenticate` is a step, so the edits of
administrators, other calls and `Tick` fall between any two. A call that stops where
it is stands for a statement that failed. A code is the one that was sent or another
one; hashing and randomness are left out. `lastHeld` (how long ago an ACTIVE account
had a role) and `listed` (the setting has named the domain) are histories that only
the properties read, as is the limiter's `recent`: the requests let through, each with
its number in its window and its age. No two have both in common, as a window lasts
longer than a unit of time (`EachCounted` in `RateLimiterProofs`).

### Backoffice: state and steps

The handlers of this part are alike: decode, validate, one transaction that writes
rows and one audit event, an answer. So there is one table space: an entity has a
table, a unique key and the rows it references (`Info`), and two columns `a` and `b`,
enough to tell a patch of one from a patch of the other. `held` are the row locks,
`trail` the events of each row with their previous and new value, `answers` the status
code of each call. Creation, patching and their error answers are written once, in
`BackofficeStore`; `Semesters`, `Directory` and `Catalog` say which table takes which
path, and hold the operations with a shape of their own: activation in its statements,
the two statements of the settings upsert, the import row by row, the capacity
adjustment. A fault is a failed statement or a commit whose reply is lost. A circle of
activations is broken by PostgreSQL, which aborts one of them.

### Program: state and steps

`Requests` takes submission, cancellation and acceptance as single steps of the ledger,
which is what the refinement `ImplementsLedger` allows; the batch reads, runs its
pre-checks and submits item by item. `browse` and `desk` are readers whose statements
other calls may fall between. `desk` keeps what its page showed, with what the same
statement counted, so that a decision can be compared with what it was based on; and
while the administrator reads page after page of one list, a history of the walk (what
was in the queue all along, what was shown, how many left in between) that only the
properties read. A replica connects, takes the advisory lock, applies migrations,
serves, stops and exits, or dies at any point; its report worker claims, reads, writes
and marks; a claim can commit although its answer is lost. Which rows a report lists is
left out: no step depends on them. On shutdown the worker's context is cancelled, and
with it every later statement. A file is on the disk of the replica that wrote it.
`budget` bounds the calls, reads, exports and stops of a behaviour and is chosen in the
initial state, so that each budget asks about one group of interactions without the
product of all of them.

## 3. Runs

| Run | Checks | Instance |
| :-- | :-- | :-- |
| `submit` | `StudentCap`, `SameKeySameRequest`, `NoDirectOverbooking`, `ArrivalOrder`, `ImplementsLedger` | 2 submitters, 2 students, 2 groups of one seat, 2 keys, cap 1 |
| `review` | `TypeOK`, `NoOverbooking`, `SettledStays`, `AuditTruthful` | 2 reviewers, 1 submitter, 2 students, 1 group of one seat |
| `changes` | `NoOverbooking`, `NoDirectOverbooking`, `ImplementsLedger` | 1 submitter, 1 reviewer, 2 groups, moves, 1 administrative edit anywhere, capacities 0 and 1 |
| `liveness` | `CallsEnd` | 2 submitters and a reviewer over 2 groups |
| `replay` | `ReplayNotRefused`, violated | 2 submitters, 1 key, cap 1 |
| `outbox` | `TypeOK`, `FailedWasTried`, `FinishedStays`, `SettleOnceLeasesHold` | 2 workers, 1 row, 3 attempts, pauses and sends of any length, 2 faults |
| `outbox_double_send` | `NoDoubleSend`, violated | 2 workers, 3 rows, no fault |
| `login` | `TypeOK`, `AttemptsBounded`, `LiveChallengesBounded`, `SessionsPerCode`, `RoleFresh`, `DomainPolicyFailsSafe`, `BurstBounded`, `InactiveNotServed` | 2 clients, 1 IP with 2 requests per period, 4 calls, 1 edit, 1 attempt per code |
| `backoffice` | `OneActiveSemester`, `ActivationKeepsOne`, `AuditTrail`, `AnsweredMeansDone`, `ImportReport`, `CallsAnswered` | 2 administrators, 2 or 3 calls on one part of the data, 1 fault |
| `program` | `MissedByDepartures`, `RefusalsExplained`, `ExportsAccounted`, `SchemaFirst`, `ExportsSettle` | 2 clients, 2 students, 3 groups, 2 replicas, cap 2, seven budgets, 1 fault |
| `batch` | `NoPartialCapBreach`, violated | a batch and one more call of the student, no fault |
| `exports` | `JobsFinished`, violated | 1 export, 1 graceful stop or death, no fault |

**Bounds.** Every race in this code is between two transactions, or between two and one
that edits the row between them; two of each kind meet in every order. A cap and
capacities of 0 and 1 put every submission and acceptance at the boundary. Two arrival
numbers are enough for two requests to be out of order, and the third draw meets the
exhausted sequence. In `changes` the student of the request is the one who submits to
the target, and one edit, of a capacity, a group, a student or a window, falls between
any two statements; two students under edits, and targets of another offering, are
covered by the proofs only. In `outbox` one row is enough: rows meet only in a worker's
batch, where the rows ahead of this one delay it, and a pause of any length before its
delivery does the same. With three attempts a stale count can fall back and still be
overtaken; two faults let both workers lose the row. In `outbox_double_send` the ratio
of the code is kept: a batch of sends takes longer than the lease, and one send does not
(20 x 10 s > 60 s >= 10 s becomes 3 x 1 > 1 >= 1). The enrollment runs do not check for
deadlock: with all calls idle and the bounds used up the system may stop, and that calls
never block each other is `CallsEnd`. Symmetry is used only where no liveness is
checked.

In `login` a code lives for 3 units, longer than a session (1), so that one code can be
tried, opened twice and outlive its sessions; the configured domains leave the address
out, so only the setting can let it in. The limiter lets 2 requests through in a period
of one unit, whose first and last instant differ: a window that is used at its last
instant is followed by one that is used up at once, and the bound of 3 is reached. Two
calls are what every race there needs. In `backoffice` calls on different parts of the
data share no rows, so each behaviour has one part (`scope`) and its calls meet there;
semesters and settings have a third call. In `program` the budgets are three overlapping
calls; two calls and a reader of the catalog; two calls and a page of the queue with its
decisions; a call and two pages one after the other; a call and an export with a replica
that stops; two exports with a replica that stops; and replicas that start together
while two stops or deaths happen. Pages hold one item, so a request that leaves between
two pages is enough to skip another one. `login`, `backoffice` and `program` do not
check for deadlock either: their calls run out. That none of them waits for ever is
`CallsAnswered` and `ExportsSettle`.

**Fairness.** `Enrollment!FairSpec` asks strong fairness of the steps of a started
call: a goroutine sends its next statement, and PostgreSQL serves the waiters of a
row lock in order of arrival, so a waiter is not overtaken forever. Nothing is
assumed of clients, administrators or failures. `Outbox!FairSpec` asks weak fairness
of each worker (`Run` polls on a ticker, and a dial ends some time) and of time. It does
not bound a send; what `SettleOnceLeasesHold` needs beyond that is its premise: from some
moment on, the row a worker is delivering is still within its lease.
`Backoffice` asks weak fairness of the steps of each call: it runs in a goroutine of
its own, and no other call can take its lock again and again, as their number is
bounded. `Program` asks weak fairness of each replica's worker, of its start-up once it
has begun and of its exit; nobody has to start a replica, make a call or stop failing.

## 4. What the checks show

* Cap, direct slots, seats, arrival order, settled requests, idempotent answers and
  the audit trail hold in every interleaving, and the whole transaction system
  implements the atomic ledger: whoever uses enrollment may reason as if each
  operation happened at once. Each property fails when the lock, index, guard or rule
  it depends on is removed (the mutants next to the definitions).
* Lock order is group before student in Submit, and request before group in Decide;
  no call waits forever.
* **Finding: a retried key can be refused** (`replay`). The cap is checked before the
  idempotency index is consulted. Two calls with one key that both miss the fast path:
  the second counts its twin's request and is refused with
  `ErrMaxElectivesReached`. The migration says the same key "returns the same request".
* **Finding: one notification can be sent by two workers at once**
  (`outbox_double_send`). The re-stamp in `deliver` tests only that the row is
  SENDING, not whose claim it is, contrary to the comment above it. The clobbering half of
  that comment holds: `FinishedStays`.
* **Signing in.** The limit of wrong codes, the single live challenge and the single
  use of a code are read in one statement and enforced in another. They hold up to the
  number of calls in between, and no further. A role in a session can outlive the
  account's role, by at most the session's lifetime; an account that is inactive when a
  call begins is never served. A broken or empty setting falls back to the
  configuration. Two windows of the limiter can be used back to back: up to twice the limit
  less one requests of an address pass within one period.
* **Administration.** One active semester in every interleaving, kept by the unique
  index where the two UPDATEs of concurrent activations miss each other; two
  activations can deadlock, and PostgreSQL aborts one. Every answer of success has its
  event and every refusal has none. Two first upserts of a setting both record no
  previous value, because `FOR UPDATE` locks nothing while there is no row.
* **The outbox.** A row is given up only after the full number of failed sends, and no late
  worker touches a finished one. `worker.go:16-18` says a row is FAILED after the limit
  "instead of retrying forever", and `worker.go:24-27` that 60 s leave ample margin above the
  longest send. The dial has no such bound. While dials last longer than the lease, two
  replicas take a row from each other, the terminal update finds another claim, the attempts
  do not grow, and the row is retried for ever: without the premise of
  `SettleOnceLeasesHold` TLC shows exactly this. With it every row settles, whatever
  happened before.
* **Finding: a batch can be cut short by the cap** (`batch`). A submission of the same
  student between the pre-check and the items takes a place; a later item is refused after
  earlier ones were committed. `enrollment/app/service.go:86-87` says the pre-check
  "eliminates partial commits for the cap-breach case".
* **The review queue.** A page is read by OFFSET, so a request that is decided or cancelled
  between two pages moves the rest up, and one request is skipped without having been shown.
  At most one is skipped for each that left (`MissedByDepartures`). An item shown without a
  warning can be accepted, unless the request, the group's capacity or the acceptances of
  group or student changed after the page was read (`RefusalsExplained`); the decision is
  made on what is then true, never on what the page said.
* **Finding: a graceful stop leaves an export PROCESSING** (`exports`). The worker runs on the
  context that the signal cancels, so the generation fails, and so does `MarkFailed`;
  nothing reclaims the export. `cmd/api/main.go:263` says "let the workers finish their
  current batch" and `reporting/app/worker.go:86` "moved to FAILED". At most one export is
  left for each stop, crash or fault (`ExportsAccounted`); all others settle while a
  replica is up (`ExportsSettle`). A file can only be downloaded from the replica that wrote
  it; another one answers 404.
* No replica serves an incomplete schema. Nothing is claimed of catalog browsing: its answer
  is a snapshot, and a submission that follows it may find the seat taken or the window
  closed.

Smaller things met while modelling, which no property forbids:

* The retry of a batch whose answer was lost is refused by its own requests
  (`enrollment/app/service.go:116`): the duplicate check comes before the keys of the items
  are looked at.
* The waitlist report orders the priority groups as text
  (`reporting/adapter/file/datasource.go:98-100`); the queue orders them by rank
  (`review/adapter/postgres/queue.go:25`). BY_ELECTIVE, BY_STUDENT and AUDIT reports fall
  back to the general listing.
* The queue's warning counts completed electives; the rule of acceptance does not. At the
  moment it is computed it warns too often, never too seldom.
* A duplicate document of a student is answered as a taken e-mail; duplicate offerings
  and groups, and a capacity adjustment of a group that does not exist, are answered
  500, as is a reason of three blanks, which passes Go and fails the CHECK.
* An update of a window ignores dates it cannot parse.
* Activating a semester writes no event for the one it closes, although the README
  says every state change writes an audit row.

## 5. Proofs

Every safety property of the passing runs, invariant or action property, and the
refinement is also a theorem of the form `Spec => property`, for every value of the
constants that satisfies the named assumptions.

| Theorems in | State | Assumptions on the constants |
| :-- | :-- | :-- |
| `EnrollmentProofs` | `TypeOK`, `StudentCap` | `MaxElectivesAssumption`, `StoreAssumption`, `ReviewAssumption`, `MaxEditsAssumption` |
| `EnrollmentSafetyProofs` | `NoOverbooking`, `NoDirectOverbooking`, `ArrivalOrder`, `SettledStays`, `AuditTruthful` | the same |
| `EnrollmentRefinementProofs` | `SameKeySameRequest`, `ImplementsLedger` | the same |
| `OutboxProofs` | `TypeOK`, `FailedWasTried`, `FinishedStays` | `OutboxAssumption` |
| `IdentityProofs`, `RateLimiterProofs` | `TypeOK`, `AttemptsBounded`, `LiveChallengesBounded`, `SessionsPerCode`, `RoleFresh`, `DomainPolicyFailsSafe`, `InactiveNotServed`, `BurstBounded` | `IdentityAssumption` (finitely many clients, positive lifetimes), `RateLimiterAssumption` |
| `BackofficeProofs` | `OneActiveSemester`, `ActivationKeepsOne`, `AuditTrail`, `AnsweredMeansDone`, `ImportReport` | `StoreAssumption` of `BackofficeStore` (what the tables hold at the start), `ImportsAssumption` |
| `ProgramProofs` | `SchemaFirst`, `ExportsAccounted`, `MissedByDepartures`, `RefusalsExplained` | `RequestsAssumption`, `QueueAssumption`, `ReplicasAssumption`, `ReportingAssumption`, `MaxElectivesAssumption` |

Hardly any of them is inductive. Each specification has a stronger invariant, `IInv`
(with `AnswerInv` for the answers of enrollment), defined beside its properties; it was
checked by TLC on the run's instance and is proved from `Init` and `[Next]_vars`. What
the properties leave out, and the invariants say, is what a process that has read
something and not yet used it can rely on.

**Enrollment.** A commit is only right if what the transaction
read earlier is still good. `IInv` says exactly that. For a Submit call (`SubmitOK`):
it holds the locks its program counter implies and its capacity is current; the
number of active requests is still below the cap once it was checked
(`CapReserved`); the direct slot it was classified into is still free
(`SlotReserved`); its uncommitted row has the highest number of the group and no
committed row has its index entries (`UncommittedRow`). For a Decide call
(`DecideOK`): it holds the request lock and the status and group it read are those of
the request; with the group lock, capacity and accepted seats are current. The proof
that a step preserves `IInv` (`NextInv`) separates what a step does to its own call
from what it can do to the others: an action disturbs another call's reading only if
it changes rows the other has locked, and the notions `StudentStable`, `GroupStable`,
`Undisturbed` and `Quiet` say when it does not. The action properties then follow
from `IInv` and one look at each committing action. `AnswerInv` adds that a finished
call was answered with a request of the ledger that has its key, and that the unique
indexes hold; with it every step is a step of `EnrollmentLedger` or leaves the ledger
alone (`LedgerImplemented`): the commits map to the atomic operations, everything
before them to stuttering.

**Outbox.** A worker writes back a count of attempts that it may have read long ago. The
invariant: no such count, in a row or in a batch, is ahead of the sends that really
failed, an open row has an attempt left, and once a send has failed there is one failure
more than the worker's count says. `FinishedStays` then needs only the guards: every
statement that changes a row asks for a status it can no longer have.

**Signing in.** The limits are read in one statement and enforced in another, so the
invariant counts a call that has passed a check as what it is about to do: attempts
plus calls about to add one, live codes plus calls about to create one, sessions of a
code plus calls about to open one. Roles follow the age of the reading, and a domain
that passed was listed. For the limiter (`SlotInv`): the requests of one period come
from the open window and at most one before it; each window numbers its own, so each
contributes at most the limit, and the one that opened the older window has left the
period when the newer one opens.

**Administration.** A row that a call has locked is what the call read, and nobody else
has it locked (`LocksKept`). At most one activation is past the unique index, and the
active semester is among those it closes (`SemestersKept`). The events of a row chain;
the upserts that have no previous value, together with the calls that have read that there
is no row, are at most the administrators (`HistoryKept`). A call that is not answered
has written nothing, an import exactly what it has counted and at most one row more
for each lost reply (`AnswersKept`).

**Program.** Each component keeps an invariant of its own through the steps of all the
others. Replicas: the advisory lock has one holder, the migrations form a prefix, and
nobody serves before the last. Exports: every PROCESSING export has its worker or is an
orphan, and orphans and the replicas about to leave one are at most the faults and
stops. Queue: every place of the order is taken by exactly one request, so a page shows
exactly the requests at its places (`PageShows`). Between two pages a request that stays in
the queue moves up only past requests that leave it (`Crossing`): of those that were behind
the last page and are ahead of the next one there are at most as many as have left
since, and all that had been passed before are accounted for by the invariant. What an item
was warned of is about what was counted with it (`ItemKept`); counts of finite sets then
turn a refusal into a change of one of those sets.

**Only model-checked.** `CallsEnd`, `SettleOnceLeasesHold`, `CallsAnswered` and
`ExportsSettle`, for liveness under fairness (and ENABLED) is out of this prover's reach.
The four runs that expect a violation show a counterexample, which needs no proof.

## 6. Not modelled

Formatting and wording, HTTP envelopes, DTOs, configuration, logging and tracing, file
contents and formats of the reports. Read-only listings in one statement: audit,
accounts, windows, effective prerequisites, and a student's own requests except where
the batch uses them. Notification reading: an idempotent UPDATE of one row and two
listings. Hashing and random generation. The memory of the rate limiter, whose map is
never pruned. Foreign-key locks: `FOR KEY SHARE` on rows that no transaction here locks
more strongly, except its own. Clock skew between replicas. The creation of groups and
students while enrollment runs: they exist from the start, and an inactive one is as
good as a missing one to every transaction.

## 7. Plan

The modules were written in the order of their weight: enrollment and review, the
outbox, signing in, administration, and the program around the ledger; then the proofs,
in the same order. Every safety property has its theorem. What is left:

1. `Requests` takes the ledger's operations as single steps because `Enrollment`
   implements the ledger. A refinement of the two over the same constants would make
   that argument formal.
2. The three hazards without a property, which are questions of policy rather than of
   interleaving: acceptance into a group that is closed, requests whose semester is not
   that of the offering, and the retry of a batch.
3. Notification reading, should it grow beyond an idempotent update of one row.
