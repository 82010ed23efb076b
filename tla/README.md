# moon-eye: TLA+ verification project

moon-eye is a personal-finance backend in Go: an HTTP API over PostgreSQL, an
outbox table `change_events`, a Redis stream of sync jobs with workers that
merge changes with Google Sheets, and a projection runner that keeps read
models. This directory holds TLA+ models of its core, the TLC configurations
that check them and TLAPS proofs of their safety properties and refinements.
Paths below are relative to `src/backend/` unless they say otherwise.

## 1. The system

| Component | State | Operations | Interacts with |
|---|---|---|---|
| Write path (`internal/service/transaction_service.go`, `internal/wiring`, `internal/db`) | tables `transactions`, `change_events` | create, update, soft delete, each in one `RunInTx` | XADD of a sync job after the commit |
| Read path (same service, `pkg/shared/pagination`) | none | get, list, count | reads `transactions` |
| Projection runner (`internal/service/projection`) | `projection_cursors`, `transaction_summary`, `monthly_balance` | poll, process a batch, advance the cursor | reads `change_events` |
| Stream queue and worker runner (`internal/queue`, `internal/worker`) | Redis stream `sync_queue`, consumer group `sync_workers` | enqueue, consume, acknowledge | produced by the API, consumed by sync-service and worker-service |
| Sync service (`internal/sync/service.go`, `merge.go`) | none of its own | handle a job: for each connection read events, fetch the sheet, merge, apply | reads `change_events`, `sheets_connections`; calls the sheets client |
| Sheets client (`internal/sync/google_sheets_client.go`) | the sheet | fetch, apply | only finance-api builds it, and handles no jobs; both consumers use `NoopSheetsClient` |
| `sync_queue` table worker (`internal/sync/worker.go`) | table `sync_queue` | take, retry with backoff, delete | no process starts it, nothing fills the table |
| Authentication (`internal/service/auth_service.go`) | `users`, `refresh_tokens` | register, login, refresh, logout | JWT middleware of the API |
| Handlers, wiring, configuration | none | decode, call the service, encode | everything |
| Web and mobile clients (`src/web`, `src/mobile`) | mobile: a local table | HTTP calls, local accessors | API |

What is hard in it, and what makes each part correct:

* **Write path.** Requests race on a row; an update is computed from a copy
  read *before* its transaction; COMMIT may be answered or not; the process may
  die between commit and enqueue. Correct means: the log holds exactly one event
  per version, nothing acknowledged is lost, no update overwrites what it did
  not see, deleted rows stay as they are, jobs are never ahead of the database.
* **Projection.** Event ids become visible out of order; processors commit
  one by one and the cursor afterwards, so any failure repeats work. Correct
  means: nothing is passed over, order is kept, duplicates have a cause.
* **Stream.** Several consumers, failing handlers, ignored XACK errors, crashes
  with a batch in hand, a loop that ends on the first Redis error. Correct means:
  only finished work is acknowledged, nothing is done twice at once, every job
  is eventually settled.
* **Authentication.** A refresh decides on a row read outside its transaction;
  registrations race for an email; a rotation may fail, die or lose its answer.
  Correct means: answers are durable, one account per email, no session loses
  its last token unless its owner logs out, a used token is refused.
* **List.** The page and the total are two statements. Correct means: the total
  is the number of the user's rows.
* **Merge.** Ties in the query's order, a LIMIT that cuts, unreadable cells.
  Correct means: the newest change of each row that was read wins whatever the
  order, and the same job reads the same events again.

`PROJECT.json` lists the hazards line by line.

## 2. Modules

    Ledger                abstract: table and log written in one step
      ^ implemented by
    Transactions          the write path                     <- MCTransactions, TransactionsProofs
      ^ extended by
    Projection            runners beside the write path      <- MCProjection, ProjectionProofs
    JobQueue              abstract: hands out each job once, in order
      ^ implemented by
    SyncStream            the Redis stream and its consumers <- MCSyncStream, SyncStreamProofs
    SheetMerge            what one job reads and merges      <- SheetMergeProofs (run directly)
    AuthTokens            accounts and refresh tokens        <- MCAuthTokens, AuthTokensProofs
    Listing               a list request beside deletions (run directly)

### Transactions

`rows`, `events` are the committed tables, `nextEventId` the `BIGSERIAL`
sequence, `jobs` the stream as the API appends to it; `pc` and `req` hold where
each request is and its locals, including its uncommitted row image and event.

| Action | Code |
|---|---|
| `CreateTransaction` | `handleCreateTransaction` to the INSERT inside `RunInTx` |
| `LoadExisting`, `UpdateTransaction`, `UpdateConflict` | `TransactionService.UpdateTransaction`: the read from the pool, the UPDATE with `version = $13`, its `ErrNoRows` |
| `SoftDeleteTransaction` | the UPDATE with `deleted_at IS NULL` |
| `AmountRefused` | the error of `NumericFromFloat64` in `Create` and `Update` of the repository, before their statement |
| `InsertChangeEvent`, `Commit` | the event INSERT and the COMMIT of `RunInTx` |
| `CommitUnacknowledged`, `Fail`, `Crash` | lost answer to COMMIT; every error before the commit; the process dies |
| `EnqueueSyncJob`, `EnqueueSkipped` | the ignored result of `EnqueueSyncJob` |

Data is abstracted to what the SQL tells apart: `amount` stands for every
column an update always sets, `currency` for those kept when left empty,
`deleted` is `"null"`, `"zero"` (0001-01-01) or `"set"`. Failing decodes and
conversions other than that of the amount are causes of `Fail`. PostgreSQL is external and modelled as READ
COMMITTED: an UPDATE waits for the row lock and then evaluates its WHERE clause
on the committed row; a sequence value is not returned by a rollback.
`GetByID` and the soft delete select by id only, so update and delete requests
carry no user of their own. The service's branch without a transaction runner is unreachable:
`newApp` always passes one.

`NumericScan` says what `pgtype.Numeric.Scan` (external) may answer to the
float64 of an amount. In pgx v5.8.0, the version of `go.mod`, that is always an
error, so as the code stands every create and update ends in `AmountRefused`
(finding below) and only soft deletes commit: this is `{"error"}`, the value of
all runs that show a disagreement in this module and in Projection. The
run `transactions` takes `{"ok", "error"}`: it contains all behaviours of the
code as it stands, and those of the code once the conversion is mended, which is
where the races of updates are. The run `projection` takes `{"ok"}`, so that
`RequestsEnd` cannot be had by turning a waiting update down; a refused request
is there one that ends in `Fail`. The theorems hold for every value.

`Imported` are rows that were inserted with the column defaults and not by the
API. They matter because they are the ones the code can change. A row the API
would create gets `deleted_at` 0001-01-01, not NULL (`DeletedAt`, from the
`time.Time{}` of `adapter.go:172` and `TimestamptzFromTime`), and would be out
of reach of every get, list, update and delete; as long as no create gets past
its amount this second fault does not show.

`Ledger` is the promise of the API: `Insert`, `Amend`, `Remove`, each changing a
row and logging the new version in one step. `LedgerSpec` (`L!Spec`, with the
change log stripped of its serial ids) is the refinement.

### Projection

Extends Transactions: `SysNext` is a step of the API or of a runner. `runner`
holds the loop's locals (stage, lastID, rest of the batch, next processor,
maxID), `cursor` the table of cursors, `applied[p][i]` how often processor `p`
added event `i`; since both processors only ever add a delta computed from the
event, this determines the read models. `Process` is one upsert of one
processor (it commits by itself), `SetCursor` the write after the whole batch.
`GiveUp` is any error without effect and any restart; `AddUnacknowledged` and
`SetUnacknowledged` are statements that committed without the runner knowing.
`late` is a history variable: events that became visible behind a higher id.
Amounts in `Rejected` stand for events that `monthly_balance` can never take (an
account that is gone, a sum beyond NUMERIC); each retry of one counts as a
failure, so `MaxFailures` bounds them. Runners may share a name, and with it a
cursor.

### SyncStream

A message is its place in the stream; Redis (external) is the group's
last-delivered place and its pending list. `consumer[c]` is the state of one
`Consume` loop with its batch. `HandleSyncJob` picks the connections,
`SyncUserTransactions` does one, `XAck` acknowledges. `HandleRefused` is the
error for a connection of another user. Errors: `ConsumeReturns` (the loop ends
for good), `ReadReplyLost` (a delivered batch is lost; go-redis sends the command
again and the loop reads on past it, or gives up and the loop ends),
`HandlerFails`, `XAckFails`, `Crash`; `Restart` starts a process again, at
`ensureGroup`. Both services use fixed
consumer names, but with `">"` the name decides nothing.

`JobQueue` is what the stream promises: a job is queued, taken in a batch from
the front, then done or left, both for good; a batch may be lost on its way.
`JobQueueSpec` maps each message to its state there (`JobState`).

### SheetMerge

`SyncUserTransactions` for one connection, beside an API that logs changes
(`LogEvent`). `ListEvents` reads the events: `LocalChanges(v)` is the set of
results `ListTransactionEventsSince` may return (every order of equal versions,
cut at `Limit`). `FetchRow` is the loop of `FetchChanges`, `PutLocal` and
`PutRemote` the two loops of `MergeSheetRows`, one row a step, `Sort` its end;
`Return` is an error of the fetch and both outcomes of `ApplyChanges`. `Winner`
is the reference: highest version, then latest time (none is the earliest), then
the local change. It looks at the time itself, where the code puts the version
in the place of a time it cannot read. Row ids and times are numbers, 0 is an
unreadable cell. `EntityIDs` are the ids of transactions, `SheetRowIDs` those the
client gives to rows of the sheet. With `GoogleSheetsClient` these are UUIDs and
row numbers, which never meet, so no conflict is ever resolved there; the mock
client of the tests names rows by the ids it is given. The run has ids of both
kinds and one that is in both sets. A row inserted past the API has version 1
without an event, so the log of a row may begin with version 2. `sort.Strings` is modelled
by its contract: an ascending arrangement of the ids.

### AuthTokens

`users` and `refresh_tokens` as committed, `expired` for `expires_at`, `pc` and
`req` for the requests. A hash is the password it accepts; a token is its row id,
so a refresh with a wrong secret or an unknown id, and an undecodable string, are
among the causes of `Fail`. A logout looks at nothing but the id, and one of an id
that is in no row is answered like any other (`LogoutUnknown`).

| Action | Code |
|---|---|
| `Register`, `CreateUser`, `CreateUserDuplicate` | `Register`: the INSERT inside `RunInTx`, decided by the unique index |
| `Authenticate`, `AuthenticateRefused` | `Authenticate` up to its transaction |
| `LoadToken`, `RefreshRefused`, `Revoke` | `Refresh`: the reads from the pool and their checks, the UPDATE in the transaction |
| `CreateRefreshToken`, `CreateRefreshTokenViolation` | the INSERT of login and refresh, as `updated_at` is declared |
| `Logout`, `LogoutDone`, `LogoutUnknown`, `LogoutUnacknowledged` | `Revoke` without a transaction |
| `Commit`, `CommitUnacknowledged`, `Fail`, `Crash`, `Expire` | the end of `RunInTx`, lost answers, errors, the process dies, time passes |

The INSERT gives NULL for `updated_at`. `migrations/0005_auth_tokens.sql`
declares it NOT NULL, and then no token is ever made (finding below). The module
therefore takes the declaration as a variable that never changes: `"not null"`
is the migration, `"nullable"` a table that was there before it (CREATE TABLE IF
NOT EXISTS keeps it) and also stands for the code with the NULL mended. The run
`auth` checks both. Users that migration 0005 found have no password; they
may have an email stored as it was typed. `session`, `given`, `loggedOut` and
`spent` are history.

Two refreshes that overlap both succeed with one token: `Revoke` does not look
at `revoked` again. `SpentIsRefused` states what the tests do: after the answer.

### Listing

The page (`ListByUser`) and the total (`CountByUser`) each read the committed
table, other requests delete rows in between. The total is the length of a page
of one (`PageLength`). What is on the page, its order and its limits are left
out: the total does not depend on them.

## 3. Runs

| Run | Expect | Shows |
|---|---|---|
| `transactions` | pass | outbox exact, event order, no lost update, durable acknowledgements, covered jobs, final deletions, the inductive invariant, refinement of Ledger |
| `transactions_amount` | violation | `AmountsConvert`: every create and update is turned down with "cannot scan float64" |
| `projection` | pass | cursor safety, bounded duplicates, order, cursor monotonic, the inductive invariant; events reach both read models unless late or behind one that is rejected; requests end |
| `projection_once` | violation | `ProcessedOnce`: a failure, or a second runner of the same name, adds an event twice |
| `projection_skip` | violation | `NothingSkipped`: commits out of id order lose an event |
| `stream` | pass | disjoint hands, acknowledged means done, at most one run per message, the inductive invariant, every job is settled, refinement of JobQueue |
| `stream_retry` | violation | `PendingIsRetried`: pending messages are never taken again |
| `sheet_merge` | pass | merge equals the reference and does not depend on tie order; the inductive invariant |
| `sheet_rerun` | violation | `SameEventSet`: a job that runs again on the same log may read other events |
| `auth` | pass | durable answers, unique emails, sessions survive failed rotations, used tokens are refused and never revived, the inductive invariant, requests end |
| `auth_login` | violation | `LoginWorks`: under migration 0005 every login fails |
| `list_total` | violation | `TotalIsCount`: the total is at most 1 |

Each violation is a finding in `PROJECT.json` with the line that says otherwise.
Together `RunAtMostOnce` and `PendingIsRetried` say what the queue is: at most
once, where the comment and `src/app.md` say at least once.

**Bounds.** Each request is used once, so the number of requests bounds a run.
Three are enough for a request to read, a second to change the row and a third
to hold another row or event id; three ids give one imported row and two
creations. The projection run has two requests, so two events whose ids may
become visible in either order, batches of two and two failures: a failure in a
retry; one of two amounts is rejected by the balance, so an event may be blocked
by itself or by the one before it. With two events the LIMIT of a batch never
cuts. The stream run has three messages, batches of two, two consumers and one
failure: a consumer can lose a batch, or end, while the other goes on. Its two
connections are of one user and jobs name either user, so a job may have two
connections, one, none, or one of somebody else. The merge run has two rows, two
versions, two times, hence up to four events, and `Limit` 3, so the LIMIT does
cut; three row ids, one only of a transaction, one only of the sheet and one of
both; jobs follow each other without bound. The auth
run has three requests: two that race for a token and one that took part in
making it or comes after; two users, four tokens (one there from the start), two
spellings of one email and two passwords. The list run has three rows and two
users. Named bounds: `MaxFailures`, `EventIds`,
`MaxJobs`, `MaxRemote`, `MaxVersion`.

**Symmetry.** Requests, users, amounts and fresh ids of Transactions are only
compared for equality; symmetry is used in the run `transactions`, which has no
liveness property, and nowhere else.

**Deadlock.** `CHECK_DEADLOCK FALSE` except in `sheet_merge`: clients may stop
sending requests, and the bounded inputs run out. In `sheet_merge` a job can
always go on or return, which TLC checks.

**Fairness.** `projection` and `auth` assume that a started request goes on (Go's
scheduler, PostgreSQL's lock queue; a transaction waits for at most one row or
email). `projection` also assumes that a running projection loop goes on: every
branch of it waits a bounded time and continues; its failures are finitely many.
`stream` assumes only that a running consumer loop goes on. No fairness is put
on `Restart`: `docker-compose.yml` has no restart policy, and `EveryJobSettles`
excuses the case in which every loop has ended.

## 4. Proofs

Every safety property, action property and refinement that a passing run checks
is also proved, for every value of the constants that the named assumptions
allow. Each proof has the same shape: `TypeOK /\ Inv` (`SysTypeOK /\ SysInv`) is
inductive, with one lemma per action or group of actions that do the same to the
state; TLC checks that invariant in the run of the module; the properties follow
from it, and the refinements are shown step by step under it.

**`TransactionsProofs`**, from `CurrencyAssumption` and `ImportedAssumption`,
whatever the conversion of an amount answers:
`InvHolds`, `TypeCorrect`, `OutboxIsExact`, `EventsAreOrdered`,
`NoUpdateIsLost`, `AckedStaysDurable`, `JobsStayCovered`, the action property
`DeletedStaysFinal` and the refinement `ImplementsLedger`. None of the
properties is inductive alone: that the log stays exact at a commit needs to know
that the row in the request's hands is one version ahead of the committed one
(`RequestInv`), which holds because no other open transaction has that row
(`Exclusion`), and for an update because an equal version means an equal row (the
clause of `RequestInv` for `"read"`). Event order needs that an id taken is above
those of the row's events and below the sequence (`IdsTaken`). The commits share
`CommitEffect`, everything that rolls back shares `AbandonEffect`.
`OnlyCommitsWrite` and `Committing` reduce the action property and the
refinement to the commit, `CommitIsLedgerStep` shows that it is one step of
Ledger.

**`ProjectionProofs`**, from `RunnerAssumption` and the above. `PassedStaysApplied`
and `AppliedStaysInOrder` hold for any number of runners, of one name or of
several, and any number of failures. The invariant `SysInv` says that behind the
point a runner has reached (`LoopInv`), and behind every stored cursor
(`DoneUpTo`), there are only events in both read models or late ones. `DoneUpTo`
also says that this point is an event or the start: only then is an event that
appears behind it late by definition, which is what `ApiStepInv` needs.
`DuplicatesStayBounded` and `CursorOnlyAdvances` assume `OneRunner`, and are
false without it (`projection_once` has the trace). They need `AloneInv`: the
cursor a lone runner read is still the stored one, and an event added more often
than something failed is one it will not read again (`AddedSince`). `PageIsPrefix`
says that a batch has no gap. All these theorems are about behaviours whose event
ids are in `EventIds` (`[]IdsFit`, which the run checks as part of `SysTypeOK`);
`IdsSuffice` shows that with all positive numbers this is no restriction.
`SystemRunsTheApi` carries the theorems of `TransactionsProofs` over to the
system with runners.

**`SyncStreamProofs`**, from `StreamAssumption`, for any number of messages and
consumers: `TypeCorrect`, `HandsStayDisjoint`, `AckedStaysSynced`,
`NeverRunTwice` and `ImplementsJobQueue`. The invariant adds what each loop has
in hand: its batch is among what was delivered (`BatchInv`), the connections done
for the current message were synced (`WorkInv`), and a message that was not
delivered, or waits in a batch, was given to no handler (`RunsInv`). For the
refinement `StatesFit` tells the state of every message in JobQueue;
reading is a take, an acknowledgement a finish, whatever empties a hand a leave,
and the work on a message is hidden.

**`AuthTokensProofs`**, from `AuthAssumption`, for any number of requests, users
and tokens and both declarations of the table: `TypeCorrect`, `AnswersStayTrue`,
`EmailsStayUnique`, `SessionsLive`, `SpentStaysRefused` and the action property
`RevokingIsForGood`. The invariant says for each operation what its reads outside
the transaction still tell it when it writes (`RegisterInv`, `LoginInv`,
`RefreshInv`), that the row it inserts is nobody's before its commit (`NewInv`),
and that two open transactions insert different rows and emails (`Apart`).
Nothing changes a row of `users` and nothing but `revoked` changes in a row of
`refresh_tokens`, which every step is shown to respect (`RowsStay`).

**`SheetMergeProofs`**, from `MergeAssumption`, for logs and sheets of any
length and any `Limit`: `MergeIsRight` and `MergeStaysStable`, both about what
was read. The invariant says
that the map holds the winners of the rows the loops have been through
(`IsMerge`). The first loop overwrites without comparing; it is right because the
events come sorted by version (`ByVersion`) and the log has one event for a
version of a row (`OneChangePerVersion`). `TimesAgree` shows that the version put
in the place of a missing time never beats a time: `MergeAssumption` has every
time, in seconds since 1970, above every version. That a sorted arrangement of the ids
exists is not proved but seen by TLC, which finds no deadlock at `Sort`.

Only model-checked:

* the liveness properties `EventuallyProjected`, `EveryJobSettles` and
  `RequestsEnd`: fairness and ENABLED are out of the prover's reach here;
* Listing, whose only run shows a disagreement.

## 5. Not modelled

* `internal/sync/worker.go`: no process calls `StartWorker`, nothing inserts into
  `sync_queue`, and `processQueueItem` does nothing, so there is no effect whose
  correctness could be stated.
* `ApplyChanges` of the sheets client: only finance-api builds a
  `GoogleSheetsClient`, and it handles no sync jobs. Both job consumers get
  `NoopSheetsClient`, so no job writes a sheet.
* Encryption, JWT and token encoding, HTTP decoding and layout, logging, metrics
  and configuration: stateless or byte-level code. Their errors are causes of the
  `Fail` actions.
* The content, order and limits of a page of the list, with the unchecked
  conversion of its offset to int32: stateless, and no document says what a
  larger offset should give.
* `UserRepository.Update`, `GetByUserID` of tokens, and the filters of the list
  other than the user: no code calls or sets them.
* How long a soft delete waits for its row: it starts when it gets it, so
  `RequestsEnd` of Transactions does not cover that wait.
* A version cell that holds a negative number is left out of SheetMerge. The web
  client is stateless, the mobile table is not synchronised with anything yet.

## 6. Plan

Done, in this order: Ledger and Transactions with proofs; Projection; SyncStream;
SheetMerge; JobQueue; AuthTokens; Listing; the rejected event and the shared
projector name in Projection; the proofs of SyncStream, AuthTokens, Projection
and, after its loops had become steps, SheetMerge. Next:

1. What the abstract specifications promise, proved of them once and carried
   over by the refinements: in JobQueue, that a job done or left stays so.
2. Should sync-service be wired to the sheets client: `ApplyChanges`, and whether
   a repeated job leaves the same sheet; should the `sync_queue` table get a
   producer: its worker with lock, backoff and attempts.
