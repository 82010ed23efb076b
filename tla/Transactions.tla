---------------------------- MODULE Transactions ----------------------------
(***************************************************************************)
(* The write path of the finance API: concurrent requests that create,     *)
(* update and soft-delete transactions, each in one PostgreSQL transaction *)
(* that writes the row and its change event, followed after the commit by  *)
(* a best-effort sync job on the Redis stream.                             *)
(*                                                                         *)
(* A request runs                                                          *)
(*                                                                         *)
(*    idle -> [read ->] written -> logged -> committed -> ok               *)
(*                                                                         *)
(* and may stop in "failed" from every point before "committed". It stops  *)
(* in "refused" when pgtype does not take the amount of a create or update.*)
(*                                                                         *)
(* PostgreSQL is modelled at READ COMMITTED: rows and events hold what is  *)
(* committed; an open transaction's row image and event live in req and    *)
(* become visible at the commit; an UPDATE waits for the transaction that  *)
(* holds the row and then evaluates its WHERE clause again; a sequence     *)
(* value is taken at the INSERT and is not given back by a rollback.       *)
(***************************************************************************)
EXTENDS Naturals, Sequences

CONSTANTS
    Requests,    \* HTTP requests, each served by its own goroutine
    Ids,         \* row identifiers (gen_random_uuid)
    Users,
    Amounts,     \* stands for amount and every field an update always sets
    Currencies,  \* stands for currency, type and source: kept if left empty
    DefaultCurrency,  \* "IDR"
    Empty,       \* a field left out of the request
    Imported,    \* rows that other tools inserted with the column defaults
    NumericScan  \* what pgtype.Numeric.Scan may answer to a float64

ASSUME CurrencyAssumption == DefaultCurrency \in Currencies /\ Empty \notin Currencies
ASSUME ImportedAssumption == Imported \subseteq Ids

\* pgx v5.8.0 (go.mod) answers "error": Scan takes nil and strings only. With
\* "ok" the module is the code once the conversion is mended.
ASSUME ScanAssumption == NumericScan \subseteq {"ok", "error"}

VARIABLES
    rows,         \* table transactions, committed
    events,       \* table change_events, committed
    nextEventId,  \* the sequence behind change_events.id (BIGSERIAL)
    jobs,         \* the Redis stream sync_queue
    pc,           \* where each request is
    req           \* the locals of each request and its uncommitted writes

vars == <<rows, events, nextEventId, jobs, pc, req>>

DeletedAt == {"null", "zero", "set"}

Row == [user: Users, amount: Amounts, currency: Currencies,
        version: Nat \ {0}, deleted: DeletedAt]

NoRow == [version |-> 0]

Ops == {"create", "update", "delete"}

Event == [id: Nat \ {0}, entityId: Ids, userId: Users, opType: Ops,
          version: Nat \ {0}, amount: Amounts, currency: Currencies]

\* syncPayloadForUser: the job names the owner and a version, not the row.
Job == [operation: Ops, userId: Users, sinceVersion: Nat]

\* existing: what GetByID returned; row: the row image RETURNING gave back;
\* eventId: the id the open transaction took for its change event.
NoReq == [op |-> "none"]
Req == [op: Ops, id: Ids, existing: Row \cup {NoRow},
        row: Row \cup {NoRow}, eventId: Nat] \cup {NoReq}

PcValues == {"idle", "read", "written", "logged", "committed", "ok", "failed", "refused"}

InTx == {"written", "logged"}   \* an open transaction holds a row

\* The row is held by an open transaction: UPDATEs of it wait.
Locked(id) == \E r \in Requests : pc[r] \in InTx /\ req[r].id = id

\* A field that may be left empty.
OrElse(given, default) == IF given = Empty THEN default ELSE given

\* NumericFromFloat64 on the amount of a create or an update gives this.
Scanned(answer) == answer \in NumericScan

\* deleted_at IS NULL
Live(row) == row # NoRow /\ row.deleted = "null"

-----------------------------------------------------------------------------
(* Creating. *)

\* Mutation: Version is left at Go's zero value.
CreatedRowUnversioned(user, amount, currency) ==
    [user |-> user, amount |-> amount,
     currency |-> OrElse(currency, DefaultCurrency),
     version |-> 0, deleted |-> "zero"]

\* The row CreateTransaction inserts. DeletedAt is time.Time{}, which
\* TimestamptzFromTime turns into a valid timestamp, not into NULL.
CreatedRow(user, amount, currency) ==
    [user |-> user, amount |-> amount,
     currency |-> OrElse(currency, DefaultCurrency),
     version |-> 1, deleted |-> "zero"]

\* handleCreateTransaction up to the INSERT inside RunInTx.
CreateTransaction(r, id, user, amount, currency) ==
    /\ pc[r] = "idle"
    /\ Scanned("ok")
    /\ rows[id] = NoRow
    /\ ~Locked(id)
    /\ req' = [req EXCEPT ![r] =
                 [op |-> "create", id |-> id, existing |-> NoRow,
                  row |-> CreatedRow(user, amount, currency), eventId |-> 0]]
    /\ pc' = [pc EXCEPT ![r] = "written"]
    /\ UNCHANGED <<rows, events, nextEventId, jobs>>

(* Updating. *)

\* applyUpdates on the copy that was read before the transaction began.
ApplyUpdates(existing, amount, currency) ==
    [existing EXCEPT !.amount = amount,
                     !.currency = OrElse(currency, @)]

\* SET amount = $4, ..., version = version + 1: every column but these comes
\* from the copy; deleted_at is not touched.
UpdatedRow(row, existing, amount, currency) ==
    [ApplyUpdates(existing, amount, currency) EXCEPT
        !.version = row.version + 1, !.deleted = row.deleted]

\* UpdateTransaction reads the row from the pool, outside the transaction.
LoadExisting(r, id) ==
    /\ pc[r] = "idle"
    /\ Live(rows[id])
    /\ req' = [req EXCEPT ![r] =
                 [op |-> "update", id |-> id, existing |-> rows[id],
                  row |-> NoRow, eventId |-> 0]]
    /\ pc' = [pc EXCEPT ![r] = "read"]
    /\ UNCHANGED <<rows, events, nextEventId, jobs>>

\* Mutation: the WHERE clause does not compare versions.
UpdateMatchesAnyVersion(row, existing) ==
    row # NoRow /\ row.user = existing.user

\* WHERE id = $1 AND user_id = $2 AND version = $13; nothing on deleted_at.
UpdateMatches(row, existing) ==
    row # NoRow /\ row.user = existing.user /\ row.version = existing.version

\* Mutation: the WHERE clause is evaluated without waiting for the row.
UpdateTransactionNoWait(r, amount, currency) ==
    LET id == req[r].id
        existing == req[r].existing
    IN  /\ pc[r] = "read"
        /\ Scanned("ok")
        /\ UpdateMatches(rows[id], existing)
        /\ req' = [req EXCEPT ![r].row =
                     UpdatedRow(rows[id], existing, amount, currency)]
        /\ pc' = [pc EXCEPT ![r] = "written"]
        /\ UNCHANGED <<rows, events, nextEventId, jobs>>

\* UPDATE ... SET version = version + 1 ... RETURNING, once nobody holds the row.
UpdateTransaction(r, amount, currency) ==
    LET id == req[r].id
        existing == req[r].existing
    IN  /\ pc[r] = "read"
        /\ Scanned("ok")
        /\ ~Locked(id)
        /\ UpdateMatches(rows[id], existing)
        /\ req' = [req EXCEPT ![r].row =
                     UpdatedRow(rows[id], existing, amount, currency)]
        /\ pc' = [pc EXCEPT ![r] = "written"]
        /\ UNCHANGED <<rows, events, nextEventId, jobs>>

\* Mutation: a conflict is retried with the copy that is already stale.
UpdateConflictRetries(r) ==
    /\ pc[r] = "read"
    /\ Scanned("ok")
    /\ ~Locked(req[r].id)
    /\ ~UpdateMatches(rows[req[r].id], req[r].existing)
    /\ UNCHANGED vars

\* The UPDATE matched no row: ErrNoRows, the transaction rolls back.
UpdateConflict(r) ==
    /\ pc[r] = "read"
    /\ Scanned("ok")
    /\ ~Locked(req[r].id)
    /\ ~UpdateMatches(rows[req[r].id], req[r].existing)
    /\ pc' = [pc EXCEPT ![r] = "failed"]
    /\ req' = [req EXCEPT ![r] = NoReq]
    /\ UNCHANGED <<rows, events, nextEventId, jobs>>

\* "convert amount: cannot scan float64": Create ("idle") and Update ("read")
\* of the repository return before their statement, RunInTx rolls back.
AmountRefused(r, at) ==
    /\ pc[r] = at
    /\ Scanned("error")
    /\ pc' = [pc EXCEPT ![r] = "refused"]
    /\ req' = [req EXCEPT ![r] = NoReq]
    /\ UNCHANGED <<rows, events, nextEventId, jobs>>

(* Deleting. *)

\* Mutation: the deletion does not bump the version.
DeletedRowSameVersion(row) == [row EXCEPT !.deleted = "set"]

\* SET deleted_at = NOW(), version = version + 1
DeletedRow(row) == [row EXCEPT !.version = @ + 1, !.deleted = "set"]

\* UPDATE ... WHERE id = $1 AND deleted_at IS NULL RETURNING ...
SoftDeleteTransaction(r, id) ==
    /\ pc[r] = "idle"
    /\ ~Locked(id)
    /\ Live(rows[id])
    /\ req' = [req EXCEPT ![r] =
                 [op |-> "delete", id |-> id, existing |-> NoRow,
                  row |-> DeletedRow(rows[id]), eventId |-> 0]]
    /\ pc' = [pc EXCEPT ![r] = "written"]
    /\ UNCHANGED <<rows, events, nextEventId, jobs>>

-----------------------------------------------------------------------------
(* The rest of the transaction, the same for the three operations. *)

\* The change event of an open transaction; its payload is the row just written.
EventOf(r) ==
    [id |-> req[r].eventId, entityId |-> req[r].id,
     userId |-> req[r].row.user, opType |-> req[r].op,
     version |-> req[r].row.version,
     amount |-> req[r].row.amount, currency |-> req[r].row.currency]

\* Mutation: the id is computed from the committed events, not a sequence.
InsertChangeEventMaxId(r) ==
    /\ pc[r] = "written"
    /\ \E m \in {0} \cup {e.id : e \in events} :
          /\ \A e \in events : e.id <= m
          /\ req' = [req EXCEPT ![r].eventId = m + 1]
    /\ pc' = [pc EXCEPT ![r] = "logged"]
    /\ UNCHANGED <<rows, events, nextEventId, jobs>>

\* INSERT INTO change_events inside the same transaction.
InsertChangeEvent(r) ==
    /\ pc[r] = "written"
    /\ req' = [req EXCEPT ![r].eventId = nextEventId]
    /\ nextEventId' = nextEventId + 1
    /\ pc' = [pc EXCEPT ![r] = "logged"]
    /\ UNCHANGED <<rows, events, jobs>>

\* Mutation: the event is written outside the transaction and lost.
MakeRowVisible(r) ==
    /\ rows' = [rows EXCEPT ![req[r].id] = req[r].row]
    /\ UNCHANGED events

\* The effect of COMMIT: row and event become visible together.
MakeVisible(r) ==
    /\ rows' = [rows EXCEPT ![req[r].id] = req[r].row]
    /\ events' = events \cup {EventOf(r)}

Commit(r) ==
    /\ pc[r] = "logged"
    /\ MakeVisible(r)
    /\ pc' = [pc EXCEPT ![r] = "committed"]
    /\ UNCHANGED <<nextEventId, jobs, req>>

\* PostgreSQL committed, but the answer to COMMIT was lost or the process
\* died: RunInTx returns the error (or nothing), no job is queued.
CommitUnacknowledged(r) ==
    /\ pc[r] = "logged"
    /\ MakeVisible(r)
    /\ pc' = [pc EXCEPT ![r] = "failed"]
    /\ req' = [req EXCEPT ![r] = NoReq]
    /\ UNCHANGED <<nextEventId, jobs>>

\* Mutation: the error of a failed COMMIT is not returned.
FailIgnoringCommit(r) ==
    /\ pc[r] \in {"idle", "read", "written", "logged"}
    /\ pc' = [pc EXCEPT ![r] = IF @ = "logged" THEN "committed" ELSE "failed"]
    /\ req' = [req EXCEPT ![r] = IF pc[r] = "logged" THEN @ ELSE NoReq]
    /\ UNCHANGED <<rows, events, nextEventId, jobs>>

\* An error before the commit: a bad request, a row that is not there, a
\* failed conversion or statement, a cancelled context, a failed COMMIT.
\* RunInTx rolls back; nothing of the transaction remains.
Fail(r) ==
    /\ pc[r] \in {"idle", "read", "written", "logged"}
    /\ pc' = [pc EXCEPT ![r] = "failed"]
    /\ req' = [req EXCEPT ![r] = NoReq]
    /\ UNCHANGED <<rows, events, nextEventId, jobs>>

\* syncPayloadForUser(owner, version - 1), after the commit.
JobOf(r) ==
    [operation |-> req[r].op, userId |-> req[r].row.user,
     sinceVersion |-> req[r].row.version - 1]

\* Mutation: the job is queued inside the transaction, before it commits.
EnqueueBeforeCommit(r) ==
    /\ pc[r] = "logged"
    /\ jobs' = Append(jobs, JobOf(r))
    /\ UNCHANGED <<rows, events, nextEventId, pc, req>>

\* _ = s.syncQ.EnqueueSyncJob(...) succeeds.
EnqueueSyncJob(r) ==
    /\ pc[r] = "committed"
    /\ jobs' = Append(jobs, JobOf(r))
    /\ pc' = [pc EXCEPT ![r] = "ok"]
    /\ UNCHANGED <<rows, events, nextEventId, req>>

\* No queue is configured or XADD failed: the error is ignored.
EnqueueSkipped(r) ==
    /\ pc[r] = "committed"
    /\ pc' = [pc EXCEPT ![r] = "ok"]
    /\ UNCHANGED <<rows, events, nextEventId, jobs, req>>

\* The API process dies: PostgreSQL rolls back what was open, requests that
\* had committed but not answered leave no job and no reply.
Crash ==
    /\ \E r \in Requests : pc[r] \notin {"idle", "ok", "failed", "refused"}
    /\ pc' = [r \in Requests |->
                IF pc[r] \in {"idle", "ok", "refused"} THEN pc[r] ELSE "failed"]
    /\ req' = [r \in Requests |-> IF pc[r] = "ok" THEN req[r] ELSE NoReq]
    /\ UNCHANGED <<rows, events, nextEventId, jobs>>

-----------------------------------------------------------------------------
\* A row inserted with the column defaults: version 1, deleted_at NULL.
ImportedRow == [user: Users, amount: Amounts, currency: Currencies,
                version: {1}, deleted: {"null"}]

Init ==
    /\ \E imported \in [Imported -> ImportedRow] :
          rows = [id \in Ids |-> IF id \in Imported THEN imported[id] ELSE NoRow]
    /\ events = {}
    /\ nextEventId = 1
    /\ jobs = <<>>
    /\ pc = [r \in Requests |-> "idle"]
    /\ req = [r \in Requests |-> NoReq]

\* A client sends a request, or does not.
Start(r) ==
    \/ \E id \in Ids, user \in Users, amount \in Amounts,
          currency \in Currencies \cup {Empty} :
            CreateTransaction(r, id, user, amount, currency)
    \/ AmountRefused(r, "idle")
    \/ \E id \in Ids : LoadExisting(r, id) \/ SoftDeleteTransaction(r, id)

\* A started request goes on.
Proceed(r) ==
    \/ \E amount \in Amounts, currency \in Currencies \cup {Empty} :
            UpdateTransaction(r, amount, currency)
    \/ UpdateConflict(r)
    \/ AmountRefused(r, "read")
    \/ InsertChangeEvent(r)
    \/ Commit(r)
    \/ EnqueueSyncJob(r)
    \/ EnqueueSkipped(r)

Interrupt(r) == Fail(r) \/ CommitUnacknowledged(r)

Next == Crash \/ \E r \in Requests : Start(r) \/ Proceed(r) \/ Interrupt(r)

Spec == Init /\ [][Next]_vars

\* The Go scheduler and PostgreSQL run a started request to its end.
Fairness == \A r \in Requests : WF_vars(Proceed(r))
-----------------------------------------------------------------------------
(* Properties. *)

TypeOK ==
    /\ rows \in [Ids -> Row \cup {NoRow}]
    /\ events \subseteq Event
    /\ nextEventId \in Nat \ {0}
    /\ jobs \in Seq(Job)
    /\ pc \in [Requests -> PcValues]
    /\ req \in [Requests -> Req]

\* The version of the first change event of a row: imported rows were
\* inserted without one.
FirstLogged(id) == IF id \in Imported THEN 2 ELSE 1

(* The outbox is complete and exact: the change events of a row are one for  *)
(* each version the API gave it and no other, and the newest one describes   *)
(* the row as it stands, whatever requests raced, failed or crashed          *)
(* (RunInTx, tx.go: the row and the event commit together or not at all).    *)
OutboxExact ==
    \A id \in Ids :
        /\ \A e \in events :
              e.entityId = id => e.version \in FirstLogged(id)..rows[id].version
        /\ \A v \in FirstLogged(id)..rows[id].version :
              \E e \in events :
                /\ e.entityId = id /\ e.version = v
                /\ \A f \in events : f.entityId = id /\ f.version = v => f = e
                /\ v = rows[id].version =>
                      /\ e.userId = rows[id].user
                      /\ e.amount = rows[id].amount
                      /\ e.currency = rows[id].currency
                      /\ (e.opType = "delete") <=> (rows[id].deleted = "set")

(* Change event ids are unique and, for one row, grow with its versions:     *)
(* a consumer that reads in id order (projection ListSince) never sees a     *)
(* row's changes out of order, although ids of different rows may become     *)
(* visible out of order. The row lock held from UPDATE to COMMIT gives it.   *)
EventOrder ==
    \A e, f \in events :
        /\ e.id = f.id => e = f
        /\ e.entityId = f.entityId /\ e.version < f.version => e.id < f.id

(* No lost update: while an update is uncommitted, the copy it was computed  *)
(* from, read before the transaction began, is still the committed row, so   *)
(* the commit overwrites nothing the request has not seen                    *)
(* (UpdateTransaction, WHERE version = $13).                                 *)
NoLostUpdate ==
    \A r \in Requests :
        pc[r] \in InTx /\ req[r].op = "update" => req[r].existing = rows[req[r].id]

(* A row once deleted is final: no later step changes it, although the       *)
(* UPDATE statement does not look at deleted_at and may start from a copy    *)
(* read before the deletion.                                                 *)
DeletedIsFinal ==
    [][\A id \in Ids : rows[id] # NoRow /\ rows[id].deleted = "set"
                           => rows'[id] = rows[id]]_vars

(* A success reply is durable: when a handler answers 200, 201 or 204, the   *)
(* event with the request's version is committed and the row has reached     *)
(* that version.                                                             *)
AckedIsDurable ==
    \A r \in Requests :
        pc[r] = "ok" => /\ EventOf(r) \in events
                        /\ rows[req[r].id].version >= req[r].row.version

(* A sync job is never ahead of the database: whoever handles it finds, in   *)
(* the owner's events above sinceVersion, the change that caused it.         *)
JobsAreCovered ==
    \A i \in DOMAIN jobs :
        \E e \in events : /\ e.userId = jobs[i].userId
                          /\ e.opType = jobs[i].operation
                          /\ e.version = jobs[i].sinceVersion + 1

(* "NumericFromFloat64 converts a float64 into pgtype.Numeric" (pgtypex.go)  *)
(* and "CreateTransaction ... require.NoError" (db_tx_outbox_test.go): no    *)
(* create or update is turned down because its amount does not convert.      *)
AmountsConvert == \A r \in Requests : pc[r] # "refused"

(* Every started request ends: transactions hold one row each, so waiting    *)
(* for row locks cannot become circular. A soft delete starts when it gets   *)
(* its row; how long it waits for it is not covered.                         *)
RequestsEnd ==
    \A r \in Requests : pc[r] # "idle" ~> pc[r] \in {"ok", "failed", "refused"}

(* The change log without the serial ids is the log of the abstract ledger:  *)
(* with every interleaving, failure and crash the API's writes look like     *)
(* single indivisible steps.                                                 *)
Log == {[entityId |-> e.entityId, opType |-> e.opType, userId |-> e.userId,
         version |-> e.version, amount |-> e.amount, currency |-> e.currency] :
        e \in events}

L == INSTANCE Ledger WITH log <- Log

LedgerSpec == L!Spec

-----------------------------------------------------------------------------
(* The inductive invariant. *)

\* What a request knows at each point, against the committed table.
RequestInv(r) ==
    LET q == req[r]
        row == rows[q.id]
    IN  /\ pc[r] \in {"idle", "failed", "refused"} <=> q = NoReq
        /\ pc[r] = "read" =>
              /\ q.op = "update"
              /\ Live(q.existing)
              /\ row # NoRow
              /\ row.user = q.existing.user
              /\ row.version >= q.existing.version
              /\ row.version = q.existing.version => row = q.existing
        /\ pc[r] \in InTx =>
              /\ q.row \in Row
              /\ q.row.version = row.version + 1
              /\ q.op = "create" => row = NoRow /\ q.row.deleted = "zero"
              /\ q.op # "create" => Live(row) /\ q.row.user = row.user
              /\ q.op = "update" => q.existing = row /\ q.row.deleted = "null"
              /\ q.op = "delete" =>
                    q.row = [row EXCEPT !.version = @ + 1, !.deleted = "set"]
        /\ pc[r] = "logged" =>
              /\ q.eventId \in 1..(nextEventId - 1)
              /\ \A e \in events : /\ e.id # q.eventId
                                   /\ e.entityId = q.id => e.id < q.eventId
        /\ pc[r] \in {"committed", "ok"} =>
              /\ q.row \in Row
              /\ EventOf(r) \in events
              /\ row.version >= q.row.version

\* Open transactions hold different rows and took different event ids.
Exclusion ==
    \A r, s \in Requests : r # s /\ pc[r] \in InTx /\ pc[s] \in InTx =>
        /\ req[r].id # req[s].id
        /\ pc[r] = "logged" /\ pc[s] = "logged" => req[r].eventId # req[s].eventId

ImportedStay == \A id \in Imported : rows[id] # NoRow

IdsTaken == \A e \in events : e.id < nextEventId

(* Every in-flight request's view agrees with the committed state: the       *)
(* copy it read, the row it holds, the event id it took; what the other      *)
(* properties follow from (RunInTx holds the row from UPDATE to COMMIT).     *)
Inv ==
    /\ \A r \in Requests : RequestInv(r)
    /\ Exclusion
    /\ ImportedStay
    /\ IdsTaken
    /\ OutboxExact
    /\ EventOrder
    /\ JobsAreCovered
=============================================================================
