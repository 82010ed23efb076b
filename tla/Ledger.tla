------------------------------- MODULE Ledger -------------------------------
(***************************************************************************)
(* What the transactions API promises, without requests, database          *)
(* transactions or locks: a table of financial transactions and a log of   *)
(* their changes, written together in one indivisible step.                *)
(*                                                                         *)
(* Every mutation bumps the row's version by one and logs the new version  *)
(* in the same step ("all mutations must write an immutable entry to       *)
(* change_events within the same DB transaction"); a row that is no longer *)
(* live never changes again; an update keeps the owner. deleted is "null", *)
(* "set" (deleted by a user) or "zero" (the zero time 0001-01-01).         *)
(***************************************************************************)
EXTENDS Naturals

CONSTANTS
    Ids,         \* identifiers of rows of the table transactions
    Users,       \* owners of rows
    Amounts,     \* contents an update always overwrites
    Currencies   \* contents an update overwrites only when it gives a value

VARIABLES
    rows,        \* the committed table
    log          \* the committed change log

vars == <<rows, log>>

NoRow == [version |-> 0]

\* A row the queries with "deleted_at IS NULL" return.
Live(row) == row # NoRow /\ row.deleted = "null"

\* One change log entry: what the change did, and the contents it left.
Entry(id, op, row) ==
    [entityId |-> id, opType |-> op, userId |-> row.user,
     version |-> row.version, amount |-> row.amount, currency |-> row.currency]

Record(id, op, row) ==
    /\ rows' = [rows EXCEPT ![id] = row]
    /\ log' = log \cup {Entry(id, op, row)}

\* A new row starts at version 1; nobody has deleted it.
Insert(id, user, amount, currency, deleted) ==
    /\ rows[id] = NoRow
    /\ Record(id, "create",
              [user |-> user, amount |-> amount, currency |-> currency,
               version |-> 1, deleted |-> deleted])

Amend(id, amount, currency) ==
    /\ Live(rows[id])
    /\ Record(id, "update",
              [rows[id] EXCEPT !.amount = amount, !.currency = currency,
                               !.version = @ + 1])

Remove(id) ==
    /\ Live(rows[id])
    /\ Record(id, "delete",
              [rows[id] EXCEPT !.version = @ + 1, !.deleted = "set"])

\* Rows that are there from the start have version 1 and nothing in the log.
FirstRow == [user: Users, amount: Amounts, currency: Currencies,
             version: {1}, deleted: {"null"}]

Init ==
    /\ rows \in [Ids -> FirstRow \cup {NoRow}]
    /\ log = {}

Next ==
    \E id \in Ids :
        \/ \E user \in Users, amount \in Amounts, currency \in Currencies,
              deleted \in {"null", "zero"} :
                Insert(id, user, amount, currency, deleted)
        \/ \E amount \in Amounts, currency \in Currencies :
                Amend(id, amount, currency)
        \/ Remove(id)

Spec == Init /\ [][Next]_vars
=============================================================================
