------------------------------ MODULE Listing ------------------------------
(***************************************************************************)
(* The list request of the transactions API: one statement for the page    *)
(* and another for the total, each with its own snapshot of the table,     *)
(* while other requests delete rows. A row is reduced to what the total    *)
(* depends on: whose it is and whether deleted_at is NULL. The page itself *)
(* is left out; module Transactions has what the writers do.               *)
(***************************************************************************)
EXTENDS Naturals, FiniteSets

CONSTANTS
    Ids,    \* row identifiers
    Users,
    NoRow   \* no row, or one that is deleted

VARIABLES
    rows,     \* the user of each row with deleted_at NULL, as committed
    stage,    \* "idle", "listed", "answered" or "failed"
    user,     \* the user of the request
    total,    \* the total of the answer
    matching  \* history: the rows that matched when the total was read

vars == <<rows, stage, user, total, matching>>

\* WHERE user_id = $1 AND deleted_at IS NULL; no handler sets another filter.
Matching(u) == {id \in Ids : rows[id] = u}

\* The length of the first page of ListTransactionsByFilter.
PageLength(u, limit) ==
    LET found == Cardinality(Matching(u))
    IN  IF found < limit THEN found ELSE limit

-----------------------------------------------------------------------------
(* ListUserTransactionsWithCount. *)

ListByUser(u) ==
    /\ stage = "idle"
    /\ stage' = "listed"
    /\ user' = u
    /\ UNCHANGED <<rows, total, matching>>

\* A failed statement or a cancelled context: answered with 500.
ListFails ==
    /\ stage \in {"idle", "listed"}
    /\ stage' = "failed"
    /\ UNCHANGED <<rows, user, total, matching>>

\* The length of a page of one.
CountByUser ==
    /\ stage = "listed"
    /\ stage' = "answered"
    /\ total' = PageLength(user, 1)
    /\ matching' = Matching(user)
    /\ UNCHANGED <<rows, user>>

\* The commit of another request.
SoftDeleted(id) ==
    /\ rows[id] # NoRow
    /\ rows' = [rows EXCEPT ![id] = NoRow]
    /\ UNCHANGED <<stage, user, total, matching>>

-----------------------------------------------------------------------------
Init ==
    /\ rows \in [Ids -> Users \cup {NoRow}]
    /\ stage = "idle"
    /\ user = NoRow
    /\ total = 0
    /\ matching = {}

Next ==
    \/ \E u \in Users : ListByUser(u)
    \/ ListFails
    \/ CountByUser
    \/ \E id \in Ids : SoftDeleted(id)

Spec == Init /\ [][Next]_vars

(* "Total int64 // total matching records" (PaginationResult): the answer's  *)
(* total is the number of the user's rows when it was read.                  *)
TotalIsCount == stage = "answered" => total = Cardinality(matching)
=============================================================================
