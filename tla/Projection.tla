----------------------------- MODULE Projection -----------------------------
(***************************************************************************)
(* The read models of the worker service: runners that poll change_events  *)
(* past a stored cursor and let two processors add each event to the       *)
(* tables transaction_summary and monthly_balance.                         *)
(*                                                                         *)
(* The events come from the write path (module Transactions), which keeps  *)
(* running beside the runners. A processor's statement is an upsert that   *)
(* adds a delta and commits by itself: the state of a read model is how    *)
(* often each event was added to it, which is what applied holds. The      *)
(* cursor is written by another statement, after the whole batch.          *)
(***************************************************************************)
EXTENDS Transactions, Integers, FiniteSets

CONSTANTS
    Runners,     \* running projection.Runner instances
    Names,       \* projector names, the keys of projection_cursors
    Name,        \* the name each runner was given
    BatchSize,
    EventIds,    \* ids a change event may have
    Rejected,    \* amounts that stand for data monthly_balance cannot take
    MaxFailures  \* bound on failed statements and restarts of runners

ASSUME RunnerAssumption ==
    /\ Name \in [Runners -> Names]
    /\ BatchSize \in Nat \ {0}
    /\ EventIds \subseteq Nat \ {0}
    /\ Rejected \subseteq Amounts
    /\ MaxFailures \in Nat

VARIABLES
    cursor,      \* table projection_cursors
    applied,     \* how often each processor added each event
    runner,      \* the locals of each runner's loop
    late,        \* history: ids that became visible after a higher one
    failures     \* history: failed statements and restarts so far

runnerVars == <<cursor, applied, runner, failures>>
sysVars == <<vars, cursor, applied, runner, late, failures>>

\* In the order the worker service passes them to the Runner.
Summary == "transaction_summary"
Balance == "monthly_balance"
Processors == {Summary, Balance}

\* The top of the loop; todo: events of the batch not yet through all
\* processors; proc: the next processor for the first of them.
Polling == [stage |-> "poll", lastID |-> 0, todo |-> {}, proc |-> Summary, maxID |-> 0]

Runner == [stage: {"poll", "list", "process", "advance"}, lastID: Nat,
           todo: SUBSET Event, proc: Processors, maxID: Nat]

-----------------------------------------------------------------------------
(* The loop of Runner.Start. *)

GetCursor(w) ==
    /\ runner[w].stage = "poll"
    /\ runner' = [runner EXCEPT ![w] =
                    [Polling EXCEPT !.stage = "list", !.lastID = cursor[Name[w]]]]
    /\ UNCHANGED <<cursor, applied, failures>>

\* WHERE id > $1 ORDER BY id ASC LIMIT $2
EventsSince(since) ==
    {e \in events : e.id > since
        /\ Cardinality({f \in events : f.id > since /\ f.id <= e.id}) <= BatchSize}

\* An empty batch goes back to polling.
ListSince(w) ==
    LET batch == EventsSince(runner[w].lastID)
    IN  /\ runner[w].stage = "list"
        /\ runner' = [runner EXCEPT ![w] =
                        IF batch = {} THEN Polling
                        ELSE [@ EXCEPT !.stage = "process", !.todo = batch]]
        /\ UNCHANGED <<cursor, applied, failures>>

\* ORDER BY id: the loop takes the batch in this order.
IsFirst(e, batch) == e \in batch /\ \A f \in batch : e.id <= f.id

\* The upsert fails whenever it is tried: the sum of the account's month does
\* not fit NUMERIC(18,2), or the account is gone (REFERENCES accounts).
Rejects(p, e) == p = Balance /\ e.amount \in Rejected

\* Mutation: a deletion takes back the count of the event itself.
AddSigned(p, e) ==
    applied' = [applied EXCEPT ![p][e.id] = IF e.opType = "delete" THEN @ - 1 ELSE @ + 1]

\* The effect of add, with a delta that Process computes from the event alone
\* (a delete subtracts): INSERT ... ON CONFLICT DO UPDATE, committed at once.
Add(p, e) == applied' = [applied EXCEPT ![p][e.id] = @ + 1]

\* Mutation: the loop goes to the next event after the first processor.
AfterSuccessFirstOnly(l, e) ==
    [l EXCEPT !.todo = @ \ {e}, !.maxID = e.id,
              !.stage = IF l.todo = {e} THEN "advance" ELSE "process"]

\* Where the loop goes after processor l.proc succeeded on event e.
AfterSuccess(l, e) ==
    IF l.proc = Summary
    THEN [l EXCEPT !.proc = Balance]
    ELSE [l EXCEPT !.proc = Summary, !.todo = @ \ {e}, !.maxID = e.id,
                   !.stage = IF l.todo = {e} THEN "advance" ELSE "process"]

Process(w, e) ==
    /\ runner[w].stage = "process"
    /\ IsFirst(e, runner[w].todo)
    /\ ~Rejects(runner[w].proc, e)
    /\ Add(runner[w].proc, e)
    /\ runner' = [runner EXCEPT ![w] = AfterSuccess(@, e)]
    /\ UNCHANGED <<cursor, failures>>

\* Mutation: the cursor is stored as the next event to read.
SetOneBehind(w) ==
    /\ runner[w].stage = "advance"
    /\ cursor' = [cursor EXCEPT ![Name[w]] = runner[w].maxID - 1]
    /\ runner' = [runner EXCEPT ![w] = Polling]
    /\ UNCHANGED <<applied, failures>>

\* Cursor.Set(maxID): an unconditional upsert.
SetCursor(w) ==
    /\ runner[w].stage = "advance"
    /\ cursor' = [cursor EXCEPT ![Name[w]] = runner[w].maxID]
    /\ runner' = [runner EXCEPT ![w] = Polling]
    /\ UNCHANGED <<applied, failures>>

(* What goes wrong: the error is logged and the loop starts again, or the
   process dies and its successor does. *)

\* Mutation: a failed batch still advances the cursor.
GiveUpAdvancing(w) ==
    /\ failures < MaxFailures
    /\ failures' = failures + 1
    /\ runner[w].stage # "poll"
    /\ runner' = [runner EXCEPT ![w] = Polling]
    /\ cursor' = IF runner[w].stage = "process"
                 THEN [cursor EXCEPT ![Name[w]] =
                         CHOOSE i \in {e.id : e \in runner[w].todo} :
                            \A e \in runner[w].todo : e.id <= i]
                 ELSE cursor
    /\ UNCHANGED applied

\* Mutation: the cursor is stored after a failed batch too, as far as it got.
GiveUpStoring(w) ==
    /\ failures < MaxFailures
    /\ failures' = failures + 1
    /\ runner[w].stage # "poll"
    /\ runner' = [runner EXCEPT ![w] = Polling]
    /\ cursor' = IF runner[w].stage = "process"
                 THEN [cursor EXCEPT ![Name[w]] = runner[w].maxID] ELSE cursor
    /\ UNCHANGED applied

\* Get, ListSince, a processor (one that rejects the event included) or Set
\* fails without effect, or a restart.
GiveUp(w) ==
    /\ failures < MaxFailures
    /\ failures' = failures + 1
    /\ runner[w].stage # "poll"
    /\ runner' = [runner EXCEPT ![w] = Polling]
    /\ UNCHANGED <<cursor, applied>>

\* The upsert committed, but its answer was lost or the process died.
AddUnacknowledged(w, e) ==
    /\ failures < MaxFailures
    /\ failures' = failures + 1
    /\ runner[w].stage = "process"
    /\ IsFirst(e, runner[w].todo)
    /\ ~Rejects(runner[w].proc, e)
    /\ Add(runner[w].proc, e)
    /\ runner' = [runner EXCEPT ![w] = Polling]
    /\ UNCHANGED cursor

\* Set committed, but its answer was lost or the process died.
SetUnacknowledged(w) ==
    /\ failures < MaxFailures
    /\ failures' = failures + 1
    /\ runner[w].stage = "advance"
    /\ cursor' = [cursor EXCEPT ![Name[w]] = runner[w].maxID]
    /\ runner' = [runner EXCEPT ![w] = Polling]
    /\ UNCHANGED applied

-----------------------------------------------------------------------------
RunnerInit ==
    /\ cursor = [n \in Names |-> 0]
    /\ applied = [p \in Processors |-> [i \in EventIds |-> 0]]
    /\ runner = [w \in Runners |-> Polling]
    /\ late = {}
    /\ failures = 0

RunnerProgress(w) ==
    \/ GetCursor(w)
    \/ ListSince(w)
    \/ \E e \in runner[w].todo : Process(w, e)
    \/ SetCursor(w)

RunnerFailure(w) ==
    \/ GiveUp(w)
    \/ \E e \in runner[w].todo : AddUnacknowledged(w, e)
    \/ SetUnacknowledged(w)

\* A step of the write path; notes the events that appear behind others.
ApiStep ==
    /\ Next
    /\ late' = late \cup {e.id : e \in {d \in events' \ events :
                                          \E f \in events : f.id > d.id}}
    /\ UNCHANGED runnerVars

RunnerStep(w) ==
    /\ RunnerProgress(w) \/ RunnerFailure(w)
    /\ UNCHANGED <<vars, late>>

SysInit == Init /\ RunnerInit
SysNext == ApiStep \/ \E w \in Runners : RunnerStep(w)
SysSpec == SysInit /\ [][SysNext]_sysVars

\* A worker's loop never blocks for ever: a running worker goes on.
SysFairSpec ==
    /\ SysSpec
    /\ Fairness
    /\ \A w \in Runners : WF_sysVars(RunnerProgress(w) /\ UNCHANGED <<vars, late>>)

-----------------------------------------------------------------------------
(* Properties. *)

\* The bound on event ids is not reached.
IdsFit == \A e \in events : e.id \in EventIds

SysTypeOK ==
    /\ TypeOK
    /\ IdsFit
    /\ cursor \in [Names -> Nat]
    /\ applied \in [Processors -> [EventIds -> Nat]]
    /\ runner \in [Runners -> Runner]
    /\ late \subseteq EventIds
    /\ failures \in 0..MaxFailures

(* The cursor never passes an event that is not in both read models, except  *)
(* one that became visible behind a higher id (Runner: "advances the cursor  *)
(* only after a full batch succeeds"); in particular never an event that is  *)
(* always rejected.                                                          *)
PassedIsApplied ==
    \A e \in events, n \in Names, p \in Processors :
        e.id <= cursor[n] /\ e.id \notin late => applied[p][e.id] > 0

(* With one runner, every failed statement or restart lets an event be added *)
(* at most once more: duplicates are bounded by failures, and without        *)
(* failures each event is added at most once (Runner.Start re-reads the      *)
(* batch from the cursor).                                                   *)
DuplicatesBounded ==
    \A p \in Processors, i \in EventIds : applied[p][i] <= 1 + failures

(* An event shows in a read model only after every earlier event, except the *)
(* late ones, shows in both ("processes events in order"): nothing is added  *)
(* from behind an event that failed.                                         *)
AppliedInOrder ==
    \A e, f \in events, p, q \in Processors :
        e.id < f.id /\ e.id \notin late /\ applied[p][f.id] > 0
            => applied[q][e.id] > 0

(* With one runner, the cursor never goes back: no event is read again after *)
(* the cursor has passed it.                                                 *)
CursorAdvances == [][\A n \in Names : cursor'[n] >= cursor[n]]_sysVars

\* The runner fails on an event at or before i whenever it gets there.
Blocked(i) == \E e \in events : e.id <= i /\ e.amount \in Rejected

(* Every committed event that did not become visible behind a higher id ends *)
(* up in both read models, through failures and restarts of the runner,      *)
(* unless an event at or before it is rejected: the loop retries that one    *)
(* for ever and everything behind it waits.                                  *)
EventuallyProjected ==
    \A i \in EventIds :
        i \in {e.id : e \in events} \ late
            ~> Blocked(i) \/ \A p \in Processors : applied[p][i] > 0

(* "Idempotency is ensured by the runner processing each event once"         *)
(* (transaction_summary.go).                                                 *)
ProcessedOnce ==
    \A p \in Processors, i \in EventIds : applied[p][i] <= 1

(* "so each can resume from last processed event" (0004_projections.sql): no *)
(* committed event is behind the cursor without having been processed.       *)
NothingSkipped ==
    \A e \in events, n \in Names, p \in Processors :
        e.id <= cursor[n] => applied[p][e.id] > 0

-----------------------------------------------------------------------------
(* The inductive invariant. *)

\* In both read models, or late.
Done(e) == e.id \in late \/ \A p \in Processors : applied[p][e.id] > 0

\* Done up to i, which is the start or an event: what appears behind it is late.
DoneUpTo(i) ==
    /\ i = 0 \/ \E f \in events : f.id = i
    /\ \A e \in events : e.id <= i => Done(e)

OnlyEvents ==
    \A p \in Processors, i \in EventIds : applied[p][i] > 0 => \E e \in events : e.id = i

\* What a runner relies on at each point of its loop, whatever else runs.
LoopInv(w) ==
    LET l == runner[w]
    IN  /\ l.stage # "poll" => DoneUpTo(l.lastID)
        /\ l.stage = "list" => l = [Polling EXCEPT !.stage = "list", !.lastID = l.lastID]
        /\ l.stage = "process" =>
              /\ l.todo # {} /\ l.todo \subseteq events
              /\ \A e \in l.todo : e.id > l.lastID /\ e.id > l.maxID
              /\ \A e \in events \ l.todo, f \in l.todo : e.id < f.id => Done(e)
              /\ l.proc = Balance =>
                    \A e \in l.todo : IsFirst(e, l.todo) => applied[Summary][e.id] > 0
        /\ l.stage = "advance" => l.maxID > l.lastID /\ DoneUpTo(l.maxID)

\* Behind the cursor, or added since the runner last read it.
AddedSince(w, p, i) ==
    LET l == runner[w]
    IN  \/ i <= cursor[Name[w]]
        \/ l.stage \in {"process", "advance"} /\ i <= l.maxID
        \/ /\ l.stage = "process" /\ l.proc = Balance /\ p = Summary
           /\ \E e \in l.todo : IsFirst(e, l.todo) /\ e.id = i

OneRunner == \A v, w \in Runners : v = w

\* A runner on its own: the cursor it read is still the one stored, and an
\* event added more often than something failed will not be read again.
AloneInv ==
    /\ \A w \in Runners : runner[w].stage # "poll" => runner[w].lastID = cursor[Name[w]]
    /\ \A p \in Processors, i \in EventIds : applied[p][i] > failures =>
          applied[p][i] = 1 + failures /\ \E w \in Runners : AddedSince(w, p, i)

(* The inductive invariant of the proofs: a runner, however many there are,  *)
(* has only done events or late ones behind the point it got to, and the     *)
(* stored cursors are such points (Runner.Start: cursor, batch, processors,  *)
(* cursor again, with the API committing in between).                        *)
SysInv ==
    /\ Inv
    /\ IsFiniteSet(events)
    /\ \A n \in Names : DoneUpTo(cursor[n])
    /\ AppliedInOrder /\ OnlyEvents
    /\ \A w \in Runners : LoopInv(w)
    /\ OneRunner => AloneInv
=============================================================================
