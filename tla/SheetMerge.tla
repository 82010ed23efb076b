----------------------------- MODULE SheetMerge -----------------------------
(***************************************************************************)
(* SyncUserTransactions for one connection: the change events of the user  *)
(* above sinceVersion, as the database returns them, are merged with the   *)
(* rows of the sheet. For each row id the higher version wins, then the    *)
(* later time; the result is sorted by row id. The two loops of            *)
(* MergeSheetRows are steps, one per row.                                  *)
(*                                                                         *)
(* Row ids are numbers in the order sort.Strings gives them. A time is a   *)
(* number too, 0 for the zero time and for a cell that holds no time.      *)
(***************************************************************************)
EXTENDS Naturals, Sequences, SequencesExt

CONSTANTS
    EntityIDs,   \* ids of the user's transactions
    SheetRowIDs, \* row ids the sheets client gives to rows of the sheet
    MaxVersion,  \* bound on versions
    Times,       \* values of created_at
    Limit,       \* events one query returns (1000 in the code)
    MaxRemote    \* bound on the sheet's rows

\* A client may name rows by transaction ids, as the mock of the tests does, or
\* by ids of its own: GoogleSheetsClient uses row numbers, which meet no UUID.
RowIDs == EntityIDs \cup SheetRowIDs

\* created_at is later than any version read as seconds since 1970.
ASSUME MergeAssumption ==
    /\ RowIDs \subseteq Nat
    /\ MaxVersion \in Nat
    /\ \A t \in Times : t \in Nat /\ t > MaxVersion
    /\ Limit \in Nat \ {0}

VARIABLES
    events,      \* the user's rows of change_events
    stage,       \* where SyncUserTransactions is
    local,       \* localChanges
    remote,      \* changes.Remote, as far as it is built
    done,        \* rows the current loop of MergeSheetRows has been through
    byID,        \* its map
    merged       \* its result

vars == <<events, stage, local, remote, done, byID, merged>>

\* RowID and what extractVersion and the time cells yield; version 0 and
\* createdAt 0: missing or not readable. The rest of Payload is told apart by
\* the side it comes from.
SheetRowChange ==
    [rowID: RowIDs, version: 0..MaxVersion, createdAt: Times \cup {0},
     payload: {"event", "sheet"}]

LocalRow ==
    {r \in SheetRowChange : /\ r.payload = "event" /\ r.rowID \in EntityIDs
                            /\ r.version # 0 /\ r.createdAt # 0}

RemoteRow == {r \in SheetRowChange : r.payload = "sheet" /\ r.rowID \in SheetRowIDs}

-----------------------------------------------------------------------------
(* The API beside the job. *)

\* The row with this id has version v: 0 before it is created, 1 without an
\* event if it was inserted past the API.
HasVersion(id, v) ==
    /\ v \in {0, 1} \/ \E e \in events : e.rowID = id /\ e.version = v
    /\ \A e \in events : e.rowID = id => e.version <= v

Event(id, v, t) == [rowID |-> id, version |-> v, createdAt |-> t, payload |-> "event"]

\* Mutation: the event carries the version the row had before the change.
LogEventOldVersion(id, v, t) ==
    /\ HasVersion(id, v)
    /\ v < MaxVersion
    /\ events' = events \cup {Event(id, v, t)}
    /\ UNCHANGED <<stage, local, remote, done, byID, merged>>

\* A change of a row of version v is logged with the next version (see
\* module Transactions).
LogEvent(id, v, t) ==
    /\ HasVersion(id, v)
    /\ v < MaxVersion
    /\ events' = events \cup {Event(id, v + 1, t)}
    /\ UNCHANGED <<stage, local, remote, done, byID, merged>>

-----------------------------------------------------------------------------
(* Reading both sides. *)

\* Mutation: the query has no ORDER BY.
AnyOrder(s) == TRUE

\* ORDER BY version ASC: events of the same version come in any order.
ByVersion(s) == \A i, j \in DOMAIN s : i < j => s[i].version <= s[j].version

Since(v) == {e \in events : e.version > v}

Page(s) == IF Len(s) <= Limit THEN s ELSE SubSeq(s, 1, Limit)

\* What ListTransactionEventsSince may return.
LocalChanges(v) == {Page(s) : s \in {q \in SetToSeqs(Since(v)) : ByVersion(q)}}

ListEvents(v) ==
    /\ stage = "idle"
    /\ stage' = "fetch"
    /\ local' \in LocalChanges(v)
    /\ UNCHANGED <<events, remote, done, byID, merged>>

\* FetchChanges: one more row; the ids of the rows differ.
FetchRow(r) ==
    /\ stage = "fetch"
    /\ Len(remote) < MaxRemote
    /\ \A i \in DOMAIN remote : remote[i].rowID # r.rowID
    /\ remote' = Append(remote, r)
    /\ UNCHANGED <<events, stage, local, done, byID, merged>>

-----------------------------------------------------------------------------
(* MergeSheetRows. *)

NoRows == [id \in {} |-> id]

Call ==
    /\ stage = "fetch"
    /\ stage' = "local"
    /\ UNCHANGED <<events, local, remote, done, byID, merged>>

\* A readable time, or else the version as seconds since 1970.
ExtractCreatedAt(r) == IF r.createdAt # 0 THEN r.createdAt ELSE r.version

\* Mutation: on a full tie the sheet's row replaces the local one.
NotOlder(r, cur) ==
    \/ r.version > cur.version
    \/ r.version = cur.version /\ ExtractCreatedAt(r) >= ExtractCreatedAt(cur)

\* When a row of the sheet replaces what is there.
Newer(r, cur) ==
    \/ r.version > cur.version
    \/ r.version = cur.version /\ ExtractCreatedAt(r) > ExtractCreatedAt(cur)

\* Mutation: the first row of an id stays.
PutFirst(map, r) ==
    [id \in DOMAIN map \cup {r.rowID} |-> IF id \in DOMAIN map THEN map[id] ELSE r]

\* byID[r.RowID] = r
Put(map, r) ==
    [id \in DOMAIN map \cup {r.rowID} |-> IF id = r.rowID THEN r ELSE map[id]]

PutNewer(map, r) ==
    IF r.rowID \in DOMAIN map /\ ~Newer(r, map[r.rowID]) THEN map ELSE Put(map, r)

PutLocal ==
    /\ stage = "local"
    /\ done < Len(local)
    /\ done' = done + 1
    /\ byID' = Put(byID, local[done + 1])
    /\ UNCHANGED <<events, stage, local, remote, merged>>

LocalDone ==
    /\ stage = "local"
    /\ done = Len(local)
    /\ stage' = "remote"
    /\ done' = 0
    /\ UNCHANGED <<events, local, remote, byID, merged>>

PutRemote ==
    /\ stage = "remote"
    /\ done < Len(remote)
    /\ done' = done + 1
    /\ byID' = PutNewer(byID, remote[done + 1])
    /\ UNCHANGED <<events, stage, local, remote, merged>>

\* sort.Strings
Ascending(ids) == \A i, j \in DOMAIN ids : i < j => ids[i] < ids[j]

Sort ==
    /\ stage = "remote"
    /\ done = Len(remote)
    /\ stage' = "merged"
    /\ \E ids \in SetToSeqs(DOMAIN byID) :
          Ascending(ids) /\ merged' = [i \in DOMAIN ids |-> byID[ids[i]]]
    /\ UNCHANGED <<events, local, remote, done, byID>>

-----------------------------------------------------------------------------
\* FetchChanges fails, or ApplyChanges has answered or failed: a later job
\* starts again. A crash leaves nothing behind either.
Return ==
    /\ stage \in {"fetch", "merged"}
    /\ stage' = "idle"
    /\ local' = <<>> /\ remote' = <<>>
    /\ done' = 0 /\ byID' = NoRows /\ merged' = <<>>
    /\ UNCHANGED events

Init ==
    /\ events = {}
    /\ stage = "idle"
    /\ local = <<>> /\ remote = <<>>
    /\ done = 0 /\ byID = NoRows /\ merged = <<>>

Next ==
    \/ \E id \in EntityIDs, v \in 0..MaxVersion, t \in Times : LogEvent(id, v, t)
    \/ \E v \in 0..MaxVersion : ListEvents(v)
    \/ \E r \in RemoteRow : FetchRow(r)
    \/ Call \/ PutLocal \/ LocalDone \/ PutRemote \/ Sort
    \/ Return

Spec == Init /\ [][Next]_vars

-----------------------------------------------------------------------------
(* Properties. *)

TypeOK ==
    /\ events \subseteq LocalRow
    /\ stage \in {"idle", "fetch", "local", "remote", "merged"}
    /\ local \in Seq(LocalRow)
    /\ remote \in Seq(RemoteRow)
    /\ done \in Nat
    /\ \E ids \in SUBSET RowIDs : byID \in [ids -> LocalRow \cup RemoteRow]
    /\ merged \in Seq(LocalRow \cup RemoteRow)

RowsOf(s) == {s[i] : i \in DOMAIN s}

\* The reference: r is what the merge must keep of the rows with its id,
\* given the local events that were read and the rows of the sheet. A row
\* without a readable time (0) is older than any that has one.
Winner(r, mine, theirs) ==
    LET Same(rows) == {o \in rows : o.rowID = r.rowID}
    IN  /\ r \in mine \cup theirs
        /\ \A o \in Same(mine \cup theirs) :
              /\ o.version <= r.version
              /\ o.version = r.version => o.createdAt <= r.createdAt
        /\ r \notin mine =>
              \A o \in Same(mine) : o.version = r.version => o.createdAt # r.createdAt

(* The merged list holds every row id of both sides once, in order, and for  *)
(* each the change with the highest version, then the latest time, the local *)
(* one on a full tie, of the events and rows that were read; whatever order  *)
(* the database returns events of equal version in. The version that stands  *)
(* in for an unreadable time never beats a time (MergeSheetRows).            *)
MergeKeepsNewest ==
    stage = "merged" =>
        /\ \A i, j \in DOMAIN merged : i < j => merged[i].rowID < merged[j].rowID
        /\ {r.rowID : r \in RowsOf(merged)}
              = {r.rowID : r \in RowsOf(local) \cup RowsOf(remote)}
        /\ \A r \in RowsOf(merged) : Winner(r, RowsOf(local), RowsOf(remote))

(* "Idempotent: same inputs produce same output" (MergeSheetRows): the rows  *)
(* of the result are a function of which events and rows were read, not of   *)
(* the order in which the database returned events of equal version. Which   *)
(* events are read is another matter, see SameEventSet.                      *)
MergeIsStable ==
    stage = "merged" =>
        RowsOf(merged) = {r \in RowsOf(local) \cup RowsOf(remote) :
                             Winner(r, RowsOf(local), RowsOf(remote))}

(* "idempotent: same sinceVersion => same event set" (SyncUserTransactions): *)
(* whichever way the query runs on the log as it stands, a job reads the     *)
(* same events, so that running it again changes nothing.                    *)
SameEventSet ==
    \A v \in 0..MaxVersion : \A p, q \in LocalChanges(v) : RowsOf(p) = RowsOf(q)

-----------------------------------------------------------------------------
(* The inductive invariant. *)

OneChangePerVersion(rows) ==
    \A e, f \in rows : e.rowID = f.rowID /\ e.version = f.version => e = f

Seen(s) == {s[i] : i \in 1..done}

\* The map is the merge of two sets of rows.
IsMerge(map, mine, theirs) ==
    /\ DOMAIN map = {r.rowID : r \in mine \cup theirs}
    /\ \A id \in DOMAIN map : map[id].rowID = id /\ Winner(map[id], mine, theirs)

ResultIsSorted ==
    \E ids \in SetToSeqs(DOMAIN byID) :
        Ascending(ids) /\ merged = [i \in DOMAIN ids |-> byID[ids[i]]]

(* The inductive invariant of the proofs: at each point of its two loops     *)
(* MergeSheetRows holds the winners of the rows it has been through, which   *)
(* for the first loop rests on ORDER BY version and on the log having one    *)
(* event for each version of a row.                                          *)
Inv ==
    /\ IsFiniteSet(events) /\ OneChangePerVersion(events)
    /\ ByVersion(local) /\ OneChangePerVersion(RowsOf(local))
    /\ \A i, j \in DOMAIN remote : remote[i].rowID = remote[j].rowID => i = j
    /\ IsFiniteSet(DOMAIN byID)
    /\ stage \in {"idle", "fetch"} => done = 0 /\ byID = NoRows
    /\ stage = "idle" => remote = <<>>
    /\ stage = "local" => done <= Len(local) /\ IsMerge(byID, Seen(local), {})
    /\ stage = "remote" => done <= Len(remote) /\ IsMerge(byID, RowsOf(local), Seen(remote))
    /\ stage = "merged" => IsMerge(byID, RowsOf(local), RowsOf(remote)) /\ ResultIsSorted
=============================================================================
