-------------------------- MODULE SheetMergeProofs --------------------------
(***************************************************************************)
(* Proofs about module SheetMerge, for any row ids, times, LIMIT and       *)
(* lengths of the two lists: the loops of MergeSheetRows keep the winners  *)
(* of what they have been through.                                         *)
(***************************************************************************)
EXTENDS SheetMerge, FiniteSetTheorems, FunctionTheorems, SequenceTheorems, TLAPS

(* What extractVersion and extractCreatedAt give can be compared. *)
LEMMA RowType ==
  ASSUME NEW r \in SheetRowChange
  PROVE  r.rowID \in RowIDs /\ r.version \in Nat /\ r.createdAt \in Nat
  BY MergeAssumption DEF SheetRowChange

(* Among rows of one version extractCreatedAt orders by the time, a row      *)
(* without one before all others: the version it falls back on is no later   *)
(* than any time.                                                            *)
LEMMA TimesAgree ==
  ASSUME NEW o \in SheetRowChange, NEW r \in SheetRowChange, o.version = r.version
  PROVE  ExtractCreatedAt(o) > ExtractCreatedAt(r) <=> o.createdAt > r.createdAt
  <1>1. /\ o.version \in Nat /\ MaxVersion \in Nat /\ o.version <= MaxVersion
        /\ o.createdAt \in Nat /\ (o.createdAt = 0 \/ o.createdAt > MaxVersion)
        /\ r.createdAt \in Nat /\ (r.createdAt = 0 \/ r.createdAt > MaxVersion)
    BY MergeAssumption DEF SheetRowChange
  <1> QED
    BY <1>1 DEF ExtractCreatedAt

(* What it takes to replace a row, in terms of versions and times. *)
LEMMA NewerMeans ==
  ASSUME NEW r \in SheetRowChange, NEW c \in SheetRowChange
  PROVE  Newer(r, c) <=> \/ r.version > c.version
                         \/ r.version = c.version /\ r.createdAt > c.createdAt
  BY TimesAgree DEF Newer

(* Both sides of the merge have that type. *)
LEMMA SidesType == LocalRow \subseteq SheetRowChange /\ RemoteRow \subseteq SheetRowChange
  BY DEF LocalRow, RemoteRow

(* An arrangement of a finite set is a sequence that has every element once. *)
LEMMA ArrangementType ==
  ASSUME NEW S, IsFiniteSet(S), NEW s \in SetToSeqs(S)
  PROVE  /\ s \in Seq(S) /\ Len(s) = Cardinality(S) /\ DOMAIN s = 1..Len(s)
         /\ \A i, j \in 1..Len(s) : s[i] = s[j] => i = j
         /\ RowsOf(s) = S
  <1> DEFINE n == Cardinality(S)
  <1>1. n \in Nat
    BY FS_CardinalityType
  <1>2. s \in [1..n -> S] /\ \A i, j \in 1..n : i # j => s[i] # s[j]
    BY DEF SetToSeqs
  <1>3. s \in Seq(S) /\ Len(s) = n /\ DOMAIN s = 1..n
    BY <1>1, <1>2
  <1>4. s \in Injection(1..n, S)
    BY <1>2, Fun_IsInj
  <1>5. Cardinality(1..n) = n
    BY <1>1, FS_Interval
  <1> HIDE DEF n
  <1>6. s \in Surjection(1..n, S)
    <2>1. Cardinality(1..n) = Cardinality(S) <=> s \in Surjection(1..n, S)
      BY <1>4, FS_Injection
    <2> QED
      BY <1>5, <2>1 DEF n
  <1>7. \A t \in S : \E i \in 1..n : s[i] = t
    BY <1>6 DEF Surjection
  <1> QED
    BY <1>2, <1>3, <1>7 DEF RowsOf, n

(* What the query returns: events of the set, sorted, and all of them unless *)
(* the LIMIT cuts.                                                           *)
LEMMA PageType ==
  ASSUME NEW S, IsFiniteSet(S), NEW s \in SetToSeqs(S), ByVersion(s)
  PROVE  /\ Page(s) \in Seq(S) /\ ByVersion(Page(s)) /\ RowsOf(Page(s)) \subseteq S
         /\ Cardinality(S) <= Limit => RowsOf(Page(s)) = S
  <1>1. /\ s \in Seq(S) /\ Len(s) = Cardinality(S) /\ DOMAIN s = 1..Len(s) /\ RowsOf(s) = S
    BY ArrangementType
  <1>2. CASE Len(s) <= Limit
    BY <1>1, <1>2 DEF Page
  <1>3. CASE ~(Len(s) <= Limit)
    <2> DEFINE p == SubSeq(s, 1, Limit)
    <2>1. Limit \in Nat /\ Len(s) \in Nat /\ Limit < Len(s)
      BY <1>1, <1>3, MergeAssumption
    <2>2. p \in Seq(S) /\ Len(p) = Limit /\ DOMAIN p = 1..Limit
          /\ \A i \in 1..Limit : p[i] = s[i]
      <3>1. \A i \in 1..Limit : s[i] \in S
        BY <1>1, <2>1
      <3>2. /\ p \in Seq(S) /\ Len(p) = IF 1 <= Limit THEN Limit - 1 + 1 ELSE 0
            /\ \A i \in 1..(Limit - 1 + 1) : p[i] = s[1 + i - 1]
        BY <2>1, <3>1, SubSeqProperties
      <3> HIDE DEF p
      <3> QED
        BY <2>1, <3>2
    <2>3. Page(s) = p
      BY <1>3 DEF Page
    <2> HIDE DEF p
    <2>4. \A i \in 1..Limit : i \in DOMAIN s
      BY <1>1, <2>1
    <2>5. ByVersion(p)
      BY <2>2, <2>4 DEF ByVersion
    <2>6. RowsOf(p) \subseteq S
      BY <2>2 DEF RowsOf
    <2> QED
      BY <1>1, <1>3, <2>3, <2>2, <2>5, <2>6
  <1> QED
    BY <1>2, <1>3

-----------------------------------------------------------------------------
(* A row of another id changes no winner. *)
LEMMA OtherRow ==
  ASSUME NEW mine, NEW theirs, NEW c, NEW r, c.rowID # r.rowID, Winner(c, mine, theirs)
  PROVE  Winner(c, mine \cup {r}, theirs) /\ Winner(c, mine, theirs \cup {r})
  BY DEF Winner

(* An event that comes after all events of its id that were read wins. *)
LEMMA LaterEventWins ==
  ASSUME NEW mine, NEW r \in SheetRowChange,
         \A o \in mine : o.rowID = r.rowID =>
            o.version <= r.version /\ (o.version = r.version => o = r)
  PROVE  Winner(r, mine \cup {r}, {})
  <1>1. r.version <= r.version /\ r.createdAt <= r.createdAt
    BY RowType
  <1> QED
    BY <1>1 DEF Winner

(* A row of the sheet whose id is new wins. *)
LEMMA NewRowWins ==
  ASSUME NEW mine, NEW theirs, NEW r \in SheetRowChange,
         \A o \in mine \cup theirs : o.rowID # r.rowID
  PROVE  Winner(r, mine, theirs \cup {r})
  <1>1. r.version <= r.version /\ r.createdAt <= r.createdAt
    BY RowType
  <1> QED
    BY <1>1 DEF Winner

(* A newer row of the sheet wins over the winner so far. *)
LEMMA NewerRowWins ==
  ASSUME NEW mine \in SUBSET SheetRowChange, NEW theirs \in SUBSET SheetRowChange,
         NEW r \in SheetRowChange, NEW c \in SheetRowChange, c.rowID = r.rowID,
         Winner(c, mine, theirs), Newer(r, c)
  PROVE  Winner(r, mine, theirs \cup {r})
  <1>1. ASSUME NEW o \in mine \cup theirs, o.rowID = r.rowID
        PROVE  /\ o.version <= r.version
               /\ o.version = r.version => o.createdAt < r.createdAt
    <2>1. /\ o.version \in Nat /\ c.version \in Nat /\ r.version \in Nat
          /\ o.createdAt \in Nat /\ c.createdAt \in Nat
          /\ r.createdAt \in Nat
      BY RowType
    <2>2. /\ o.version <= c.version
          /\ o.version = c.version => o.createdAt <= c.createdAt
      BY <1>1 DEF Winner
    <2>3. \/ r.version > c.version
          \/ r.version = c.version /\ r.createdAt > c.createdAt
      BY NewerMeans
    <2> QED
      BY <2>1, <2>2, <2>3
  <1>2. /\ r.version <= r.version /\ r.createdAt <= r.createdAt
        /\ \A o \in mine \cup theirs : o.createdAt \in Nat
        /\ r.createdAt \in Nat
    BY RowType
  <1>3. \A o \in mine \cup theirs :
           (o.rowID = r.rowID /\ o.version = r.version) =>
              /\ o.createdAt <= r.createdAt
              /\ o.createdAt # r.createdAt
    BY <1>1, <1>2
  <1> QED
    BY <1>1, <1>2, <1>3 DEF Winner

(* A row that is not newer changes no winner. *)
LEMMA OlderRowLoses ==
  ASSUME NEW mine, NEW theirs, NEW r \in SheetRowChange, NEW c \in SheetRowChange,
         c.rowID = r.rowID, Winner(c, mine, theirs), ~Newer(r, c)
  PROVE  Winner(c, mine, theirs \cup {r})
  <1>1. /\ r.version <= c.version
        /\ r.version = c.version => r.createdAt <= c.createdAt
    <2>1. /\ c.version \in Nat /\ r.version \in Nat
          /\ c.createdAt \in Nat /\ r.createdAt \in Nat
      BY RowType
    <2>2. ~(r.version > c.version \/ (r.version = c.version /\ r.createdAt > c.createdAt))
      BY NewerMeans
    <2> QED
      BY <2>1, <2>2
  <1> QED
    BY <1>1 DEF Winner

(* Nothing but the winner of an id wins: the log has one event for a version *)
(* of a row and the sheet one row for an id.                                 *)
LEMMA OneWinner ==
  ASSUME NEW mine \in SUBSET SheetRowChange, NEW theirs \in SUBSET SheetRowChange,
         OneChangePerVersion(mine),
         \A e, f \in theirs : e.rowID = f.rowID => e = f,
         NEW r, NEW c, r.rowID = c.rowID,
         Winner(r, mine, theirs), Winner(c, mine, theirs)
  PROVE  r = c
  <1>1. r \in mine \cup theirs /\ c \in mine \cup theirs
    BY DEF Winner
  <1>2. /\ r.version \in Nat /\ c.version \in Nat
        /\ c.createdAt \in Nat /\ r.createdAt \in Nat
    BY <1>1, RowType
  <1>3. r.version = c.version
    <2>1. r.version <= c.version /\ c.version <= r.version
      BY <1>1 DEF Winner
    <2> QED
      BY <1>2, <2>1
  <1>4. r.createdAt = c.createdAt
    <2>1. r.createdAt <= c.createdAt /\ c.createdAt <= r.createdAt
      BY <1>1, <1>3 DEF Winner
    <2> QED
      BY <1>2, <2>1
  <1>5. r \in mine <=> c \in mine
    BY <1>1, <1>3, <1>4 DEF Winner
  <1> QED
    BY <1>1, <1>3, <1>5 DEF OneChangePerVersion

-----------------------------------------------------------------------------
(* The invariant holds at first: no event, no job. *)
LEMMA InitInv == Init => TypeOK /\ Inv
  <1> SUFFICES ASSUME Init PROVE TypeOK /\ Inv
    OBVIOUS
  <1>1. /\ events = {} /\ stage = "idle" /\ local = <<>> /\ remote = <<>> /\ done = 0
        /\ byID = NoRows /\ merged = <<>>
    BY DEF Init
  <1>2. DOMAIN byID = {} /\ byID \in [{} -> LocalRow \cup RemoteRow]
    BY <1>1 DEF NoRows
  <1>3. TypeOK
    BY <1>1, <1>2 DEF TypeOK
  <1>4. IsFiniteSet({})
    BY FS_EmptySet
  <1> QED
    BY <1>1, <1>2, <1>3, <1>4 DEF Inv, OneChangePerVersion, ByVersion, RowsOf

(* The rows of a sequence are of the type of its elements. *)
LEMMA RowsType ==
  ASSUME NEW S, NEW s \in Seq(S)
  PROVE  /\ RowsOf(s) \subseteq S /\ Len(s) \in Nat /\ DOMAIN s = 1..Len(s)
         /\ \A i \in 1..Len(s) : s[i] \in S /\ s[i] \in RowsOf(s)
  BY DEF RowsOf

(* The API logs a change: the versions of a row stay unique, and the job     *)
(* works on what it has read.                                                *)
LEMMA LogEventStep ==
  ASSUME TypeOK, Inv, NEW id \in EntityIDs, NEW v \in 0..MaxVersion, NEW t \in Times,
         LogEvent(id, v, t)
  PROVE  TypeOK' /\ Inv'
  <1> DEFINE new == Event(id, v + 1, t)
  <1>1. /\ HasVersion(id, v) /\ v < MaxVersion /\ events' = events \cup {new}
        /\ UNCHANGED <<stage, local, remote, done, byID, merged>>
    BY DEF LogEvent
  <1>2. v \in Nat /\ v + 1 \in 0..MaxVersion /\ v + 1 # 0 /\ t # 0
    BY <1>1, MergeAssumption
  <1>3. new \in LocalRow /\ new.rowID = id /\ new.version = v + 1
    BY <1>2 DEF Event, LocalRow, SheetRowChange, RowIDs
  <1> HIDE DEF new
  <1>4. \A e \in events : e.rowID = id => e.version # new.version
    <2> SUFFICES ASSUME NEW e \in events, e.rowID = id PROVE e.version # new.version
      OBVIOUS
    <2>1. e.version \in Nat
      BY RowType, SidesType DEF TypeOK
    <2>2. e.version <= v
      BY <1>1 DEF HasVersion
    <2> QED
      BY <2>1, <2>2, <1>2, <1>3
  <1>5. OneChangePerVersion(events')
    BY <1>1, <1>3, <1>4 DEF Inv, OneChangePerVersion
  <1>6. IsFiniteSet(events')
    BY <1>1, FS_AddElement DEF Inv
  <1>7. TypeOK'
    BY <1>1, <1>3 DEF TypeOK
  <1>8. /\ ByVersion(local)' /\ OneChangePerVersion(RowsOf(local))'
        /\ (\A i, j \in DOMAIN remote : remote[i].rowID = remote[j].rowID => i = j)'
        /\ IsFiniteSet(DOMAIN byID)'
    BY <1>1 DEF Inv, ByVersion, OneChangePerVersion, RowsOf
  <1>9. /\ Seen(local)' = Seen(local) /\ Seen(remote)' = Seen(remote)
        /\ RowsOf(local)' = RowsOf(local) /\ RowsOf(remote)' = RowsOf(remote)
    BY <1>1 DEF Seen, RowsOf
  <1>10. stage = "merged" => ResultIsSorted'
    BY <1>1 DEF Inv, ResultIsSorted
  <1> QED
    BY <1>1, <1>5, <1>6, <1>7, <1>8, <1>9, <1>10 DEF Inv

(* The query returns some events of the log, sorted by version. *)
LEMMA ListEventsStep ==
  ASSUME TypeOK, Inv, NEW v \in 0..MaxVersion, ListEvents(v)
  PROVE  TypeOK' /\ Inv'
  <1>1. /\ stage = "idle" /\ stage' = "fetch" /\ local' \in LocalChanges(v)
        /\ UNCHANGED <<events, remote, done, byID, merged>>
    BY DEF ListEvents
  <1>2. PICK s \in SetToSeqs(Since(v)) : ByVersion(s) /\ local' = Page(s)
    BY <1>1 DEF LocalChanges
  <1>3. Since(v) \subseteq events /\ IsFiniteSet(Since(v))
    <2>1. Since(v) \subseteq events
      BY DEF Since
    <2> QED
      BY <2>1, FS_Subset DEF Inv
  <1>4. /\ local' \in Seq(Since(v)) /\ ByVersion(local') /\ RowsOf(local') \subseteq Since(v)
    BY <1>2, <1>3, PageType
  <1>5. local' \in Seq(LocalRow)
    BY <1>3, <1>4 DEF TypeOK
  <1>6. OneChangePerVersion(RowsOf(local'))
    BY <1>3, <1>4 DEF Inv, OneChangePerVersion
  <1>7. TypeOK'
    BY <1>1, <1>5 DEF TypeOK
  <1> QED
    BY <1>1, <1>4, <1>6, <1>7 DEF Inv

(* A row of the sheet has an id of its own. *)
LEMMA FetchRowStep ==
  ASSUME TypeOK, Inv, NEW r \in RemoteRow, FetchRow(r)
  PROVE  TypeOK' /\ Inv'
  <1>1. /\ stage = "fetch" /\ \A i \in DOMAIN remote : remote[i].rowID # r.rowID
        /\ remote' = Append(remote, r)
        /\ UNCHANGED <<events, stage, local, done, byID, merged>>
    BY DEF FetchRow
  <1>2. /\ remote' \in Seq(RemoteRow) /\ Len(remote') = Len(remote) + 1 /\ Len(remote) \in Nat
        /\ DOMAIN remote = 1..Len(remote) /\ DOMAIN remote' = 1..(Len(remote) + 1)
        /\ \A i \in DOMAIN remote : remote'[i] = remote[i]
        /\ remote'[Len(remote) + 1] = r
    BY <1>1 DEF TypeOK
  <1>3. \A i, j \in DOMAIN remote' : remote'[i].rowID = remote'[j].rowID => i = j
    BY <1>1, <1>2 DEF Inv
  <1>4. TypeOK'
    BY <1>1, <1>2 DEF TypeOK
  <1>5. ByVersion(local)' /\ OneChangePerVersion(RowsOf(local))'
    BY <1>1 DEF Inv, ByVersion, RowsOf, OneChangePerVersion
  <1>6. OneChangePerVersion(events)'
    BY <1>1 DEF Inv, OneChangePerVersion
  <1> QED
    BY <1>1, <1>3, <1>4, <1>5, <1>6 DEF Inv

(* The merge starts with an empty map. *)
LEMMA CallStep ==
  ASSUME TypeOK, Inv, Call
  PROVE  TypeOK' /\ Inv'
  <1>1. /\ stage = "fetch" /\ stage' = "local"
        /\ UNCHANGED <<events, local, remote, done, byID, merged>>
    BY DEF Call
  <1>2. done = 0 /\ byID = NoRows /\ DOMAIN byID = {}
    BY <1>1 DEF Inv, NoRows
  <1>3. Seen(local) = {}
    BY <1>2 DEF Seen
  <1>4. IsMerge(byID, {}, {})
    BY <1>2 DEF IsMerge
  <1>5. TypeOK' /\ 0 <= Len(local)
    BY <1>1 DEF TypeOK
  <1>6. IsMerge(byID, Seen(local), {})'
    BY <1>1, <1>3, <1>4 DEF Seen
  <1> QED
    BY <1>1, <1>2, <1>5, <1>6 DEF Inv, OneChangePerVersion, ByVersion, RowsOf

(* The job ends and leaves nothing behind. *)
LEMMA ReturnStep ==
  ASSUME TypeOK, Inv, Return
  PROVE  TypeOK' /\ Inv'
  <1>1. /\ events' = events /\ stage' = "idle" /\ local' = <<>> /\ remote' = <<>>
        /\ done' = 0 /\ byID' = NoRows /\ merged' = <<>>
    BY DEF Return
  <1>2. DOMAIN byID' = {} /\ byID' \in [{} -> LocalRow \cup RemoteRow]
    BY <1>1 DEF NoRows
  <1>3. TypeOK'
    <2>1. \E ids \in SUBSET RowIDs : byID' \in [ids -> LocalRow \cup RemoteRow]
      BY <1>2
    <2>2. local' \in Seq(LocalRow) /\ remote' \in Seq(RemoteRow)
          /\ merged' \in Seq(LocalRow \cup RemoteRow) /\ done' \in Nat
      BY <1>1
    <2> QED
      BY <1>1, <2>1, <2>2 DEF TypeOK
  <1>4. IsFiniteSet({})
    BY FS_EmptySet
  <1>5. OneChangePerVersion(events)'
    BY <1>1 DEF Inv, OneChangePerVersion
  <1> QED
    BY <1>1, <1>2, <1>3, <1>4, <1>5 DEF Inv, OneChangePerVersion, ByVersion, RowsOf

-----------------------------------------------------------------------------
(* The map after byID[r.RowID] = r is the merge of one more row, if that row *)
(* wins and no other winner changes.                                         *)
LEMMA PutMerges ==
  ASSUME NEW map, NEW r, NEW mine, NEW theirs, NEW m, NEW t, IsMerge(map, mine, theirs),
         m \cup t = mine \cup theirs \cup {r}, Winner(r, m, t),
         \A c : c.rowID # r.rowID /\ Winner(c, mine, theirs) => Winner(c, m, t)
  PROVE  IsMerge(Put(map, r), m, t)
  <1> DEFINE new == Put(map, r)
  <1>1. /\ DOMAIN new = DOMAIN map \cup {r.rowID} /\ new[r.rowID] = r
        /\ \A id \in DOMAIN map : id # r.rowID => new[id] = map[id]
    BY DEF Put
  <1>2. DOMAIN map = {o.rowID : o \in mine \cup theirs}
    BY DEF IsMerge
  <1>3. \A id \in DOMAIN map : map[id].rowID = id /\ Winner(map[id], mine, theirs)
    BY DEF IsMerge
  <1> HIDE DEF new
  <1>4. DOMAIN new = {o.rowID : o \in m \cup t}
    BY <1>1, <1>2
  <1>5. ASSUME NEW id \in DOMAIN new PROVE new[id].rowID = id /\ Winner(new[id], m, t)
    <2>1. CASE id = r.rowID
      BY <1>1, <2>1
    <2>2. CASE id # r.rowID
      <3>1. new[id] = map[id] /\ map[id].rowID = id /\ Winner(map[id], mine, theirs)
        BY <1>1, <1>3, <2>2
      <3> QED
        BY <2>2, <3>1
    <2> QED
      BY <2>1, <2>2
  <1>6. IsMerge(new, m, t)
    BY <1>4, <1>5 DEF IsMerge
  <1> QED
    BY <1>6 DEF new

(* The map keeps its type when a row is put into it. *)
LEMMA PutType ==
  ASSUME TypeOK, IsFiniteSet(DOMAIN byID), NEW r \in LocalRow \cup RemoteRow
  PROVE  /\ \E ids \in SUBSET RowIDs : Put(byID, r) \in [ids -> LocalRow \cup RemoteRow]
         /\ IsFiniteSet(DOMAIN Put(byID, r))
         /\ \A id \in DOMAIN byID : byID[id] \in LocalRow \cup RemoteRow
  <1>1. PICK ids \in SUBSET RowIDs : byID \in [ids -> LocalRow \cup RemoteRow]
    BY DEF TypeOK
  <1>2. r.rowID \in RowIDs
    BY RowType, SidesType
  <1>3. Put(byID, r) \in [ids \cup {r.rowID} -> LocalRow \cup RemoteRow]
    BY <1>1 DEF Put
  <1>4. ids \cup {r.rowID} \in SUBSET RowIDs
    BY <1>1, <1>2
  <1>5. IsFiniteSet(DOMAIN Put(byID, r))
    <2>1. DOMAIN Put(byID, r) = DOMAIN byID \cup {r.rowID}
      BY DEF Put
    <2>2. IsFiniteSet(DOMAIN byID \cup {r.rowID})
      BY FS_AddElement
    <2> QED
      BY <2>1, <2>2
  <1> QED
    BY <1>1, <1>3, <1>4, <1>5

(* Nothing but the loop's own variables changes in a step of a loop. *)
LEMMA LoopFrame ==
  ASSUME Inv, UNCHANGED <<events, local, remote>>
  PROVE  /\ IsFiniteSet(events)' /\ OneChangePerVersion(events)'
         /\ ByVersion(local)' /\ OneChangePerVersion(RowsOf(local))'
         /\ (\A i, j \in DOMAIN remote : remote[i].rowID = remote[j].rowID => i = j)'
         /\ RowsOf(local)' = RowsOf(local) /\ RowsOf(remote)' = RowsOf(remote)
  BY DEF Inv, OneChangePerVersion, ByVersion, RowsOf

(* The first loop: the events come in the order of their versions, so the    *)
(* one put last is the newest of its row.                                    *)
LEMMA PutLocalStep ==
  ASSUME TypeOK, Inv, PutLocal
  PROVE  TypeOK' /\ Inv'
  <1> DEFINE r == local[done + 1]
             M == Seen(local)
  <1>1. /\ stage = "local" /\ stage' = stage /\ done < Len(local) /\ done' = done + 1
        /\ byID' = Put(byID, r) /\ UNCHANGED <<events, local, remote, merged>>
    BY DEF PutLocal
  <1>2. /\ done \in Nat /\ Len(local) \in Nat /\ DOMAIN local = 1..Len(local)
        /\ done + 1 \in 1..Len(local) /\ r \in LocalRow
    BY <1>1 DEF TypeOK
  <1>3. IsMerge(byID, M, {}) /\ IsFiniteSet(DOMAIN byID)
    BY <1>1 DEF Inv
  <1>4. Seen(local)' = M \cup {r}
    <2>1. 1..done' = 1..done \cup {done + 1}
      BY <1>1, <1>2
    <2> QED
      BY <1>1, <2>1 DEF Seen
  <1>5. ASSUME NEW o \in M, o.rowID = r.rowID
        PROVE  o.version <= r.version /\ (o.version = r.version => o = r)
    <2>1. PICK i \in 1..done : o = local[i]
      BY DEF Seen
    <2>2. i \in DOMAIN local /\ done + 1 \in DOMAIN local /\ i < done + 1
      BY <1>1, <1>2
    <2>3. o \in RowsOf(local) /\ r \in RowsOf(local)
      BY <2>1, <2>2 DEF RowsOf
    <2>4. o.version <= r.version
      BY <2>1, <2>2 DEF Inv, ByVersion
    <2> QED
      BY <1>5, <2>3, <2>4 DEF Inv, OneChangePerVersion
  <1> HIDE DEF r, M
  <1>6. Winner(r, M \cup {r}, {})
    BY <1>2, <1>5, LaterEventWins, SidesType
  <1>7. IsMerge(Put(byID, r), M \cup {r}, {})
    <2>1. \A c : c.rowID # r.rowID /\ Winner(c, M, {}) => Winner(c, M \cup {r}, {})
      BY OtherRow
    <2>2. M \cup {r} \cup {} = M \cup {} \cup {r}
      OBVIOUS
    <2> QED
      BY <1>3, <1>6, <2>1, <2>2, PutMerges
  <1>8. TypeOK'
    BY <1>1, <1>2, <1>3, PutType DEF TypeOK
  <1>9. IsFiniteSet(DOMAIN byID)'
    BY <1>1, <1>2, <1>3, PutType
  <1>10. (done <= Len(local) /\ IsMerge(byID, Seen(local), {}))'
    BY <1>1, <1>2, <1>4, <1>7
  <1> QED
    BY <1>1, <1>8, <1>9, <1>10, LoopFrame DEF Inv

(* Between the loops: all events have been put. *)
LEMMA LocalDoneStep ==
  ASSUME TypeOK, Inv, LocalDone
  PROVE  TypeOK' /\ Inv'
  <1>1. /\ stage = "local" /\ done = Len(local) /\ stage' = "remote" /\ done' = 0
        /\ UNCHANGED <<events, local, remote, byID, merged>>
    BY DEF LocalDone
  <1>2. TypeOK' /\ DOMAIN local = 1..Len(local) /\ 0 <= Len(remote)
    BY <1>1 DEF TypeOK
  <1>3. Seen(local) = RowsOf(local)
    BY <1>1, <1>2 DEF Seen, RowsOf
  <1>4. Seen(remote)' = {}
    BY <1>1 DEF Seen
  <1>5. IsMerge(byID, RowsOf(local), {})
    BY <1>1, <1>3 DEF Inv
  <1>6. (done <= Len(remote) /\ IsMerge(byID, RowsOf(local), Seen(remote)))'
    BY <1>1, <1>2, <1>4, <1>5, LoopFrame
  <1>7. IsFiniteSet(DOMAIN byID)'
    BY <1>1 DEF Inv
  <1> QED
    BY <1>1, <1>2, <1>6, <1>7, LoopFrame DEF Inv

(* The second loop: a row of the sheet replaces what is there only if it is  *)
(* newer, so the map holds the winners of one more row.                      *)
LEMMA PutRemoteStep ==
  ASSUME TypeOK, Inv, PutRemote
  PROVE  TypeOK' /\ Inv'
  <1> DEFINE r == remote[done + 1]
             M == RowsOf(local)
             T == Seen(remote)
  <1>1. /\ stage = "remote" /\ stage' = stage /\ done < Len(remote) /\ done' = done + 1
        /\ byID' = PutNewer(byID, r) /\ UNCHANGED <<events, local, remote, merged>>
    BY DEF PutRemote
  <1>2. /\ done \in Nat /\ Len(remote) \in Nat /\ DOMAIN remote = 1..Len(remote)
        /\ done + 1 \in 1..Len(remote) /\ r \in RemoteRow
    BY <1>1 DEF TypeOK
  <1>3. IsMerge(byID, M, T) /\ IsFiniteSet(DOMAIN byID)
    BY <1>1 DEF Inv
  <1>4. Seen(remote)' = T \cup {r}
    <2>1. 1..done' = 1..done \cup {done + 1}
      BY <1>1, <1>2
    <2> QED
      BY <1>1, <2>1 DEF Seen
  <1>5. M \subseteq SheetRowChange /\ T \subseteq SheetRowChange /\ r \in SheetRowChange
    <2>1. M \subseteq LocalRow
      BY RowsType DEF TypeOK
    <2>2. T \subseteq RemoteRow
      BY <1>1, <1>2 DEF TypeOK, Seen
    <2> QED
      BY <1>2, <2>1, <2>2, SidesType
  <1> HIDE DEF r, M, T
  <1>6. \A c : c.rowID # r.rowID /\ Winner(c, M, T) => Winner(c, M, T \cup {r})
    BY OtherRow
  <1>7. CASE r.rowID \in DOMAIN byID /\ ~Newer(r, byID[r.rowID])
    <2> DEFINE c == byID[r.rowID]
    <2>1. byID' = byID
      BY <1>1, <1>7 DEF PutNewer
    <2>2. c.rowID = r.rowID /\ Winner(c, M, T) /\ c \in SheetRowChange
      BY <1>3, <1>5, <1>7 DEF IsMerge, Winner
    <2>3. Winner(c, M, T \cup {r})
      BY <1>5, <1>7, <2>2, OlderRowLoses
    <2>4. IsMerge(byID, M, T \cup {r})
      <3>1. DOMAIN byID = {o.rowID : o \in M \cup T}
            /\ \A id \in DOMAIN byID : byID[id].rowID = id /\ Winner(byID[id], M, T)
        BY <1>3 DEF IsMerge
      <3>2. DOMAIN byID = {o.rowID : o \in M \cup (T \cup {r})}
        BY <1>7, <3>1
      <3>3. \A id \in DOMAIN byID : Winner(byID[id], M, T \cup {r})
        BY <1>6, <2>3, <3>1
      <3> QED
        BY <3>1, <3>2, <3>3 DEF IsMerge
    <2>5. TypeOK'
      BY <1>1, <1>2, <2>1 DEF TypeOK
    <2>6. (done <= Len(remote) /\ IsMerge(byID, RowsOf(local), Seen(remote)))'
      BY <1>1, <1>2, <1>4, <2>1, <2>4, LoopFrame DEF M
    <2>7. IsFiniteSet(DOMAIN byID)'
      BY <1>3, <2>1
    <2> QED
      BY <1>1, <2>5, <2>6, <2>7, LoopFrame DEF Inv
  <1>8. CASE ~(r.rowID \in DOMAIN byID /\ ~Newer(r, byID[r.rowID]))
    <2>1. byID' = Put(byID, r)
      BY <1>1, <1>8 DEF PutNewer
    <2>2. Winner(r, M, T \cup {r})
      <3>1. CASE r.rowID \in DOMAIN byID
        <4> DEFINE c == byID[r.rowID]
        <4>1. c.rowID = r.rowID /\ Winner(c, M, T) /\ c \in SheetRowChange
          BY <1>3, <1>5, <3>1 DEF IsMerge, Winner
        <4>2. Newer(r, c)
          BY <1>8, <3>1
        <4> HIDE DEF c
        <4> QED
          BY <1>5, <4>1, <4>2, NewerRowWins
      <3>2. CASE r.rowID \notin DOMAIN byID
        <4>1. \A o \in M \cup T : o.rowID # r.rowID
          BY <1>3, <3>2 DEF IsMerge
        <4> QED
          BY <1>5, <4>1, NewRowWins
      <3> QED
        BY <3>1, <3>2
    <2>3. IsMerge(Put(byID, r), M, T \cup {r})
      <3>1. M \cup (T \cup {r}) = M \cup T \cup {r}
        OBVIOUS
      <3> QED
        BY <1>3, <1>6, <2>2, <3>1, PutMerges
    <2>4. TypeOK'
      BY <1>1, <1>2, <1>3, <2>1, PutType DEF TypeOK
    <2>5. (done <= Len(remote) /\ IsMerge(byID, RowsOf(local), Seen(remote)))'
      BY <1>1, <1>2, <1>4, <2>1, <2>3, LoopFrame DEF M
    <2>6. IsFiniteSet(DOMAIN byID)'
      BY <1>2, <1>3, <2>1, PutType
    <2> QED
      BY <1>1, <2>4, <2>5, <2>6, LoopFrame DEF Inv
  <1> QED
    BY <1>7, <1>8

(* The result is the map, in the order of the row ids. *)
LEMMA SortStep ==
  ASSUME TypeOK, Inv, Sort
  PROVE  TypeOK' /\ Inv'
  <1>1. /\ stage = "remote" /\ done = Len(remote) /\ stage' = "merged"
        /\ UNCHANGED <<events, local, remote, done, byID>>
    BY DEF Sort
  <1>2. PICK ids \in SetToSeqs(DOMAIN byID) :
           Ascending(ids) /\ merged' = [i \in DOMAIN ids |-> byID[ids[i]]]
    BY DEF Sort
  <1>3. ids \in Seq(DOMAIN byID) /\ DOMAIN ids = 1..Len(ids) /\ IsFiniteSet(DOMAIN byID)
    BY ArrangementType DEF Inv
  <1>4. \A id \in DOMAIN byID : byID[id] \in LocalRow \cup RemoteRow
    BY DEF TypeOK
  <1>5. merged' \in Seq(LocalRow \cup RemoteRow)
    <2>1. Len(ids) \in Nat /\ \A i \in 1..Len(ids) : ids[i] \in DOMAIN byID
      BY <1>3
    <2>2. merged' \in [1..Len(ids) -> LocalRow \cup RemoteRow]
      BY <1>2, <1>3, <1>4, <2>1
    <2> QED
      BY <2>1, <2>2
  <1>6. TypeOK'
    BY <1>1, <1>5 DEF TypeOK
  <1>7. DOMAIN remote = 1..Len(remote)
    BY DEF TypeOK
  <1>8. Seen(remote) = RowsOf(remote)
    BY <1>1, <1>7 DEF Seen, RowsOf
  <1>9. IsMerge(byID, RowsOf(local), RowsOf(remote))'
    BY <1>1, <1>8, LoopFrame DEF Inv
  <1>10. ResultIsSorted'
    BY <1>1, <1>2 DEF ResultIsSorted
  <1> QED
    BY <1>1, <1>3, <1>6, <1>9, <1>10, LoopFrame DEF Inv

-----------------------------------------------------------------------------
(* Every step keeps the invariant. *)
LEMMA NextStep ==
  ASSUME TypeOK, Inv, [Next]_vars
  PROVE  TypeOK' /\ Inv'
  <1>1. CASE UNCHANGED vars
    BY <1>1 DEF vars, TypeOK, Inv, OneChangePerVersion, ByVersion, RowsOf, Seen, ResultIsSorted
  <1>2. CASE Next
    BY <1>2, LogEventStep, ListEventsStep, FetchRowStep, CallStep, PutLocalStep,
       LocalDoneStep, PutRemoteStep, SortStep, ReturnStep DEF Next
  <1> QED
    BY <1>1, <1>2

(* The inductive invariant: both loops of MergeSheetRows hold the winners of *)
(* the rows they have been through.                                          *)
THEOREM InvHolds == Spec => [](TypeOK /\ Inv)
  BY InitInv, NextStep, PTL DEF Spec

(* The log, the two lists, the map and the result keep their types. *)
THEOREM TypeCorrect == Spec => []TypeOK
  BY InvHolds, PTL

(* What the sort made of the map: its values, in the order of its keys. *)
LEMMA ResultType ==
  ASSUME TypeOK, Inv, stage = "merged"
  PROVE  /\ RowsOf(merged) = {byID[id] : id \in DOMAIN byID}
         /\ \A i, j \in DOMAIN merged : i < j => merged[i].rowID < merged[j].rowID
  <1>1. PICK ids \in SetToSeqs(DOMAIN byID) :
           Ascending(ids) /\ merged = [i \in DOMAIN ids |-> byID[ids[i]]]
    BY DEF Inv, ResultIsSorted
  <1>2. RowsOf(ids) = DOMAIN byID /\ DOMAIN merged = DOMAIN ids
    BY <1>1, ArrangementType DEF Inv
  <1>3. \A i \in DOMAIN ids : ids[i] \in DOMAIN byID /\ merged[i] = byID[ids[i]]
    BY <1>1, <1>2 DEF RowsOf
  <1>4. \A id \in DOMAIN byID : byID[id].rowID = id
    BY DEF Inv, IsMerge
  <1>5. \A id \in DOMAIN byID : \E i \in DOMAIN ids : ids[i] = id
    BY <1>2 DEF RowsOf
  <1>6. RowsOf(merged) = {byID[id] : id \in DOMAIN byID}
    BY <1>2, <1>3, <1>5 DEF RowsOf
  <1> QED
    BY <1>1, <1>2, <1>3, <1>4, <1>6 DEF Ascending

(* MergeSheetRows computes what it promises, for all events, sheets, limits  *)
(* and orders among events of one version: every id once, in order, with the *)
(* newest change, the local one on a full tie.                               *)
THEOREM MergeIsRight == Spec => []MergeKeepsNewest
  <1>1. TypeOK /\ Inv => MergeKeepsNewest
    <2> SUFFICES ASSUME TypeOK, Inv, stage = "merged" PROVE MergeKeepsNewest
      BY DEF MergeKeepsNewest
    <2>1. /\ RowsOf(merged) = {byID[id] : id \in DOMAIN byID}
          /\ \A i, j \in DOMAIN merged : i < j => merged[i].rowID < merged[j].rowID
      BY ResultType
    <2>2. /\ DOMAIN byID = {r.rowID : r \in RowsOf(local) \cup RowsOf(remote)}
          /\ \A id \in DOMAIN byID : /\ byID[id].rowID = id
                                     /\ Winner(byID[id], RowsOf(local), RowsOf(remote))
      BY DEF Inv, IsMerge
    <2>3. {r.rowID : r \in RowsOf(merged)} = DOMAIN byID
      BY <2>1, <2>2
    <2> QED
      BY <2>1, <2>2, <2>3 DEF MergeKeepsNewest
  <1> QED
    BY <1>1, InvHolds, PTL

(* The result depends on which events and rows were read and on nothing      *)
(* else, in particular not on the order of events of one version.            *)
THEOREM MergeStaysStable == Spec => []MergeIsStable
  <1>1. TypeOK /\ Inv => MergeIsStable
    <2> SUFFICES ASSUME TypeOK, Inv, stage = "merged" PROVE MergeIsStable
      BY DEF MergeIsStable
    <2> DEFINE M == RowsOf(local)
               T == RowsOf(remote)
    <2>1. RowsOf(merged) = {byID[id] : id \in DOMAIN byID}
      BY ResultType
    <2>2. /\ DOMAIN byID = {r.rowID : r \in M \cup T}
          /\ \A id \in DOMAIN byID : byID[id].rowID = id /\ Winner(byID[id], M, T)
      BY DEF Inv, IsMerge
    <2>3. M \in SUBSET SheetRowChange /\ T \in SUBSET SheetRowChange
      BY RowsType, SidesType DEF TypeOK
    <2>4. OneChangePerVersion(M) /\ \A e, f \in T : e.rowID = f.rowID => e = f
      BY DEF Inv, RowsOf
    <2> HIDE DEF M, T
    <2>5. ASSUME NEW r \in M \cup T, Winner(r, M, T) PROVE r \in RowsOf(merged)
      <3>1. /\ r.rowID \in DOMAIN byID /\ byID[r.rowID].rowID = r.rowID
            /\ Winner(byID[r.rowID], M, T)
        BY <2>2
      <3>2. r = byID[r.rowID]
        BY <2>3, <2>4, <2>5, <3>1, OneWinner
      <3> QED
        BY <2>1, <3>1, <3>2
    <2>6. \A r \in RowsOf(merged) : r \in M \cup T /\ Winner(r, M, T)
      BY <2>1, <2>2 DEF Winner
    <2>7. RowsOf(merged) = {r \in M \cup T : Winner(r, M, T)}
      BY <2>5, <2>6
    <2> QED
      BY <2>7 DEF MergeIsStable, M, T
  <1> QED
    BY <1>1, InvHolds, PTL

=============================================================================
