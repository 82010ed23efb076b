------------------------- MODULE TransactionsProofs -------------------------
(***************************************************************************)
(* Proofs about the write path, for any number of requests, rows, users    *)
(* and values. TypeOK /\ Inv is inductive (InitInv, NextStep, one lemma    *)
(* per action); the safety properties follow from it, and so does that     *)
(* every commit is one step of the abstract ledger.                        *)
(***************************************************************************)
EXTENDS Transactions, TLAPS

(* The absent row is not a row, and counts as version 0. *)
LEMMA NoRowIsNoRow == NoRow \notin Row /\ NoRow.version = 0
  BY DEF NoRow, Row

(* The absent request has no operation. *)
LEMMA NoReqIsNoReq == NoReq.op \notin Ops
  BY DEF NoReq, Ops

(* The inductive invariant holds before the first request. *)
LEMMA InitInv == Init => TypeOK /\ Inv
  <1> SUFFICES ASSUME Init PROVE TypeOK /\ Inv
    OBVIOUS
  <1>1. PICK imported \in [Imported -> ImportedRow] :
          rows = [id \in Ids |-> IF id \in Imported THEN imported[id] ELSE NoRow]
    BY DEF Init
  <1>2. \A id \in Imported : imported[id] \in Row /\ imported[id].version = 1
    BY <1>1 DEF ImportedRow, Row, DeletedAt
  <1>3. TypeOK
    BY <1>1, <1>2 DEF Init, TypeOK, PcValues, Req
  <1>4. \A r \in Requests : RequestInv(r)
    BY DEF Init, RequestInv, InTx
  <1>5. Exclusion /\ IdsTaken /\ EventOrder /\ JobsAreCovered
    BY DEF Init, Exclusion, IdsTaken, EventOrder, JobsAreCovered, InTx
  <1>6. ImportedStay
    BY <1>1, <1>2, ImportedAssumption, NoRowIsNoRow DEF ImportedStay
  <1>7. OutboxExact
    <2> SUFFICES ASSUME NEW id \in Ids
                 PROVE  FirstLogged(id)..rows[id].version = {}
      BY DEF Init, OutboxExact
    <2> QED
      BY <1>1, <1>2, NoRowIsNoRow DEF FirstLogged
  <1> QED
    BY <1>3, <1>4, <1>5, <1>6, <1>7 DEF Inv

(* A currency that may be left out still ends up a currency. *)
LEMMA OrElseType ==
  ASSUME NEW currency \in Currencies \cup {Empty}, NEW c \in Currencies
  PROVE  OrElse(currency, c) \in Currencies
  BY DEF OrElse

(* CreateTransaction inserts a well-formed row at version 1. *)
LEMMA CreatedRowType ==
  ASSUME NEW user \in Users, NEW amount \in Amounts,
         NEW currency \in Currencies \cup {Empty}
  PROVE  CreatedRow(user, amount, currency) \in Row
  BY OrElseType, CurrencyAssumption DEF CreatedRow, Row, DeletedAt

(* What UPDATE and soft delete make of a row. *)
LEMMA RowWrite ==
  ASSUME NEW row \in Row, NEW a \in Amounts, NEW c \in Currencies,
         NEW v \in Nat \ {0}, NEW d \in DeletedAt
  PROVE  /\ [row EXCEPT !.version = v, !.deleted = d] \in Row
         /\ [row EXCEPT !.amount = a, !.currency = c] \in Row
  BY DEF Row

(* The soft delete leaves a well-formed row one version on. *)
LEMMA DeletedRowType ==
  ASSUME NEW row \in Row
  PROVE  LET new == [row EXCEPT !.version = @ + 1, !.deleted = "set"]
         IN  /\ new \in Row
             /\ new.version = row.version + 1
             /\ new.user = row.user
  <1>1. row.version + 1 \in Nat \ {0} /\ "set" \in DeletedAt
    BY DEF Row, DeletedAt
  <1>2. row.amount \in Amounts /\ row.currency \in Currencies
    BY DEF Row
  <1>3. [row EXCEPT !.version = row.version + 1, !.deleted = "set"] \in Row
    BY <1>1, <1>2, RowWrite
  <1> QED
    BY <1>3 DEF Row

(* The UPDATE leaves a well-formed row of the same owner. *)
LEMMA UpdatedRowType ==
  ASSUME NEW row \in Row, row.deleted = "null", NEW amount \in Amounts,
         NEW currency \in Currencies \cup {Empty}
  PROVE  LET new == [ApplyUpdates(row, amount, currency) EXCEPT
                       !.version = row.version + 1, !.deleted = row.deleted]
         IN  /\ new \in Row
             /\ new.version = row.version + 1
             /\ new.user = row.user
             /\ new.deleted = "null"
  <1> DEFINE applied == ApplyUpdates(row, amount, currency)
  <1>1. OrElse(currency, row.currency) \in Currencies
    BY OrElseType DEF Row
  <1>2. row.version + 1 \in Nat \ {0} /\ row.deleted \in DeletedAt
    BY DEF Row
  <1>3. applied \in Row /\ applied.user = row.user
    BY <1>1, <1>2, RowWrite DEF ApplyUpdates, Row
  <1> HIDE DEF applied
  <1>4. [applied EXCEPT !.version = row.version + 1, !.deleted = row.deleted] \in Row
    BY <1>1, <1>2, <1>3, RowWrite
  <1> QED
    BY <1>2, <1>3, <1>4 DEF Row, applied

(* A request that does not move, while nothing it looks at moves. *)
LEMMA OtherRequest ==
  ASSUME TypeOK, Inv, NEW s \in Requests,
         pc'[s] = pc[s], req'[s] = req[s], UNCHANGED <<rows, events>>,
         nextEventId' \in {nextEventId, nextEventId + 1}
  PROVE  RequestInv(s)'
  <1>1. RequestInv(s)
    BY DEF Inv
  <1>2. EventOf(s)' = EventOf(s)
    BY DEF EventOf
  <1>3. pc[s] = "logged" => req[s].eventId \in 1..(nextEventId' - 1)
    BY <1>1 DEF TypeOK, RequestInv
  <1> QED
    BY <1>1, <1>2, <1>3 DEF RequestInv, Live

(* CreateTransaction: the id is free and nobody else holds it. *)
LEMMA CreateStep ==
  ASSUME TypeOK, Inv, NEW r \in Requests, NEW id \in Ids, NEW user \in Users,
         NEW amount \in Amounts, NEW currency \in Currencies \cup {Empty},
         CreateTransaction(r, id, user, amount, currency)
  PROVE  TypeOK' /\ Inv'
  <1> USE DEF CreateTransaction
  <1>1. CreatedRow(user, amount, currency) \in Row
    BY CreatedRowType
  <1>2. TypeOK'
    BY <1>1 DEF TypeOK, PcValues, Req, Ops
  <1>3. ASSUME NEW s \in Requests PROVE RequestInv(s)'
    <2>1. CASE s = r
      BY <1>1, <2>1, NoRowIsNoRow, NoReqIsNoReq DEF TypeOK, RequestInv, InTx, CreatedRow, NoReq, Ops
    <2>2. CASE s # r
      BY <2>2, OtherRequest
    <2> QED BY <2>1, <2>2
  <1>4. Exclusion'
    BY DEF TypeOK, Inv, Exclusion, InTx, Locked
  <1>5. OutboxExact' /\ EventOrder' /\ JobsAreCovered' /\ ImportedStay' /\ IdsTaken'
    BY DEF Inv, OutboxExact, EventOrder, JobsAreCovered, ImportedStay, IdsTaken
  <1> QED
    BY <1>2, <1>3, <1>4, <1>5 DEF Inv

(* LoadExisting: the copy agrees with the table when it is read. *)
LEMMA LoadExistingStep ==
  ASSUME TypeOK, Inv, NEW r \in Requests, NEW id \in Ids, LoadExisting(r, id)
  PROVE  TypeOK' /\ Inv'
  <1> USE DEF LoadExisting
  <1>1. TypeOK'
    BY DEF TypeOK, PcValues, Req, Ops
  <1>2. ASSUME NEW s \in Requests PROVE RequestInv(s)'
    <2>1. CASE s = r
      BY <2>1, NoReqIsNoReq DEF TypeOK, RequestInv, InTx, Live, NoReq, Row, NoRow
    <2>2. CASE s # r
      BY <2>2, OtherRequest
    <2> QED BY <2>1, <2>2
  <1>3. Exclusion'
    BY DEF TypeOK, Inv, Exclusion, InTx
  <1>4. OutboxExact' /\ EventOrder' /\ JobsAreCovered' /\ ImportedStay' /\ IdsTaken'
    BY DEF Inv, OutboxExact, EventOrder, JobsAreCovered, ImportedStay, IdsTaken
  <1> QED
    BY <1>1, <1>2, <1>3, <1>4 DEF Inv

(* UpdateTransaction: a version that still matches means the row still does. *)
LEMMA UpdateStep ==
  ASSUME TypeOK, Inv, NEW r \in Requests, NEW amount \in Amounts,
         NEW currency \in Currencies \cup {Empty},
         UpdateTransaction(r, amount, currency)
  PROVE  TypeOK' /\ Inv'
  <1> DEFINE id == req[r].id
             new == [ApplyUpdates(rows[id], amount, currency) EXCEPT
                       !.version = rows[id].version + 1,
                       !.deleted = rows[id].deleted]
  <1>1. /\ req[r] \in Req \ {NoReq} /\ req[r].op = "update"
        /\ rows[id] \in Row /\ Live(rows[id]) /\ req[r].existing = rows[id]
    <2>1. RequestInv(r) /\ pc[r] = "read" /\ UpdateMatches(rows[id], req[r].existing)
      BY DEF Inv, UpdateTransaction
    <2>2. req[r] \in Req \ {NoReq} /\ id \in Ids
      BY <2>1 DEF TypeOK, RequestInv, Req
    <2> QED
      BY <2>1, <2>2 DEF TypeOK, RequestInv, UpdateMatches, Live
  <1>2. /\ new \in Row
        /\ new.version = rows[id].version + 1
        /\ new.user = rows[id].user
        /\ new.deleted = "null"
    BY <1>1, UpdatedRowType DEF Live
  <1>3. /\ pc' = [pc EXCEPT ![r] = "written"]
        /\ req' = [req EXCEPT ![r].row = new]
        /\ UNCHANGED <<rows, events, nextEventId, jobs>>
        /\ ~Locked(id)
        /\ pc[r] = "read"
    BY <1>1 DEF UpdateTransaction, UpdatedRow
  <1> HIDE DEF new
  <1>4. TypeOK'
    BY <1>1, <1>2, <1>3 DEF TypeOK, PcValues, Req
  <1>5. ASSUME NEW s \in Requests PROVE RequestInv(s)'
    <2>1. CASE s = r
      BY <1>1, <1>2, <1>3, <2>1 DEF TypeOK, RequestInv, InTx, Req, NoReq, Ops
    <2>2. CASE s # r
      BY <1>3, <2>2, OtherRequest
    <2> QED BY <2>1, <2>2
  <1>6. Exclusion'
    BY <1>1, <1>3 DEF TypeOK, Inv, Exclusion, InTx, Locked, Req
  <1>7. OutboxExact' /\ EventOrder' /\ JobsAreCovered' /\ ImportedStay' /\ IdsTaken'
    BY <1>3 DEF Inv, OutboxExact, EventOrder, JobsAreCovered, ImportedStay, IdsTaken
  <1> QED
    BY <1>4, <1>5, <1>6, <1>7 DEF Inv

(* SoftDeleteTransaction: the row was free and live. *)
LEMMA SoftDeleteStep ==
  ASSUME TypeOK, Inv, NEW r \in Requests, NEW id \in Ids,
         SoftDeleteTransaction(r, id)
  PROVE  TypeOK' /\ Inv'
  <1> DEFINE new == [rows[id] EXCEPT !.version = @ + 1, !.deleted = "set"]
  <1>1. rows[id] \in Row /\ Live(rows[id])
    BY DEF TypeOK, SoftDeleteTransaction, Live
  <1>2. /\ new \in Row
        /\ new.version = rows[id].version + 1
        /\ new.user = rows[id].user
    BY <1>1, DeletedRowType
  <1>3. /\ pc[r] = "idle" /\ ~Locked(id)
        /\ pc' = [pc EXCEPT ![r] = "written"]
        /\ req' = [req EXCEPT ![r] =
                     [op |-> "delete", id |-> id, existing |-> NoRow,
                      row |-> new, eventId |-> 0]]
        /\ UNCHANGED <<rows, events, nextEventId, jobs>>
    BY DEF SoftDeleteTransaction, DeletedRow
  <1>4. TypeOK'
    BY <1>2, <1>3 DEF TypeOK, PcValues, Req, Ops
  <1>5. ASSUME NEW s \in Requests PROVE RequestInv(s)'
    <2>1. CASE s = r
      BY <1>1, <1>2, <1>3, <2>1, NoReqIsNoReq DEF TypeOK, RequestInv, InTx, NoReq, Ops
    <2>2. CASE s # r
      BY <1>3, <2>2, OtherRequest
    <2> QED BY <2>1, <2>2
  <1>6. Exclusion'
    BY <1>3 DEF TypeOK, Inv, Exclusion, InTx, Locked
  <1>7. OutboxExact' /\ EventOrder' /\ JobsAreCovered' /\ ImportedStay' /\ IdsTaken'
    BY <1>3 DEF Inv, OutboxExact, EventOrder, JobsAreCovered, ImportedStay, IdsTaken
  <1> QED
    BY <1>4, <1>5, <1>6, <1>7 DEF Inv

(* InsertChangeEvent: the id is above all that were taken before. *)
LEMMA InsertEventStep ==
  ASSUME TypeOK, Inv, NEW r \in Requests, InsertChangeEvent(r)
  PROVE  TypeOK' /\ Inv'
  <1>1. /\ pc[r] = "written"
        /\ req[r] \in Req \ {NoReq}
        /\ pc' = [pc EXCEPT ![r] = "logged"]
        /\ req' = [req EXCEPT ![r].eventId = nextEventId]
        /\ nextEventId' = nextEventId + 1
        /\ UNCHANGED <<rows, events, jobs>>
    BY DEF InsertChangeEvent, TypeOK, Inv, RequestInv
  <1>2. TypeOK'
    BY <1>1 DEF TypeOK, PcValues, Req
  <1>3. ASSUME NEW s \in Requests PROVE RequestInv(s)'
    <2>1. CASE s = r
      <3>1. RequestInv(r) /\ IdsTaken
        BY DEF Inv
      <3>2. /\ pc'[r] = "logged" /\ req'[r] = [req[r] EXCEPT !.eventId = nextEventId]
            /\ req'[r].eventId = nextEventId
            /\ \A f \in {"op", "id", "existing", "row"} : req'[r][f] = req[r][f]
        BY <1>1 DEF TypeOK, Req
      <3>3. nextEventId \in 1..(nextEventId' - 1)
        BY <1>1 DEF TypeOK
      <3>4. req'[r] # NoReq
        BY <1>1, <3>2, NoReqIsNoReq DEF Req
      <3>5. \A e \in events : e.id # nextEventId /\ e.id < nextEventId
        BY <3>1 DEF TypeOK, IdsTaken, Event
      <3> QED
        BY <1>1, <2>1, <3>1, <3>2, <3>3, <3>4, <3>5 DEF RequestInv, InTx, Live
    <2>2. CASE s # r
      BY <1>1, <2>2, OtherRequest
    <2> QED BY <2>1, <2>2
  <1>4. Exclusion'
    <2>1. \A s \in Requests : /\ pc'[s] \in InTx <=> pc[s] \in InTx
                              /\ req'[s].id = req[s].id
                              /\ s # r => /\ pc'[s] = pc[s]
                                          /\ req'[s].eventId = req[s].eventId
      BY <1>1 DEF TypeOK, InTx, Req
    <2>2. req'[r].eventId = nextEventId
      BY <1>1 DEF TypeOK, Req
    <2>3. ASSUME NEW s \in Requests, pc[s] = "logged"
          PROVE  req[s].eventId # nextEventId
      <3>1. req[s].eventId \in 1..(nextEventId - 1)
        BY <2>3 DEF Inv, RequestInv
      <3> QED
        BY <3>1 DEF TypeOK
    <2> QED
      BY <2>1, <2>2, <2>3 DEF Inv, Exclusion
  <1>5. IdsTaken'
    BY <1>1 DEF TypeOK, Inv, IdsTaken, Event
  <1>6. OutboxExact' /\ EventOrder' /\ JobsAreCovered' /\ ImportedStay'
    BY <1>1 DEF Inv, OutboxExact, EventOrder, JobsAreCovered, ImportedStay
  <1> QED
    BY <1>2, <1>3, <1>4, <1>5, <1>6 DEF Inv

(* COMMIT: the row and its event become visible. The request that commits
   goes on to pcr with locals qr. *)
LEMMA CommitEffect ==
  ASSUME TypeOK, Inv, NEW r \in Requests, NEW pcr, NEW qr,
         pc[r] = "logged", MakeVisible(r),
         pc' = [pc EXCEPT ![r] = pcr], req' = [req EXCEPT ![r] = qr],
         \/ pcr = "committed" /\ qr = req[r]
         \/ pcr = "failed" /\ qr = NoReq,
         UNCHANGED <<nextEventId, jobs>>
  PROVE  TypeOK' /\ Inv'
  <1> DEFINE q == req[r]
             id == q.id
             old == rows[id]
             new == q.row
             ev == EventOf(r)
  <1>1. /\ RequestInv(r)
        /\ q \in Req \ {NoReq} /\ id \in Ids /\ q.op \in Ops
        /\ q.eventId \in Nat \ {0} /\ q.eventId < nextEventId
    <2>1. RequestInv(r) /\ q \in Req \ {NoReq}
      BY DEF TypeOK, Inv, RequestInv
    <2>2. id \in Ids /\ q.op \in Ops
      BY <2>1 DEF Req
    <2>3. q.eventId \in 1..(nextEventId - 1)
      BY <2>1 DEF RequestInv
    <2> QED
      BY <2>1, <2>2, <2>3 DEF TypeOK
  <1>2. /\ new \in Row
        /\ new.version = old.version + 1
        /\ q.op = "create" => old = NoRow /\ new.deleted = "zero"
        /\ q.op # "create" => Live(old) /\ new.user = old.user
        /\ q.op = "update" => new.deleted = "null"
        /\ q.op = "delete" => new.deleted = "set"
        /\ \A e \in events : e.id # q.eventId /\ (e.entityId = id => e.id < q.eventId)
    <2>1. ASSUME q.op = "delete" PROVE new.deleted = "set"
      <3>1. old \in Row /\ new = [old EXCEPT !.version = @ + 1, !.deleted = "set"]
        BY <1>1, <2>1 DEF TypeOK, RequestInv, InTx, Live
      <3> QED
        BY <3>1 DEF Row
    <2>2. /\ new \in Row
          /\ new.version = old.version + 1
          /\ q.op = "create" => old = NoRow /\ new.deleted = "zero"
          /\ q.op # "create" => Live(old) /\ new.user = old.user
          /\ q.op = "update" => new.deleted = "null"
      BY <1>1 DEF RequestInv, InTx
    <2>3. \A e \in events : e.id # q.eventId /\ (e.entityId = id => e.id < q.eventId)
      BY <1>1 DEF RequestInv
    <2> QED
      BY <2>1, <2>2, <2>3
  <1>3. /\ ev \in Event
        /\ ev.id = q.eventId /\ ev.entityId = id /\ ev.version = new.version
        /\ ev.userId = new.user /\ ev.amount = new.amount
        /\ ev.currency = new.currency /\ ev.opType = q.op
    BY <1>1, <1>2 DEF EventOf, Event, Row
  <1>4. /\ rows' = [rows EXCEPT ![id] = new]
        /\ events' = events \cup {ev}
    BY DEF MakeVisible
  <1>5. old \in Row \cup {NoRow} /\ old.version \in Nat
    BY <1>1, NoRowIsNoRow DEF TypeOK, Row
  <1> HIDE DEF q, id, old, new, ev
  <1>6. TypeOK'
    BY <1>1, <1>2, <1>3, <1>4 DEF TypeOK, PcValues, Req, q
  <1>7. IdsTaken'
    BY <1>1, <1>3, <1>4 DEF Inv, IdsTaken
  <1>8. ImportedStay'
    BY <1>1, <1>2, <1>4, NoRowIsNoRow, ImportedAssumption DEF TypeOK, Inv, ImportedStay
  <1>9. JobsAreCovered'
    BY <1>4 DEF Inv, JobsAreCovered
  <1>10. \A e \in events : e.entityId = id => e.version <= old.version
    BY <1>1 DEF TypeOK, Inv, OutboxExact, Event, FirstLogged, old
  <1>11. EventOrder'
    BY <1>2, <1>3, <1>4, <1>5, <1>10 DEF TypeOK, Inv, EventOrder, Event, Row
  <1>12. OutboxExact'
    <2> SUFFICES ASSUME NEW i \in Ids
                 PROVE
          /\ \A e \in events' :
                e.entityId = i => e.version \in FirstLogged(i)..rows'[i].version
          /\ \A v \in FirstLogged(i)..rows'[i].version :
                \E e \in events' :
                  /\ e.entityId = i /\ e.version = v
                  /\ \A f \in events' : f.entityId = i /\ f.version = v => f = e
                  /\ v = rows'[i].version =>
                        /\ e.userId = rows'[i].user
                        /\ e.amount = rows'[i].amount
                        /\ e.currency = rows'[i].currency
                        /\ (e.opType = "delete") <=> (rows'[i].deleted = "set")
      BY DEF OutboxExact, FirstLogged
    <2>1. CASE i # id
      <3>1. rows'[i] = rows[i] /\ \A e \in events' : e.entityId = i => e \in events
        BY <1>3, <1>4, <2>1 DEF TypeOK
      <3>2. \A e \in events : e \in events'
        BY <1>4
      <3> QED
        BY <3>1, <3>2 DEF Inv, OutboxExact
    <2>2. CASE i = id
      <3>1. rows'[i] = new
        BY <1>1, <1>4, <2>2 DEF TypeOK
      <3>2. FirstLogged(i) \in Nat \ {0} /\ FirstLogged(i) <= new.version
        BY <1>2, <1>5, <2>2, NoRowIsNoRow DEF FirstLogged, Inv, ImportedStay, Row, old
      <3>3. ASSUME NEW e \in events', e.entityId = i
            PROVE  e.version \in FirstLogged(i)..new.version
        BY <1>2, <1>3, <1>4, <1>5, <1>10, <2>2, <3>2, <3>3
           DEF TypeOK, Inv, OutboxExact, Event, Row, old
      <3>4. ASSUME NEW v \in FirstLogged(i)..new.version, v # new.version
            PROVE  \E e \in events' :
                     /\ e.entityId = i /\ e.version = v
                     /\ \A f \in events' : f.entityId = i /\ f.version = v => f = e
        <4>1. v \in FirstLogged(i)..rows[i].version
          BY <1>2, <1>5, <2>2, <3>2, <3>4 DEF Row, old
        <4>2. PICK e \in events :
                /\ e.entityId = i /\ e.version = v
                /\ \A f \in events : f.entityId = i /\ f.version = v => f = e
          BY <4>1 DEF Inv, OutboxExact
        <4> QED
          BY <1>3, <1>4, <3>4, <4>2
      <3>5. \A f \in events' : f.entityId = i /\ f.version = new.version => f = ev
        BY <1>2, <1>3, <1>4, <1>5, <1>10, <2>2 DEF TypeOK, Event, Row
      <3>6. (ev.opType = "delete") <=> (new.deleted = "set")
        BY <1>1, <1>2, <1>3 DEF Ops
      <3> QED
        BY <1>3, <1>4, <2>2, <3>1, <3>3, <3>4, <3>5, <3>6
    <2> QED
      BY <2>1, <2>2
  <1>13. Exclusion'
    BY DEF TypeOK, Inv, Exclusion, InTx
  <1>14. ASSUME NEW s \in Requests PROVE RequestInv(s)'
    <2>1. CASE s = r /\ pcr = "failed"
      BY <2>1 DEF TypeOK, RequestInv, InTx
    <2>2. CASE s = r /\ pcr = "committed"
      <3>1. pc'[s] = "committed" /\ req'[s] = q /\ EventOf(s)' = ev
        BY <2>2 DEF TypeOK, q, EventOf, ev
      <3>2. rows'[id] = new
        BY <1>1, <1>4 DEF TypeOK
      <3> QED
        BY <1>1, <1>2, <1>4, <3>1, <3>2 DEF RequestInv, InTx, Row, id, new
    <2>3. CASE s # r
      <3> DEFINE p == req[s]
      <3>1. RequestInv(s) /\ pc'[s] = pc[s] /\ req'[s] = p /\ EventOf(s)' = EventOf(s)
        BY <2>3 DEF TypeOK, Inv, EventOf
      <3>2. CASE pc[s] = "read"
        <4>1. CASE p.id = id
          BY <1>1, <1>2, <1>4, <1>5, <3>1, <3>2, <4>1, NoRowIsNoRow
             DEF TypeOK, RequestInv, InTx, Row, old, id, Live, Req
        <4>2. CASE p.id # id
          BY <1>4, <3>1, <3>2, <4>2 DEF TypeOK, RequestInv, InTx
        <4> QED BY <4>1, <4>2
      <3>3. CASE pc[s] \in InTx
        <4>1. p.id # id
          BY <2>3, <3>3 DEF Inv, Exclusion, InTx, id, q
        <4>2. rows'[p.id] = rows[p.id]
          BY <1>4, <4>1 DEF TypeOK
        <4>3. pc[s] = "logged" => p.eventId # q.eventId
          BY <2>3 DEF Inv, Exclusion, InTx, q
        <4>4. pc[s] = "logged" =>
                \A e \in events' : /\ e.id # p.eventId
                                   /\ e.entityId = p.id => e.id < p.eventId
          BY <1>3, <1>4, <3>1, <4>1, <4>3 DEF RequestInv
        <4> HIDE DEF p
        <4> QED
          BY <3>1, <3>3, <4>2, <4>4 DEF RequestInv, InTx, p
      <3>4. CASE pc[s] \in {"committed", "ok"}
        <4>1. p \in Req \ {NoReq} /\ p.row \in Row /\ p.id \in Ids
          BY <3>1, <3>4 DEF TypeOK, RequestInv, Req
        <4>2. rows'[p.id].version >= p.row.version
          BY <1>2, <1>4, <1>5, <3>1, <3>4, <4>1 DEF TypeOK, RequestInv, Row, old
        <4> QED
          BY <1>4, <3>1, <3>4, <4>1, <4>2 DEF RequestInv, InTx
      <3>5. CASE pc[s] \in {"idle", "failed", "refused"}
        BY <3>1, <3>5 DEF RequestInv, InTx
      <3> QED
        BY <3>2, <3>3, <3>4, <3>5 DEF TypeOK, PcValues, InTx
    <2> QED
      BY <2>1, <2>2, <2>3
  <1> QED
    BY <1>6, <1>7, <1>8, <1>9, <1>11, <1>12, <1>13, <1>14 DEF Inv

(* Commit: the request goes on with its locals. *)
LEMMA CommitStep ==
  ASSUME TypeOK, Inv, NEW r \in Requests, Commit(r)
  PROVE  TypeOK' /\ Inv'
  <1>1. req = [req EXCEPT ![r] = req[r]]
    BY DEF TypeOK
  <1> QED
    BY <1>1, CommitEffect DEF Commit

(* CommitUnacknowledged: the request is over, its writes remain. *)
LEMMA CommitUnacknowledgedStep ==
  ASSUME TypeOK, Inv, NEW r \in Requests, CommitUnacknowledged(r)
  PROVE  TypeOK' /\ Inv'
  BY CommitEffect DEF CommitUnacknowledged

(* Requests that give up leave nothing behind: Fail, UpdateConflict,
   AmountRefused, Crash. *)
LEMMA AbandonEffect ==
  ASSUME TypeOK, Inv, NEW D \in SUBSET Requests,
         \A s \in D : pc[s] # "ok",
         pc' = [s \in Requests |-> IF s \in D THEN pc'[s] ELSE pc[s]],
         req' = [s \in Requests |-> IF s \in D THEN NoReq ELSE req[s]],
         \A s \in D : pc'[s] \in {"idle", "failed", "refused"},
         UNCHANGED <<rows, events, nextEventId, jobs>>
  PROVE  TypeOK' /\ Inv'
  <1>1. TypeOK'
    BY DEF TypeOK, PcValues, Req
  <1>2. ASSUME NEW s \in Requests PROVE RequestInv(s)'
    <2>1. CASE s \in D
      BY <2>1 DEF RequestInv, InTx
    <2>2. CASE s \notin D
      BY <2>2, OtherRequest
    <2> QED BY <2>1, <2>2
  <1>3. Exclusion'
    <2>1. \A s \in Requests : pc'[s] \in InTx => pc'[s] = pc[s] /\ req'[s] = req[s]
      BY DEF InTx
    <2> QED
      BY <2>1 DEF Inv, Exclusion
  <1>4. OutboxExact' /\ EventOrder' /\ JobsAreCovered' /\ ImportedStay' /\ IdsTaken'
    BY DEF Inv, OutboxExact, EventOrder, JobsAreCovered, ImportedStay, IdsTaken
  <1> QED
    BY <1>1, <1>2, <1>3, <1>4 DEF Inv

(* Fail, UpdateConflict and AmountRefused: the transaction rolls back. *)
LEMMA FailStep ==
  ASSUME TypeOK, Inv, NEW r \in Requests,
         Fail(r) \/ UpdateConflict(r) \/ AmountRefused(r, "idle") \/ AmountRefused(r, "read")
  PROVE  TypeOK' /\ Inv'
  <1> DEFINE D == {r}
  <1>1. /\ pc' = [s \in Requests |-> IF s \in D THEN pc'[s] ELSE pc[s]]
        /\ req' = [s \in Requests |-> IF s \in D THEN NoReq ELSE req[s]]
        /\ \A s \in D : pc[s] # "ok" /\ pc'[s] \in {"idle", "failed", "refused"}
        /\ UNCHANGED <<rows, events, nextEventId, jobs>>
    BY DEF TypeOK, Fail, UpdateConflict, AmountRefused
  <1> QED
    BY <1>1, AbandonEffect

(* Crash: every open transaction rolls back at once. *)
LEMMA CrashStep ==
  ASSUME TypeOK, Inv, Crash
  PROVE  TypeOK' /\ Inv'
  <1> DEFINE D == {s \in Requests : pc[s] # "ok"}
  <1>1. /\ pc' = [s \in Requests |-> IF s \in D THEN pc'[s] ELSE pc[s]]
        /\ req' = [s \in Requests |-> IF s \in D THEN NoReq ELSE req[s]]
        /\ \A s \in D : pc[s] # "ok" /\ pc'[s] \in {"idle", "failed", "refused"}
        /\ UNCHANGED <<rows, events, nextEventId, jobs>>
    BY DEF TypeOK, Crash
  <1> QED
    BY <1>1, AbandonEffect

(* EnqueueSyncJob and EnqueueSkipped: after the commit only the queue moves. *)
LEMMA EnqueueStep ==
  ASSUME TypeOK, Inv, NEW r \in Requests, EnqueueSyncJob(r) \/ EnqueueSkipped(r)
  PROVE  TypeOK' /\ Inv'
  <1>1. /\ pc[r] = "committed" /\ pc' = [pc EXCEPT ![r] = "ok"]
        /\ UNCHANGED <<rows, events, nextEventId, req>>
        /\ jobs' \in {jobs, Append(jobs, JobOf(r))}
    BY DEF EnqueueSyncJob, EnqueueSkipped
  <1>2. /\ req[r] \in Req \ {NoReq} /\ req[r].op \in Ops
        /\ req[r].row \in Row /\ EventOf(r) \in events
    BY <1>1 DEF TypeOK, Inv, RequestInv, Req
  <1>3. /\ JobOf(r) \in Job
        /\ EventOf(r).userId = JobOf(r).userId
        /\ EventOf(r).opType = JobOf(r).operation
        /\ EventOf(r).version = JobOf(r).sinceVersion + 1
    BY <1>2 DEF JobOf, Job, EventOf, Row
  <1>4. TypeOK'
    BY <1>1, <1>3 DEF TypeOK, PcValues
  <1>5. ASSUME NEW s \in Requests PROVE RequestInv(s)'
    <2>1. CASE s = r
      BY <1>1, <2>1 DEF TypeOK, Inv, RequestInv, InTx, EventOf
    <2>2. CASE s # r
      BY <1>1, <2>2, OtherRequest DEF TypeOK
    <2> QED BY <2>1, <2>2
  <1>6. JobsAreCovered'
    <2>1. jobs \in Seq(Job)
      BY DEF TypeOK
    <2>2. ASSUME NEW i \in DOMAIN jobs'
          PROVE  jobs'[i] = JobOf(r) \/ (i \in DOMAIN jobs /\ jobs'[i] = jobs[i])
      BY <1>1, <1>3, <2>1
    <2> QED
      BY <1>1, <1>2, <1>3, <2>2 DEF Inv, JobsAreCovered
  <1>7. Exclusion'
    BY <1>1 DEF TypeOK, Inv, Exclusion, InTx
  <1>8. OutboxExact' /\ EventOrder' /\ ImportedStay' /\ IdsTaken'
    BY <1>1 DEF Inv, OutboxExact, EventOrder, ImportedStay, IdsTaken
  <1> QED
    BY <1>4, <1>5, <1>6, <1>7, <1>8 DEF Inv

(* Every step of the write path preserves the inductive invariant. *)
LEMMA NextStep == TypeOK /\ Inv /\ [Next]_vars => TypeOK' /\ Inv'
  <1> SUFFICES ASSUME TypeOK, Inv, [Next]_vars PROVE TypeOK' /\ Inv'
    OBVIOUS
  <1>1. CASE UNCHANGED vars
    <2> /\ rows' = rows /\ events' = events /\ nextEventId' = nextEventId
        /\ jobs' = jobs /\ pc' = pc /\ req' = req
      BY <1>1 DEF vars
    <2>1. ASSUME NEW s \in Requests PROVE RequestInv(s)'
      <3>1. RequestInv(s) /\ EventOf(s)' = EventOf(s)
        BY DEF Inv, EventOf
      <3> QED
        BY <3>1 DEF RequestInv, InTx
    <2>2. TypeOK' /\ Exclusion' /\ ImportedStay' /\ IdsTaken'
      BY DEF TypeOK, Inv, Exclusion, InTx, ImportedStay, IdsTaken
    <2>3. OutboxExact' /\ EventOrder' /\ JobsAreCovered'
      BY DEF Inv, OutboxExact, EventOrder, JobsAreCovered
    <2> QED
      BY <2>1, <2>2, <2>3 DEF Inv
  <1>2. CASE Crash
    BY <1>2, CrashStep
  <1>3. ASSUME NEW r \in Requests, Start(r) PROVE TypeOK' /\ Inv'
    BY <1>3, CreateStep, LoadExistingStep, SoftDeleteStep, FailStep DEF Start
  <1>4. ASSUME NEW r \in Requests, Proceed(r) PROVE TypeOK' /\ Inv'
    BY <1>4, UpdateStep, FailStep, InsertEventStep, CommitStep, EnqueueStep
       DEF Proceed
  <1>5. ASSUME NEW r \in Requests, Interrupt(r) PROVE TypeOK' /\ Inv'
    BY <1>5, FailStep, CommitUnacknowledgedStep DEF Interrupt
  <1> QED
    BY <1>1, <1>2, <1>3, <1>4, <1>5 DEF Next

(* The view of every request in flight agrees with the committed tables: the
   inductive invariant, for any number of requests, rows, users and amounts
   (RunInTx: what a request read, holds and took until it commits). *)
THEOREM InvHolds == Spec => [](TypeOK /\ Inv)
  BY InitInv, NextStep, PTL DEF Spec

-----------------------------------------------------------------------------
(* The variables of the write path keep their types. *)
THEOREM TypeCorrect == Spec => []TypeOK
  BY InvHolds, PTL

(* The change events of a row are exactly its versions, the newest describing
   the row: no mutation without its event and no event without its mutation,
   through races, rollbacks, lost acknowledgements and crashes (RunInTx). *)
THEOREM OutboxIsExact == Spec => []OutboxExact
  <1>1. Inv => OutboxExact
    BY DEF Inv
  <1> QED
    BY <1>1, InvHolds, PTL

(* Ids of change events are unique and grow with the versions of a row. *)
THEOREM EventsAreOrdered == Spec => []EventOrder
  <1>1. Inv => EventOrder
    BY DEF Inv
  <1> QED
    BY <1>1, InvHolds, PTL

(* UpdateTransaction's version check makes a stale copy harmless. *)
THEOREM NoUpdateIsLost == Spec => []NoLostUpdate
  <1>1. Inv => NoLostUpdate
    BY DEF Inv, RequestInv, NoLostUpdate
  <1> QED
    BY <1>1, InvHolds, PTL

(* A request that was answered with success is in the table and the log. *)
THEOREM AckedStaysDurable == Spec => []AckedIsDurable
  <1>1. Inv => AckedIsDurable
    BY DEF Inv, RequestInv, AckedIsDurable
  <1> QED
    BY <1>1, InvHolds, PTL

(* Each sync job on the stream is covered by a committed change event. *)
THEOREM JobsStayCovered == Spec => []JobsAreCovered
  <1>1. Inv => JobsAreCovered
    BY DEF Inv
  <1> QED
    BY <1>1, InvHolds, PTL

-----------------------------------------------------------------------------
(* Only a commit touches the table or the log, and it replaces the row the
   request holds. *)
LEMMA OnlyCommitsWrite ==
  ASSUME [Next]_vars
  PROVE  \/ UNCHANGED <<rows, events>>
         \/ \E r \in Requests : pc[r] = "logged" /\ MakeVisible(r)
  BY DEF Next, vars, Crash, Start, Proceed, Interrupt, CreateTransaction,
         LoadExisting, SoftDeleteTransaction, UpdateTransaction, UpdateConflict,
         AmountRefused, InsertChangeEvent, Commit, CommitUnacknowledged, Fail,
         EnqueueSyncJob, EnqueueSkipped

(* What is known of a request that is about to commit. *)
LEMMA Committing ==
  ASSUME TypeOK, Inv, NEW r \in Requests, pc[r] = "logged"
  PROVE  LET q == req[r]
             old == rows[q.id]
         IN  /\ q \in Req \ {NoReq} /\ q.id \in Ids /\ q.op \in Ops
             /\ q.row \in Row
             /\ q.row.version = old.version + 1
             /\ q.op = "create" => old = NoRow /\ q.row.deleted = "zero"
             /\ q.op # "create" => old \in Row /\ Live(old) /\ q.row.user = old.user
             /\ q.op = "update" => q.row.deleted = "null"
             /\ q.op = "delete" =>
                   q.row = [old EXCEPT !.version = @ + 1, !.deleted = "set"]
  <1>1. RequestInv(r) /\ req[r] \in Req \ {NoReq}
    BY DEF TypeOK, Inv, RequestInv
  <1>2. req[r].id \in Ids /\ req[r].op \in Ops
    BY <1>1 DEF Req
  <1>3. Live(rows[req[r].id]) => rows[req[r].id] \in Row
    BY <1>2 DEF TypeOK, Live
  <1> QED
    BY <1>1, <1>2, <1>3 DEF RequestInv, InTx

(* A deleted row never changes again, although UPDATE does not look at
   deleted_at: the deletion's version bump defeats every older copy. *)
THEOREM DeletedStaysFinal == Spec => DeletedIsFinal
  <1>1. ASSUME TypeOK, Inv, [Next]_vars
        PROVE  \A id \in Ids : rows[id] # NoRow /\ rows[id].deleted = "set"
                                  => rows'[id] = rows[id]
    <2>1. CASE UNCHANGED <<rows, events>>
      BY <2>1
    <2>2. ASSUME NEW r \in Requests, pc[r] = "logged", MakeVisible(r)
          PROVE  \A id \in Ids : rows[id] # NoRow /\ rows[id].deleted = "set"
                                    => rows'[id] = rows[id]
      <3>1. rows[req[r].id] = NoRow \/ Live(rows[req[r].id])
        BY <1>1, <2>2, Committing
      <3> QED
        BY <1>1, <2>2, <3>1 DEF MakeVisible, TypeOK, Live
    <2> QED
      BY <1>1, <2>1, <2>2, OnlyCommitsWrite
  <1> QED
    BY <1>1, InvHolds, PTL DEF Spec, DeletedIsFinal

-----------------------------------------------------------------------------
(* A commit adds its event, without the serial id, to the abstract log. *)
LEMMA LogGrows ==
  ASSUME NEW r \in Requests, MakeVisible(r)
  PROVE  Log' = Log \cup {L!Entry(req[r].id, req[r].op, req[r].row)}
  <1> DEFINE Strip(e) ==
               [entityId |-> e.entityId, opType |-> e.opType, userId |-> e.userId,
                version |-> e.version, amount |-> e.amount, currency |-> e.currency]
  <1>1. Strip(EventOf(r)) = L!Entry(req[r].id, req[r].op, req[r].row)
    BY DEF EventOf, L!Entry
  <1>2. Log = {Strip(e) : e \in events} /\ Log' = {Strip(e) : e \in events'}
    BY DEF Log
  <1>3. events' = events \cup {EventOf(r)}
    BY DEF MakeVisible
  <1> HIDE DEF Strip
  <1> QED
    BY <1>1, <1>2, <1>3

(* A commit is one step of the abstract ledger. *)
LEMMA CommitIsLedgerStep ==
  ASSUME TypeOK, Inv, NEW r \in Requests, pc[r] = "logged", MakeVisible(r)
  PROVE  L!Next
  <1> DEFINE q == req[r]
             id == q.id
             old == rows[id]
             new == q.row
  <1>1. /\ id \in Ids /\ q.op \in Ops /\ new \in Row
        /\ new.version = old.version + 1
        /\ q.op = "create" => old = NoRow /\ new.deleted = "zero"
        /\ q.op # "create" => old \in Row /\ Live(old) /\ new.user = old.user
        /\ q.op = "update" => new.deleted = "null"
        /\ q.op = "delete" => new = [old EXCEPT !.version = @ + 1, !.deleted = "set"]
    BY Committing
  <1>2. L!Record(id, q.op, new)
    BY LogGrows DEF L!Record, MakeVisible
  <1>3. L!NoRow = NoRow /\ (L!Live(old) <=> Live(old))
    BY DEF L!NoRow, NoRow, L!Live, Live
  <1> HIDE DEF q, id, old, new
  <1>4. CASE q.op = "create"
    <2>1. new = [user |-> new.user, amount |-> new.amount, currency |-> new.currency,
                 version |-> 1, deleted |-> "zero"]
      BY <1>1, <1>4, NoRowIsNoRow DEF Row
    <2>2. L!Insert(id, new.user, new.amount, new.currency, "zero")
      BY <1>1, <1>2, <1>3, <1>4, <2>1 DEF L!Insert, old
    <2>3. new.user \in Users /\ new.amount \in Amounts /\ new.currency \in Currencies
      BY <1>1 DEF Row
    <2> QED
      BY <1>1, <2>2, <2>3 DEF L!Next
  <1>5. CASE q.op = "update"
    <2>1. new = [old EXCEPT !.amount = new.amount, !.currency = new.currency,
                            !.version = @ + 1]
      BY <1>1, <1>5 DEF Row, Live
    <2>2. L!Amend(id, new.amount, new.currency)
      BY <1>1, <1>2, <1>3, <1>5, <2>1 DEF L!Amend, old
    <2>3. new.amount \in Amounts /\ new.currency \in Currencies
      BY <1>1 DEF Row
    <2> QED
      BY <1>1, <2>2, <2>3 DEF L!Next
  <1>6. CASE q.op = "delete"
    <2>1. L!Remove(id)
      BY <1>1, <1>2, <1>3, <1>6 DEF L!Remove, old
    <2> QED
      BY <1>1, <2>1 DEF L!Next
  <1> QED
    BY <1>1, <1>4, <1>5, <1>6 DEF Ops

(* The write path implements the abstract ledger: seen through the committed
   table and log, every create, update and delete is one indivisible step,
   whatever the interleaving, the failures and the crashes. *)
THEOREM ImplementsLedger == Spec => LedgerSpec
  <1>1. Init => L!Init
    <2> SUFFICES ASSUME Init PROVE L!Init
      OBVIOUS
    <2>1. PICK imported \in [Imported -> ImportedRow] :
            rows = [id \in Ids |-> IF id \in Imported THEN imported[id] ELSE NoRow]
      BY DEF Init
    <2>2. L!NoRow = NoRow /\ L!FirstRow = ImportedRow
      BY DEF L!NoRow, NoRow, L!FirstRow, ImportedRow
    <2>3. rows \in [Ids -> L!FirstRow \cup {L!NoRow}]
      BY <2>1, <2>2
    <2> QED
      BY <2>3 DEF Init, L!Init, Log
  <1>2. TypeOK /\ Inv /\ [Next]_vars => [L!Next]_(L!vars)
    <2> SUFFICES ASSUME TypeOK, Inv, [Next]_vars PROVE L!Next \/ UNCHANGED L!vars
      OBVIOUS
    <2>1. CASE UNCHANGED <<rows, events>>
      BY <2>1 DEF L!vars, Log
    <2>2. CASE \E r \in Requests : pc[r] = "logged" /\ MakeVisible(r)
      BY <2>2, CommitIsLedgerStep
    <2> QED
      BY <2>1, <2>2, OnlyCommitsWrite
  <1> QED
    BY <1>1, <1>2, InvHolds, PTL DEF Spec, LedgerSpec, L!Spec
=============================================================================
