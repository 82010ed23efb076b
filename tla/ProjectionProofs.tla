-------------------------- MODULE ProjectionProofs --------------------------
(***************************************************************************)
(* Proofs about module Projection, for any number of requests, runners and *)
(* events. The write path's invariant is taken from TransactionsProofs;    *)
(* what is added is that a runner has only done or late events behind it.  *)
(*                                                                         *)
(* A run bounds the ids of change events by EventIds. Every theorem is     *)
(* about behaviours in which the bound is not reached, [] IdsFit; with all *)
(* ids of a BIGSERIAL column that is no restriction (IdsSuffice).          *)
(***************************************************************************)
EXTENDS Projection, TransactionsProofs, FiniteSetTheorems

(* A batch is read from the cursor on, first processor first. *)
LEMMA PollingType ==
  /\ Polling \in Runner /\ Polling.stage = "poll"
  /\ \A i \in Nat : LET l == [Polling EXCEPT !.stage = "list", !.lastID = i]
                    IN  /\ l \in Runner /\ l.stage = "list" /\ l.lastID = i
                        /\ l.todo = {} /\ l.proc = Summary /\ l.maxID = 0
  BY DEF Polling, Runner, Processors

(* The invariant holds at first: no event, nothing read. *)
LEMMA SysInitInv == SysInit => SysTypeOK /\ SysInv
  <1> SUFFICES ASSUME SysInit PROVE SysTypeOK /\ SysInv
    OBVIOUS
  <1>1. TypeOK /\ Inv /\ events = {}
    BY InitInv DEF SysInit, Init
  <1>2. /\ cursor = [n \in Names |-> 0] /\ runner = [w \in Runners |-> Polling]
        /\ applied = [p \in Processors |-> [i \in EventIds |-> 0]]
        /\ late = {} /\ failures = 0
    BY DEF SysInit, RunnerInit
  <1>3. \A p \in Processors, i \in EventIds : applied[p][i] = 0
    BY <1>2
  <1>4. SysTypeOK
    <2>1. applied \in [Processors -> [EventIds -> Nat]]
      BY <1>2
    <2>2. runner \in [Runners -> Runner] /\ cursor \in [Names -> Nat]
      BY <1>2, PollingType
    <2>3. failures \in 0..MaxFailures
      BY <1>2, RunnerAssumption
    <2> QED
      BY <1>1, <1>2, <2>1, <2>2, <2>3 DEF SysTypeOK, IdsFit
  <1>5. \A n \in Names : DoneUpTo(cursor[n])
    BY <1>1, <1>2 DEF DoneUpTo
  <1>6. AppliedInOrder /\ OnlyEvents
    BY <1>1, <1>2 DEF AppliedInOrder, OnlyEvents
  <1>7. \A w \in Runners : LoopInv(w)
    BY <1>2, PollingType DEF LoopInv
  <1>8. AloneInv
    <2>1. \A p \in Processors, i \in EventIds : ~(applied[p][i] > failures)
      BY <1>3, <1>2
    <2>2. \A w \in Runners : runner[w].stage = "poll"
      BY <1>2, PollingType
    <2> QED
      BY <2>1, <2>2 DEF AloneInv
  <1>9. IsFiniteSet(events)
    BY <1>1, FS_EmptySet
  <1> QED
    BY <1>1, <1>4, <1>5, <1>6, <1>7, <1>8, <1>9 DEF SysInv

-----------------------------------------------------------------------------
(* Steps of the write path. *)

(* Change events are only ever added, one at a time. *)
LEMMA EventsGrow ==
  ASSUME [Next]_vars, IsFiniteSet(events)
  PROVE  events \subseteq events' /\ IsFiniteSet(events')
  <1>1. CASE UNCHANGED events
    BY <1>1
  <1>2. CASE \E r \in Requests : events' = events \cup {EventOf(r)}
    BY <1>2, FS_AddElement
  <1> QED
    BY <1>1, <1>2, OnlyCommitsWrite DEF MakeVisible

(* Ids are positive, and no two events have one. *)
LEMMA IdsAreUnique ==
  ASSUME TypeOK, Inv
  PROVE  \A e \in events : e.id \in Nat \ {0} /\ \A f \in events : e.id = f.id => e = f
  BY DEF TypeOK, Inv, EventOrder, Event

(* The runners' state does not change while the API commits, and an event    *)
(* that appears behind another is late: whoever has passed that place need   *)
(* not have done it.                                                         *)
LEMMA ApiStepInv ==
  ASSUME SysTypeOK, SysInv, ApiStep, IdsFit'
  PROVE  SysTypeOK' /\ SysInv'
  <1>1. TypeOK /\ Inv /\ IsFiniteSet(events) /\ Next
    BY DEF SysTypeOK, SysInv, ApiStep
  <1>2. TypeOK' /\ Inv'
    BY <1>1, NextStep
  <1>3. events \subseteq events' /\ IsFiniteSet(events')
    BY <1>1, EventsGrow
  <1>4. UNCHANGED <<cursor, applied, runner, failures>>
    BY DEF ApiStep, runnerVars
  <1>5. /\ \A e \in events : e.id \in Nat \ {0}
        /\ \A e, f \in events' : e.id \in Nat \ {0} /\ (e.id = f.id => e = f)
    <2>1. (\A e \in events : e.id \in Nat \ {0} /\ \A f \in events : e.id = f.id => e = f)'
      BY <1>2, IdsAreUnique, PTL
    <2> QED
      BY <1>1, <2>1, IdsAreUnique
  <1>6. late' = late \cup {e.id : e \in {d \in events' \ events : \E f \in events : f.id > d.id}}
    BY DEF ApiStep
  <1>7. late \subseteq late' /\ \A e \in events' \ events, f \in events : e.id <= f.id => e.id \in late'
    BY <1>3, <1>5, <1>6
  <1>8. late' \subseteq EventIds
    BY <1>6 DEF SysTypeOK, IdsFit
  <1>9. SysTypeOK'
    BY <1>2, <1>4, <1>8 DEF SysTypeOK
  <1>10. \A e : Done(e) => Done(e)'
    BY <1>4, <1>7 DEF Done
  <1>11. ASSUME NEW i \in Nat, DoneUpTo(i) PROVE DoneUpTo(i)'
    <2>1. ASSUME NEW e \in events', e.id <= i PROVE Done(e)'
      <3>1. CASE e \in events
        BY <3>1, <2>1, <1>10, <1>11 DEF DoneUpTo
      <3>2. CASE e \notin events
        <4>1. PICK f \in events : f.id = i
          BY <2>1, <1>5, <1>11 DEF DoneUpTo
        <4> QED
          BY <4>1, <3>2, <2>1, <1>7 DEF Done
      <3> QED
        BY <3>1, <3>2
    <2> QED
      BY <2>1, <1>3, <1>11 DEF DoneUpTo
  <1>12. ASSUME NEW n \in Names PROVE DoneUpTo(cursor[n])'
    BY <1>4, <1>11 DEF SysInv, SysTypeOK, DoneUpTo
  <1>13. OnlyEvents'
    BY <1>3, <1>4 DEF SysInv, OnlyEvents
  <1>14. AppliedInOrder'
    <2> SUFFICES ASSUME NEW e \in events', NEW f \in events',
                        NEW p \in Processors, NEW q \in Processors,
                        e.id < f.id, e.id \notin late', applied[p][f.id] > 0
                 PROVE  applied[q][e.id] > 0
      BY <1>4 DEF AppliedInOrder
    <2>1. f \in events
      <3>1. f.id \in EventIds
        BY DEF IdsFit
      <3>2. PICK g \in events : g.id = f.id
        BY <3>1 DEF SysInv, OnlyEvents
      <3> QED
        BY <3>2, <1>3, <1>5
    <2>2. e \in events
      BY <2>1, <1>5, <1>7
    <2> QED
      BY <2>1, <2>2, <1>7 DEF SysInv, AppliedInOrder
  <1>15. ASSUME NEW w \in Runners PROVE LoopInv(w)'
    <2> DEFINE l == runner[w]
    <2>1. LoopInv(w) /\ l \in Runner /\ runner'[w] = l
      BY <1>4 DEF SysInv, SysTypeOK
    <2>2. l.lastID \in Nat /\ l.maxID \in Nat
      BY <2>1 DEF Runner
    <2>3. /\ l.stage # "poll" => DoneUpTo(l.lastID)'
          /\ l.stage = "advance" => l.maxID > l.lastID /\ DoneUpTo(l.maxID)'
      BY <2>1, <2>2, <1>4, <1>11 DEF LoopInv, DoneUpTo
    <2>4. ASSUME l.stage = "process", NEW e \in events' \ l.todo, NEW f \in l.todo, e.id < f.id
          PROVE  Done(e)'
      <3>1. f \in events
        BY <2>1, <2>4 DEF LoopInv
      <3>2. CASE e \in events
        BY <2>1, <2>4, <3>1, <3>2, <1>10 DEF LoopInv
      <3>3. CASE e \notin events
        BY <2>4, <3>1, <3>3, <1>3, <1>5, <1>7 DEF Done
      <3> QED
        BY <3>2, <3>3
    <2>5. l.stage = "process" => l.todo \subseteq events'
      BY <2>1, <1>3 DEF LoopInv
    <2> QED
      BY <2>1, <2>3, <2>4, <2>5, <1>4 DEF LoopInv, DoneUpTo
  <1>16. OneRunner => AloneInv'
    BY <1>4 DEF SysInv, AloneInv, AddedSince
  <1> QED
    BY <1>2, <1>3, <1>9, <1>12, <1>13, <1>14, <1>15, <1>16 DEF SysInv, OneRunner

-----------------------------------------------------------------------------
(* Steps of a runner. *)

(* Counts in the read models never go down. *)
Grows == \A p \in Processors, i \in EventIds : applied'[p][i] >= applied[p][i]

(* What was done stays done. *)
LEMMA DoneStays ==
  ASSUME SysTypeOK, Grows, applied' \in [Processors -> [EventIds -> Nat]],
         UNCHANGED <<events, late>>
  PROVE  /\ \A e \in events : Done(e) => Done(e)'
         /\ \A i \in Nat : DoneUpTo(i) => DoneUpTo(i)'
  <1>1. ASSUME NEW e \in events, Done(e) PROVE Done(e)'
    <2>1. e.id \in EventIds
      BY DEF SysTypeOK, IdsFit
    <2>2. \A p \in Processors : /\ applied[p][e.id] \in Nat /\ applied'[p][e.id] \in Nat
                                /\ applied'[p][e.id] >= applied[p][e.id]
      BY <2>1 DEF SysTypeOK, Grows
    <2> QED
      BY <1>1, <2>2 DEF Done
  <1> QED
    BY <1>1 DEF DoneUpTo

(* A runner's step keeps the invariant when the runner keeps its own part. *)
LEMMA RunnerFrame ==
  ASSUME SysTypeOK, SysInv, NEW w \in Runners, NEW l \in Runner,
         runner' = [runner EXCEPT ![w] = l], UNCHANGED <<vars, late>>, Grows,
         applied' \in [Processors -> [EventIds -> Nat]],
         cursor' \in [Names -> Nat], failures' \in 0..MaxFailures,
         \A n \in Names : cursor'[n] = cursor[n] \/ DoneUpTo(cursor'[n]),
         AppliedInOrder', OnlyEvents', LoopInv(w)', OneRunner => AloneInv'
  PROVE  SysTypeOK' /\ SysInv'
  <1>1. UNCHANGED <<rows, events, nextEventId, jobs, pc, req>> /\ late' = late
    BY DEF vars
  <1>2. TypeOK' /\ Inv'
    BY NextStep DEF SysTypeOK, SysInv
  <1>3. SysTypeOK'
    BY <1>1, <1>2 DEF SysTypeOK, IdsFit
  <1>4. /\ \A e \in events : Done(e) => Done(e)'
        /\ \A i \in Nat : DoneUpTo(i) => DoneUpTo(i)'
    BY <1>1, DoneStays
  <1>5. ASSUME NEW n \in Names PROVE DoneUpTo(cursor[n])'
    <2>1. DoneUpTo(cursor'[n]) /\ cursor'[n] \in Nat
      BY DEF SysInv
    <2> QED
      BY <2>1, <1>1, <1>4 DEF DoneUpTo
  <1>6. ASSUME NEW v \in Runners PROVE LoopInv(v)'
    <2>1. CASE v = w
      BY <2>1
    <2>2. CASE v # w
      <3> DEFINE k == runner[v]
      <3>1. LoopInv(v) /\ k \in Runner /\ runner'[v] = k
        BY <2>2 DEF SysInv, SysTypeOK
      <3>2. k.lastID \in Nat /\ k.maxID \in Nat
        BY <3>1 DEF Runner
      <3>3. /\ k.stage # "poll" => DoneUpTo(k.lastID)'
            /\ k.stage = "advance" => k.maxID > k.lastID /\ DoneUpTo(k.maxID)'
        BY <3>1, <3>2, <1>1, <1>4 DEF LoopInv, DoneUpTo
      <3>4. k.stage = "process" =>
              /\ k.todo # {} /\ k.todo \subseteq events'
              /\ \A e \in k.todo : e.id > k.lastID /\ e.id > k.maxID
              /\ \A e \in events' \ k.todo, f \in k.todo : e.id < f.id => Done(e)'
        BY <3>1, <1>1, <1>4 DEF LoopInv
      <3>5. ASSUME k.stage = "process", k.proc = Balance, NEW e \in k.todo, IsFirst(e, k.todo)
            PROVE  applied'[Summary][e.id] > 0
        <4>1. applied[Summary][e.id] > 0 /\ e.id \in EventIds /\ Summary \in Processors
          BY <3>1, <3>5 DEF LoopInv, SysTypeOK, IdsFit, Processors
        <4>2. /\ applied[Summary][e.id] \in Nat /\ applied'[Summary][e.id] \in Nat
              /\ applied'[Summary][e.id] >= applied[Summary][e.id]
          BY <4>1 DEF SysTypeOK, Grows
        <4> QED
          BY <4>1, <4>2
      <3>6. k.stage = "list" => k = [Polling EXCEPT !.stage = "list", !.lastID = k.lastID]
        BY <3>1 DEF LoopInv
      <3> QED
        BY <3>1, <3>3, <3>4, <3>5, <3>6 DEF LoopInv, DoneUpTo
    <2> QED
      BY <2>1, <2>2
  <1> QED
    BY <1>1, <1>2, <1>3, <1>5, <1>6 DEF SysInv, OneRunner

(* With one runner, what holds of it is all there is to show. *)
LEMMA OnlyRunner ==
  ASSUME OneRunner, NEW w \in Runners
  PROVE  Runners = {w}
  BY DEF OneRunner

(* Without a change in the read models their part is kept. *)
LEMMA ModelsStay ==
  ASSUME SysTypeOK, SysInv, UNCHANGED <<vars, late, applied>>
  PROVE  /\ AppliedInOrder' /\ OnlyEvents' /\ Grows
         /\ applied' \in [Processors -> [EventIds -> Nat]]
  <1>1. events' = events /\ late' = late /\ applied' = applied
    BY DEF vars
  <1> QED
    BY <1>1 DEF SysTypeOK, SysInv, AppliedInOrder, OnlyEvents, Grows

(* Reading the cursor: everything up to it is done. *)
LEMMA GetCursorStep ==
  ASSUME SysTypeOK, SysInv, NEW w \in Runners, GetCursor(w), UNCHANGED <<vars, late>>
  PROVE  SysTypeOK' /\ SysInv'
  <1> DEFINE l == [Polling EXCEPT !.stage = "list", !.lastID = cursor[Name[w]]]
  <1>1. Name[w] \in Names /\ cursor[Name[w]] \in Nat /\ DoneUpTo(cursor[Name[w]])
    BY RunnerAssumption DEF SysTypeOK, SysInv
  <1>2. /\ l \in Runner /\ l.stage = "list" /\ l.lastID = cursor[Name[w]]
        /\ l.todo = {} /\ l.proc = Summary /\ l.maxID = 0
    BY <1>1, PollingType
  <1>3. /\ runner' = [runner EXCEPT ![w] = l] /\ runner[w].stage = "poll"
        /\ UNCHANGED <<cursor, applied, failures>>
    BY DEF GetCursor
  <1>4. runner'[w] = l /\ l = [Polling EXCEPT !.stage = "list", !.lastID = l.lastID]
    BY <1>2, <1>3 DEF SysTypeOK
  <1> HIDE DEF l
  <1>5. events' = events /\ late' = late
    BY DEF vars
  <1>6. AppliedInOrder' /\ OnlyEvents' /\ Grows
        /\ applied' \in [Processors -> [EventIds -> Nat]]
    BY <1>3, ModelsStay
  <1>7. LoopInv(w)'
    <2>1. DoneUpTo(l.lastID)
      BY <1>1, <1>2
    <2>2. (DoneUpTo(runner[w].lastID))'
      BY <2>1, <1>3, <1>4, <1>5 DEF DoneUpTo, Done
    <2> QED
      BY <2>2, <1>2, <1>4 DEF LoopInv
  <1>8. OneRunner => AloneInv'
    <2> SUFFICES ASSUME OneRunner PROVE AloneInv'
      OBVIOUS
    <2>1. Runners = {w} /\ AloneInv
      BY OnlyRunner DEF SysInv
    <2>2. \A p, i : AddedSince(w, p, i) => i <= cursor[Name[w]]
      BY <1>3 DEF AddedSince
    <2>3. \A p, i : i <= cursor[Name[w]] => AddedSince(w, p, i)'
      BY <1>3 DEF AddedSince
    <2> QED
      BY <2>1, <2>2, <2>3, <1>2, <1>3, <1>4 DEF AloneInv
  <1> QED
    BY <1>2, <1>3, <1>6, <1>7, <1>8, RunnerFrame DEF SysTypeOK

(* A page is a prefix of what is there past the cursor: LIMIT cuts it off at *)
(* the end of ORDER BY id.                                                   *)
LEMMA PageIsPrefix ==
  ASSUME TypeOK, Inv, IsFiniteSet(events), NEW since \in Nat,
         NEW e \in EventsSince(since), NEW d \in events, d.id > since, d.id <= e.id
  PROVE  d \in EventsSince(since)
  <1> DEFINE Upto(x) == {f \in events : f.id > since /\ f.id <= x.id}
  <1>1. \A f \in events : f.id \in Nat
    BY IdsAreUnique
  <1>2. e \in events /\ Cardinality(Upto(e)) <= BatchSize
    BY DEF EventsSince
  <1>3. Upto(d) \subseteq Upto(e)
    BY <1>1, <1>2
  <1>4. IsFiniteSet(Upto(e))
    BY FS_Subset
  <1>5. IsFiniteSet(Upto(d)) /\ Cardinality(Upto(d)) <= Cardinality(Upto(e))
    BY <1>3, <1>4, FS_Subset
  <1>6. Cardinality(Upto(e)) \in Nat /\ Cardinality(Upto(d)) \in Nat
    BY <1>4, <1>5, FS_CardinalityType
  <1>7. Cardinality(Upto(d)) <= BatchSize
    BY <1>2, <1>5, <1>6, RunnerAssumption
  <1> QED
    BY <1>7 DEF EventsSince

(* Reading a batch. *)
LEMMA ListSinceStep ==
  ASSUME SysTypeOK, SysInv, NEW w \in Runners, ListSince(w), UNCHANGED <<vars, late>>
  PROVE  SysTypeOK' /\ SysInv'
  <1> DEFINE k == runner[w]
             batch == EventsSince(k.lastID)
             l == IF batch = {} THEN Polling
                  ELSE [k EXCEPT !.stage = "process", !.todo = batch]
  <1>1. /\ runner' = [runner EXCEPT ![w] = l] /\ k.stage = "list" /\ k \in Runner
        /\ UNCHANGED <<cursor, applied, failures>>
    BY DEF ListSince, SysTypeOK
  <1>2. LoopInv(w) /\ TypeOK /\ Inv /\ IsFiniteSet(events)
    BY DEF SysInv, SysTypeOK
  <1>3. k.lastID \in Nat /\ k.todo = {} /\ k.proc = Summary /\ k.maxID = 0 /\ DoneUpTo(k.lastID)
    <2>1. k.lastID \in Nat
      BY <1>1 DEF Runner
    <2> QED
      BY <1>1, <1>2, <2>1, PollingType DEF LoopInv
  <1>4. batch \subseteq events /\ batch \subseteq Event /\ \A e \in batch : e.id > k.lastID
    BY <1>2 DEF EventsSince, TypeOK
  <1>5. l \in Runner
    BY <1>1, <1>4, PollingType DEF Runner
  <1>6. batch # {} => /\ l.stage = "process" /\ l.todo = batch /\ l.lastID = k.lastID
                      /\ l.proc = Summary /\ l.maxID = 0
    BY <1>1, <1>3 DEF Runner
  <1>7. batch = {} => l = Polling
    OBVIOUS
  <1>8. ASSUME NEW e \in events \ batch, NEW f \in batch, e.id < f.id PROVE Done(e)
    <2>1. e.id \in Nat /\ f.id \in Nat
      BY <1>2, <1>4, IdsAreUnique
    <2>2. ~(e.id > k.lastID)
      BY <1>2, <1>3, <1>8, <2>1, PageIsPrefix
    <2> QED
      BY <2>1, <2>2, <1>3 DEF DoneUpTo
  <1>9. \A e \in batch : e.id > 0
    BY <1>2, <1>4, IdsAreUnique
  <1>10. runner'[w] = l
    BY <1>1 DEF SysTypeOK
  <1> HIDE DEF batch, l
  <1>11. events' = events /\ late' = late
    BY DEF vars
  <1>12. AppliedInOrder' /\ OnlyEvents' /\ Grows
         /\ applied' \in [Processors -> [EventIds -> Nat]]
    BY <1>1, ModelsStay
  <1>13. LoopInv(w)'
    <2>1. CASE batch = {}
      BY <2>1, <1>7, <1>10, PollingType DEF LoopInv
    <2>2. CASE batch # {}
      <3>1. (DoneUpTo(runner[w].lastID))'
        BY <2>2, <1>1, <1>3, <1>6, <1>10, <1>11 DEF DoneUpTo, Done
      <3>2. \A e \in events' \ batch, f \in batch : e.id < f.id => Done(e)'
        BY <1>1, <1>8, <1>11 DEF Done
      <3>3. Summary # Balance
        BY DEF Summary, Balance
      <3> QED
        BY <2>2, <3>1, <3>2, <3>3, <1>4, <1>6, <1>9, <1>10, <1>11 DEF LoopInv
    <2> QED
      BY <2>1, <2>2
  <1>14. OneRunner => AloneInv'
    <2> SUFFICES ASSUME OneRunner PROVE AloneInv'
      OBVIOUS
    <2>1. Runners = {w} /\ AloneInv
      BY OnlyRunner DEF SysInv
    <2>2. \A p, i : AddedSince(w, p, i) => i <= cursor[Name[w]]
      BY <1>1 DEF AddedSince
    <2>3. \A p, i : i <= cursor[Name[w]] => AddedSince(w, p, i)'
      BY <1>1 DEF AddedSince
    <2>4. l.stage # "poll" => l.lastID = cursor[Name[w]]
      BY <2>1, <1>1, <1>6, <1>7, PollingType DEF AloneInv
    <2> QED
      BY <2>1, <2>2, <2>3, <2>4, <1>1, <1>10 DEF AloneInv
  <1> QED
    BY <1>1, <1>5, <1>12, <1>13, <1>14, RunnerFrame DEF SysTypeOK

(* A failure pays for one more addition of every event. *)
LEMMA FailurePays ==
  ASSUME SysTypeOK, NEW w \in Runners, runner' = [runner EXCEPT ![w] = Polling],
         failures' = failures + 1,
         \A p \in Processors, i \in EventIds : applied'[p][i] <= failures + 1,
         applied' \in [Processors -> [EventIds -> Nat]], OneRunner
  PROVE  AloneInv'
  <1>1. Runners = {w} /\ runner'[w].stage = "poll"
    BY OnlyRunner, PollingType DEF SysTypeOK
  <1>2. \A p \in Processors, i \in EventIds : ~(applied'[p][i] > failures')
    BY RunnerAssumption DEF SysTypeOK
  <1> QED
    BY <1>1, <1>2 DEF AloneInv

(* Nothing is added more than once more often than something failed. *)
LEMMA AloneBound ==
  ASSUME SysTypeOK, AloneInv
  PROVE  \A p \in Processors, i \in EventIds : applied[p][i] <= failures + 1
  <1> SUFFICES ASSUME NEW p \in Processors, NEW i \in EventIds
               PROVE  applied[p][i] <= failures + 1
    OBVIOUS
  <1>1. applied[p][i] \in Nat /\ failures \in Nat
    BY RunnerAssumption DEF SysTypeOK
  <1> QED
    BY <1>1 DEF AloneInv

(* A batch that is given up leaves no trace but what it added. *)
LEMMA GiveUpStep ==
  ASSUME SysTypeOK, SysInv, NEW w \in Runners, GiveUp(w), UNCHANGED <<vars, late>>
  PROVE  SysTypeOK' /\ SysInv'
  <1>1. /\ runner' = [runner EXCEPT ![w] = Polling] /\ UNCHANGED <<cursor, applied>>
        /\ failures' = failures + 1 /\ failures < MaxFailures
    BY DEF GiveUp
  <1>2. AppliedInOrder' /\ OnlyEvents' /\ Grows
        /\ applied' \in [Processors -> [EventIds -> Nat]]
    BY <1>1, ModelsStay
  <1>3. LoopInv(w)'
    <2>1. runner'[w] = Polling
      BY <1>1 DEF SysTypeOK
    <2> QED
      BY <2>1, PollingType DEF LoopInv
  <1>4. OneRunner => AloneInv'
    BY <1>1, <1>2, FailurePays, AloneBound DEF SysInv
  <1>5. failures' \in 0..MaxFailures
    BY <1>1, RunnerAssumption DEF SysTypeOK
  <1> QED
    BY <1>1, <1>2, <1>3, <1>4, <1>5, PollingType, RunnerFrame DEF SysTypeOK

(* Storing the cursor after a whole batch: all of it is done. *)
LEMMA SetStep ==
  ASSUME SysTypeOK, SysInv, NEW w \in Runners, SetCursor(w) \/ SetUnacknowledged(w),
         UNCHANGED <<vars, late>>
  PROVE  SysTypeOK' /\ SysInv' /\ (OneRunner => \A n \in Names : cursor'[n] >= cursor[n])
  <1> DEFINE k == runner[w]
  <1>1. /\ runner' = [runner EXCEPT ![w] = Polling] /\ applied' = applied
        /\ cursor' = [cursor EXCEPT ![Name[w]] = k.maxID] /\ k.stage = "advance"
        /\ failures' = failures \/ (failures' = failures + 1 /\ failures < MaxFailures)
    BY DEF SetCursor, SetUnacknowledged
  <1>2. /\ k.maxID \in Nat /\ k.lastID \in Nat /\ k.maxID > k.lastID /\ DoneUpTo(k.maxID)
        /\ Name[w] \in Names
    BY <1>1, RunnerAssumption DEF SysTypeOK, SysInv, LoopInv, Runner
  <1>3. runner'[w] = Polling
    BY <1>1 DEF SysTypeOK
  <1>4. /\ cursor' \in [Names -> Nat] /\ cursor'[Name[w]] = k.maxID
        /\ \A n \in Names \ {Name[w]} : cursor'[n] = cursor[n]
    BY <1>1, <1>2 DEF SysTypeOK
  <1>5. AppliedInOrder' /\ OnlyEvents' /\ Grows
        /\ applied' \in [Processors -> [EventIds -> Nat]]
    BY <1>1, ModelsStay
  <1>6. LoopInv(w)'
    BY <1>3, PollingType DEF LoopInv
  <1>7. \A n \in Names : cursor'[n] = cursor[n] \/ DoneUpTo(cursor'[n])
    BY <1>2, <1>4
  <1>8. OneRunner => cursor[Name[w]] = k.lastID
    BY <1>1 DEF SysInv, AloneInv
  <1>9. failures' \in 0..MaxFailures
    BY <1>1, RunnerAssumption DEF SysTypeOK
  <1>10. OneRunner => AloneInv'
    <2> SUFFICES ASSUME OneRunner PROVE AloneInv'
      OBVIOUS
    <2>1. Runners = {w} /\ AloneInv
      BY OnlyRunner DEF SysInv
    <2>2. CASE failures' = failures + 1
      BY <2>1, <2>2, <1>1, <1>5, FailurePays, AloneBound
    <2>3. CASE failures' = failures
      <3>1. ASSUME NEW p \in Processors, NEW i \in EventIds, AddedSince(w, p, i)
            PROVE  AddedSince(w, p, i)'
        <4>1. i \in Nat /\ (i <= cursor[Name[w]] \/ i <= k.maxID)
          BY <3>1, <1>1, RunnerAssumption DEF AddedSince
        <4>2. i <= cursor'[Name[w]]
          BY <4>1, <1>2, <1>4, <1>8
        <4> QED
          BY <4>2 DEF AddedSince
      <3>2. runner'[w].stage = "poll"
        BY <1>3, PollingType
      <3>3. ASSUME NEW p \in Processors, NEW i \in EventIds, applied'[p][i] > failures'
            PROVE  applied'[p][i] = 1 + failures' /\ AddedSince(w, p, i)'
        <4>1. applied[p][i] > failures
          BY <3>3, <2>3, <1>1
        <4>2. applied[p][i] = 1 + failures /\ AddedSince(w, p, i)
          BY <4>1, <2>1 DEF AloneInv
        <4> QED
          BY <4>2, <3>1, <2>3, <1>1
      <3> QED
        BY <3>2, <3>3, <2>1 DEF AloneInv
    <2> QED
      BY <2>2, <2>3, <1>1
  <1>11. OneRunner => \A n \in Names : cursor'[n] >= cursor[n]
    BY <1>2, <1>4, <1>8 DEF SysTypeOK
  <1> QED
    BY <1>1, <1>4, <1>5, <1>6, <1>7, <1>9, <1>10, <1>11, PollingType, RunnerFrame

(* Adding to one entry of one read model. *)
LEMMA AddOne ==
  ASSUME NEW P, NEW I, NEW f \in [P -> [I -> Nat]], NEW a \in P, NEW i \in I, NEW g,
         g = [f EXCEPT ![a][i] = @ + 1]
  PROVE  /\ g \in [P -> [I -> Nat]] /\ g[a][i] = f[a][i] + 1
         /\ \A p \in P, j \in I : p # a \/ j # i => g[p][j] = f[p][j]
  OBVIOUS

(* An upsert adds the first event of the batch: whatever is before it and    *)
(* not late is done, and a runner on its own has not added it since it read  *)
(* the cursor.                                                               *)
LEMMA AddEffect ==
  ASSUME SysTypeOK, SysInv, NEW w \in Runners, NEW e \in runner[w].todo,
         runner[w].stage = "process", IsFirst(e, runner[w].todo),
         Add(runner[w].proc, e), UNCHANGED <<vars, late>>
  PROVE  /\ runner[w].proc \in Processors /\ e \in events /\ e.id \in EventIds
         /\ applied' \in [Processors -> [EventIds -> Nat]]
         /\ applied'[runner[w].proc][e.id] = applied[runner[w].proc][e.id] + 1
         /\ \A p \in Processors, i \in EventIds :
               p # runner[w].proc \/ i # e.id => applied'[p][i] = applied[p][i]
         /\ Grows /\ AppliedInOrder' /\ OnlyEvents'
         /\ OneRunner => applied[runner[w].proc][e.id] <= failures
  <1> DEFINE k == runner[w]
             a == k.proc
  <1>1. k \in Runner /\ LoopInv(w) /\ TypeOK /\ Inv
    BY DEF SysTypeOK, SysInv
  <1>2. /\ a \in Processors /\ e \in events /\ e.id \in EventIds /\ e.id \in Nat
        /\ k.lastID \in Nat /\ k.maxID \in Nat /\ e.id > k.lastID /\ e.id > k.maxID
    BY <1>1, IdsAreUnique DEF SysTypeOK, IdsFit, LoopInv, Runner
  <1>3. applied \in [Processors -> [EventIds -> Nat]]
        /\ applied' = [applied EXCEPT ![a][e.id] = @ + 1]
    BY DEF Add, SysTypeOK
  <1>4. \A p \in Processors : applied[p] \in [EventIds -> Nat]
    BY DEF SysTypeOK
  <1> HIDE DEF a
  <1>5. /\ applied' \in [Processors -> [EventIds -> Nat]]
        /\ applied'[a][e.id] = applied[a][e.id] + 1
        /\ \A p \in Processors, i \in EventIds :
               p # a \/ i # e.id => applied'[p][i] = applied[p][i]
    BY <1>2, <1>3, AddOne
  <1>6. Grows
    BY <1>2, <1>4, <1>5 DEF Grows
  <1>7. events' = events /\ late' = late
    BY DEF vars
  <1>8. OnlyEvents'
    BY <1>2, <1>5, <1>7 DEF SysInv, OnlyEvents
  <1>9. AppliedInOrder'
    <2> SUFFICES ASSUME NEW d \in events, NEW f \in events,
                        NEW p \in Processors, NEW q \in Processors,
                        d.id < f.id, d.id \notin late, applied'[p][f.id] > 0
                 PROVE  applied'[q][d.id] > 0
      BY <1>7 DEF AppliedInOrder
    <2>1. d.id \in EventIds /\ f.id \in EventIds /\ d.id \in Nat /\ f.id \in Nat
      BY <1>1, IdsAreUnique DEF SysTypeOK, IdsFit
    <2>2. applied[q][d.id] > 0
      <3>1. CASE applied[p][f.id] > 0
        BY <3>1 DEF SysInv, AppliedInOrder
      <3>2. CASE ~(applied[p][f.id] > 0)
        <4>1. f.id = e.id
          BY <3>2, <2>1, <1>5
        <4>2. d \notin k.todo
          BY <4>1, <2>1, <1>2 DEF IsFirst
        <4>3. Done(d)
          BY <4>1, <4>2, <1>1 DEF LoopInv
        <4> QED
          BY <4>3 DEF Done
      <3> QED
        BY <3>1, <3>2
    <2>3. /\ applied[q][d.id] \in Nat /\ applied'[q][d.id] \in Nat
          /\ applied'[q][d.id] >= applied[q][d.id]
      BY <2>1, <1>4, <1>5, <1>6 DEF Grows
    <2> QED
      BY <2>2, <2>3
  <1>10. OneRunner => applied[a][e.id] <= failures
    <2> SUFFICES ASSUME OneRunner, applied[a][e.id] > failures PROVE FALSE
      BY <1>2, <1>4, RunnerAssumption DEF SysTypeOK
    <2>1. Runners = {w} /\ AloneInv
      BY OnlyRunner DEF SysInv
    <2>2. AddedSince(w, a, e.id)
      BY <2>1, <1>2 DEF AloneInv
    <2>3. k.lastID = cursor[Name[w]]
      BY <2>1 DEF AloneInv
    <2>4. k.proc = Balance /\ a = Summary
      BY <2>2, <2>3, <1>2 DEF AddedSince
    <2> QED
      BY <2>4 DEF a, Summary, Balance
  <1> QED
    BY <1>2, <1>5, <1>6, <1>8, <1>9, <1>10 DEF a

(* An upsert whose answer is lost: the batch is read again. *)
LEMMA AddUnacknowledgedStep ==
  ASSUME SysTypeOK, SysInv, NEW w \in Runners, NEW e \in runner[w].todo,
         AddUnacknowledged(w, e), UNCHANGED <<vars, late>>
  PROVE  SysTypeOK' /\ SysInv'
  <1>1. /\ runner' = [runner EXCEPT ![w] = Polling] /\ cursor' = cursor
        /\ failures' = failures + 1 /\ failures < MaxFailures
        /\ runner[w].stage = "process" /\ IsFirst(e, runner[w].todo) /\ Add(runner[w].proc, e)
    BY DEF AddUnacknowledged
  <1>2. /\ runner[w].proc \in Processors /\ e.id \in EventIds
        /\ applied' \in [Processors -> [EventIds -> Nat]]
        /\ applied'[runner[w].proc][e.id] = applied[runner[w].proc][e.id] + 1
        /\ \A p \in Processors, i \in EventIds :
               p # runner[w].proc \/ i # e.id => applied'[p][i] = applied[p][i]
        /\ Grows /\ AppliedInOrder' /\ OnlyEvents'
        /\ OneRunner => applied[runner[w].proc][e.id] <= failures
    BY <1>1, AddEffect
  <1>3. LoopInv(w)'
    <2>1. runner'[w] = Polling
      BY <1>1 DEF SysTypeOK
    <2> QED
      BY <2>1, PollingType DEF LoopInv
  <1>4. OneRunner => AloneInv'
    <2> SUFFICES ASSUME OneRunner PROVE AloneInv'
      OBVIOUS
    <2>1. \A p \in Processors, i \in EventIds : applied[p][i] <= failures + 1
      BY AloneBound DEF SysInv
    <2>2. applied[runner[w].proc][e.id] \in Nat /\ failures \in Nat
      <3>1. applied \in [Processors -> [EventIds -> Nat]] /\ failures \in 0..MaxFailures
        BY DEF SysTypeOK
      <3>2. runner[w].proc \in Processors /\ e.id \in EventIds
        BY <1>2
      <3>3. applied[runner[w].proc][e.id] \in Nat
        BY <3>1, <3>2, Zenon
      <3>4. failures \in Nat
        BY <3>1, RunnerAssumption
      <3> QED
        BY <3>3, <3>4
    <2>3. applied'[runner[w].proc][e.id] <= failures + 1
      BY <2>2, <1>2
    <2>4. \A p \in Processors, i \in EventIds : applied'[p][i] <= failures + 1
      <3> SUFFICES ASSUME NEW p \in Processors, NEW i \in EventIds
                   PROVE  applied'[p][i] <= failures + 1
        OBVIOUS
      <3>1. CASE p = runner[w].proc /\ i = e.id
        BY <3>1, <2>3
      <3>2. CASE p # runner[w].proc \/ i # e.id
        <4>1. applied'[p][i] = applied[p][i]
          BY <3>2, <1>2
        <4> QED
          BY <4>1, <2>1
      <3> QED
        BY <3>1, <3>2
    <2> QED
      BY <2>4, <1>1, <1>2, FailurePays
  <1>5. failures' \in 0..MaxFailures
    BY <1>1, RunnerAssumption DEF SysTypeOK
  <1> QED
    BY <1>1, <1>2, <1>3, <1>4, <1>5, PollingType, RunnerFrame DEF SysTypeOK

(* The first processor has added the first event of the batch. *)
LEMMA SummaryStep ==
  ASSUME SysTypeOK, SysInv, NEW w \in Runners, NEW e \in runner[w].todo,
         Process(w, e), UNCHANGED <<vars, late>>, runner[w].proc = Summary
  PROVE  SysTypeOK' /\ SysInv'
  <1> DEFINE k == runner[w]
             l == [k EXCEPT !.proc = Balance]
  <1>1. /\ k.stage = "process" /\ IsFirst(e, k.todo) /\ Add(k.proc, e)
        /\ runner' = [runner EXCEPT ![w] = l] /\ UNCHANGED <<cursor, failures>>
    BY DEF Process, AfterSuccess, SysTypeOK
  <1>2. /\ e.id \in EventIds /\ Summary \in Processors
        /\ applied' \in [Processors -> [EventIds -> Nat]]
        /\ applied'[Summary][e.id] = applied[Summary][e.id] + 1
        /\ \A p \in Processors, i \in EventIds :
               p # Summary \/ i # e.id => applied'[p][i] = applied[p][i]
        /\ Grows /\ AppliedInOrder' /\ OnlyEvents'
        /\ OneRunner => applied[Summary][e.id] <= failures
    BY <1>1, AddEffect
  <1>3. k \in Runner /\ LoopInv(w) /\ events' = events /\ late' = late
    BY DEF SysTypeOK, SysInv, vars
  <1>4. /\ l \in Runner /\ l.stage = "process" /\ l.lastID = k.lastID /\ l.todo = k.todo
        /\ l.proc = Balance /\ l.maxID = k.maxID
    BY <1>1, <1>3 DEF Runner, Processors
  <1>5. runner'[w] = l
    BY <1>1 DEF SysTypeOK
  <1> HIDE DEF l
  <1>6. k.lastID \in Nat /\ DoneUpTo(k.lastID)
    BY <1>1, <1>3 DEF LoopInv, Runner
  <1>7. /\ \A d \in events : Done(d) => Done(d)'
        /\ \A i \in Nat : DoneUpTo(i) => DoneUpTo(i)'
    BY <1>2, <1>3, DoneStays
  <1>8. \A p \in Processors, i \in EventIds : applied[p][i] \in Nat
    BY DEF SysTypeOK
  <1>9. LoopInv(w)'
    <2>1. (DoneUpTo(runner[w].lastID))'
      BY <1>3, <1>4, <1>5, <1>6, <1>7 DEF DoneUpTo
    <2>2. \A d \in events' \ k.todo, f \in k.todo : d.id < f.id => Done(d)'
      BY <1>1, <1>3, <1>7 DEF LoopInv
    <2>3. ASSUME NEW d \in k.todo, IsFirst(d, k.todo) PROVE applied'[Summary][d.id] > 0
      <3>1. d \in events /\ e \in events /\ d.id \in Nat /\ e.id \in Nat
        BY <1>1, <1>3, IdsAreUnique DEF LoopInv, SysTypeOK, SysInv
      <3>2. d.id = e.id
        BY <2>3, <3>1, <1>1 DEF IsFirst
      <3> QED
        BY <3>2, <1>2, <1>8
    <2>4. /\ k.todo # {} /\ k.todo \subseteq events'
          /\ \A d \in k.todo : d.id > k.lastID /\ d.id > k.maxID
      BY <1>1, <1>3 DEF LoopInv
    <2> QED
      BY <2>1, <2>2, <2>3, <2>4, <1>4, <1>5 DEF LoopInv
  <1>10. OneRunner => AloneInv'
    <2> SUFFICES ASSUME OneRunner PROVE AloneInv'
      OBVIOUS
    <2>1. Runners = {w} /\ AloneInv
      BY OnlyRunner DEF SysInv
    <2>2. runner'[w].lastID = cursor'[Name[w]]
      BY <2>1, <1>1, <1>4, <1>5 DEF AloneInv
    <2>3. ASSUME NEW p \in Processors, NEW i \in EventIds, applied'[p][i] > failures'
          PROVE  applied'[p][i] = 1 + failures' /\ AddedSince(w, p, i)'
      <3>1. CASE p = Summary /\ i = e.id
        <4>0. failures \in Nat
          <5>1. failures \in 0..MaxFailures
            BY DEF SysTypeOK
          <5> QED
            BY <5>1, RunnerAssumption
        <4>1. applied[Summary][e.id] \in Nat /\ failures \in Nat
          BY <4>0, <1>2, <1>8
        <4>2. applied'[p][i] = 1 + failures'
          BY <4>1, <3>1, <2>3, <1>1, <1>2
        <4>3. AddedSince(w, p, i)'
          BY <3>1, <1>1, <1>4, <1>5 DEF AddedSince
        <4> QED
          BY <4>2, <4>3
      <3>2. CASE p # Summary \/ i # e.id
        <4>1. applied'[p][i] = applied[p][i]
          BY <3>2, <1>2
        <4>2. applied[p][i] = 1 + failures /\ AddedSince(w, p, i)
          BY <4>1, <2>1, <2>3, <1>1 DEF AloneInv
        <4>3. i <= cursor[Name[w]] \/ i <= k.maxID
          BY <4>2 DEF AddedSince, Summary, Balance
        <4>4. AddedSince(w, p, i)'
          BY <4>3, <1>1, <1>4, <1>5 DEF AddedSince
        <4> QED
          BY <4>1, <4>2, <4>4, <1>1
      <3> QED
        BY <3>1, <3>2
    <2> QED
      BY <2>1, <2>2, <2>3 DEF AloneInv
  <1> QED
    BY <1>1, <1>2, <1>4, <1>9, <1>10, RunnerFrame DEF SysTypeOK

(* The last processor has added the first event of the batch: the event is  *)
(* done, and the loop goes on with the next or to the cursor.               *)
LEMMA BalanceStep ==
  ASSUME SysTypeOK, SysInv, NEW w \in Runners, NEW e \in runner[w].todo,
         Process(w, e), UNCHANGED <<vars, late>>, runner[w].proc = Balance
  PROVE  SysTypeOK' /\ SysInv'
  <1> DEFINE k == runner[w]
             l == [k EXCEPT !.proc = Summary, !.todo = @ \ {e}, !.maxID = e.id,
                            !.stage = IF k.todo = {e} THEN "advance" ELSE "process"]
  <1>1. /\ k.stage = "process" /\ IsFirst(e, k.todo) /\ Add(k.proc, e)
        /\ runner' = [runner EXCEPT ![w] = l] /\ UNCHANGED <<cursor, failures>>
    BY DEF Process, AfterSuccess, SysTypeOK, Summary, Balance
  <1>2. /\ e \in events /\ e.id \in EventIds /\ Balance \in Processors
        /\ applied' \in [Processors -> [EventIds -> Nat]]
        /\ applied'[Balance][e.id] = applied[Balance][e.id] + 1
        /\ \A p \in Processors, i \in EventIds :
               p # Balance \/ i # e.id => applied'[p][i] = applied[p][i]
        /\ Grows /\ AppliedInOrder' /\ OnlyEvents'
        /\ OneRunner => applied[Balance][e.id] <= failures
    BY <1>1, AddEffect
  <1>3. k \in Runner /\ LoopInv(w) /\ events' = events /\ late' = late /\ TypeOK /\ Inv
    BY DEF SysTypeOK, SysInv, vars
  <1>4. /\ k.lastID \in Nat /\ k.maxID \in Nat /\ DoneUpTo(k.lastID)
        /\ k.todo \subseteq events /\ e.id > k.lastID /\ e.id > k.maxID
        /\ \A d \in events : d.id \in Nat /\ \A f \in events : d.id = f.id => d = f
    BY <1>1, <1>3, IdsAreUnique DEF LoopInv, Runner
  <1>5. /\ l \in Runner /\ l.lastID = k.lastID /\ l.todo = k.todo \ {e}
        /\ l.proc = Summary /\ l.maxID = e.id
        /\ l.stage = IF k.todo = {e} THEN "advance" ELSE "process"
    BY <1>2, <1>3, <1>4 DEF Runner, Processors
  <1>6. runner'[w] = l
    BY <1>1 DEF SysTypeOK
  <1> HIDE DEF l
  <1>7. /\ \A d \in events : Done(d) => Done(d)'
        /\ \A i \in Nat : DoneUpTo(i) => DoneUpTo(i)'
    BY <1>2, <1>3, DoneStays
  <1>8. \A p \in Processors, i \in EventIds : applied[p][i] \in Nat
    BY DEF SysTypeOK
  <1>9. Done(e)'
    <2>1. applied[Summary][e.id] > 0 /\ Summary # Balance
      BY <1>1, <1>3 DEF LoopInv, Summary, Balance
    <2>2. applied'[Summary][e.id] > 0
      BY <2>1, <1>2 DEF Processors
    <2>3. applied'[Balance][e.id] > 0
      BY <1>2, <1>8
    <2> QED
      BY <2>2, <2>3 DEF Done, Processors
  <1>10. \A d \in k.todo \ {e} : d.id > e.id
    <2> SUFFICES ASSUME NEW d \in k.todo, d # e PROVE d.id > e.id
      OBVIOUS
    <2>1. e.id <= d.id
      BY <1>1 DEF IsFirst
    <2>2. d \in events /\ d.id \in Nat /\ e.id \in Nat /\ (d.id = e.id => d = e)
      BY <1>2, <1>4
    <2> QED
      BY <2>1, <2>2
  <1>11. ASSUME NEW d \in events \ k.todo, d.id <= e.id PROVE Done(d)'
    <2>1. d.id < e.id
      <3>1. d \in events /\ d.id \in Nat /\ e.id \in Nat /\ (d.id = e.id => d = e)
        BY <1>2, <1>4
      <3>2. d # e
        BY <1>1 DEF IsFirst
      <3> QED
        BY <3>1, <3>2, <1>11
    <2> QED
      BY <2>1, <1>1, <1>3, <1>7 DEF LoopInv
  <1>12. (DoneUpTo(runner[w].lastID))'
    BY <1>3, <1>4, <1>5, <1>6, <1>7 DEF DoneUpTo
  <1>13. LoopInv(w)'
    <2>1. CASE k.todo = {e}
      <3>1. l.stage = "advance" /\ l.maxID > l.lastID
        BY <2>1, <1>4, <1>5
      <3>2. \A d \in events : d.id <= e.id => Done(d)'
        BY <2>1, <1>9, <1>11
      <3>3. (DoneUpTo(runner[w].maxID))'
        BY <3>2, <1>2, <1>3, <1>5, <1>6 DEF DoneUpTo
      <3> QED
        BY <3>1, <3>3, <1>6, <1>12 DEF LoopInv
    <2>2. CASE k.todo # {e}
      <3>1. l.stage = "process" /\ l.todo # {} /\ l.todo \subseteq events' /\ l.proc # Balance
        BY <2>2, <1>3, <1>4, <1>5 DEF Summary, Balance
      <3>2. \A d \in l.todo : d.id > l.lastID /\ d.id > l.maxID
        BY <1>2, <1>4, <1>5, <1>10
      <3>3. ASSUME NEW d \in events' \ l.todo, NEW f \in l.todo, d.id < f.id PROVE Done(d)'
        <4>1. CASE d = e
          BY <4>1, <1>9
        <4>2. CASE d # e
          BY <4>2, <3>3, <1>1, <1>3, <1>5, <1>7 DEF LoopInv
        <4> QED
          BY <4>1, <4>2
      <3> QED
        BY <3>1, <3>2, <3>3, <1>6, <1>12 DEF LoopInv
    <2> QED
      BY <2>1, <2>2
  <1>14. OneRunner => AloneInv'
    <2> SUFFICES ASSUME OneRunner PROVE AloneInv'
      OBVIOUS
    <2>1. Runners = {w} /\ AloneInv
      BY OnlyRunner DEF SysInv
    <2>2. runner'[w].lastID = cursor'[Name[w]]
      BY <2>1, <1>1, <1>5, <1>6 DEF AloneInv
    <2>3. ASSUME NEW p \in Processors, NEW i \in EventIds, applied'[p][i] > failures'
          PROVE  applied'[p][i] = 1 + failures' /\ AddedSince(w, p, i)'
      <3>0. i \in Nat /\ l.stage \in {"process", "advance"}
        BY <1>5, RunnerAssumption
      <3>1. CASE p = Balance /\ i = e.id
        <4>0. failures \in Nat
          <5>1. failures \in 0..MaxFailures
            BY DEF SysTypeOK
          <5> QED
            BY <5>1, RunnerAssumption
        <4>1. applied[Balance][e.id] \in Nat /\ failures \in Nat
          BY <4>0, <1>2, <1>8
        <4>2. applied'[p][i] = 1 + failures'
          BY <4>1, <3>1, <2>3, <1>1, <1>2
        <4>3. AddedSince(w, p, i)'
          BY <3>0, <3>1, <1>5, <1>6 DEF AddedSince
        <4> QED
          BY <4>2, <4>3
      <3>2. CASE p # Balance \/ i # e.id
        <4>1. applied'[p][i] = applied[p][i]
          BY <3>2, <1>2
        <4>2. applied[p][i] = 1 + failures /\ AddedSince(w, p, i)
          BY <4>1, <2>1, <2>3, <1>1 DEF AloneInv
        <4>3. i <= cursor[Name[w]] \/ i <= e.id
          <5>1. i <= cursor[Name[w]] \/ i <= k.maxID
                  \/ \E d \in k.todo : IsFirst(d, k.todo) /\ d.id = i
            BY <4>2 DEF AddedSince
          <5> QED
            BY <5>1, <3>0, <1>2, <1>4 DEF IsFirst
        <4>4. AddedSince(w, p, i)'
          BY <4>3, <3>0, <1>1, <1>5, <1>6 DEF AddedSince
        <4> QED
          BY <4>1, <4>2, <4>4, <1>1
      <3> QED
        BY <3>1, <3>2
    <2> QED
      BY <2>1, <2>2, <2>3 DEF AloneInv
  <1> QED
    BY <1>1, <1>2, <1>5, <1>13, <1>14, RunnerFrame DEF SysTypeOK

-----------------------------------------------------------------------------
(* Every step of a runner keeps the invariant. *)
LEMMA RunnerStepInv ==
  ASSUME SysTypeOK, SysInv, NEW w \in Runners, RunnerStep(w)
  PROVE  SysTypeOK' /\ SysInv'
  <1>1. UNCHANGED <<vars, late>>
    BY DEF RunnerStep
  <1>2. ASSUME NEW e \in runner[w].todo, Process(w, e) PROVE SysTypeOK' /\ SysInv'
    <2>1. runner[w].proc \in Processors
      BY DEF SysTypeOK, Runner
    <2> QED
      BY <1>1, <1>2, <2>1, SummaryStep, BalanceStep DEF Processors
  <1>3. CASE RunnerProgress(w)
    BY <1>1, <1>2, <1>3, GetCursorStep, ListSinceStep, SetStep DEF RunnerProgress
  <1>4. CASE RunnerFailure(w)
    BY <1>1, <1>4, GiveUpStep, AddUnacknowledgedStep, SetStep DEF RunnerFailure
  <1> QED
    BY <1>3, <1>4 DEF RunnerStep

(* And so does every step of the system, while the ids last. *)
LEMMA SysStepInv ==
  ASSUME SysTypeOK, SysInv, [SysNext]_sysVars, IdsFit'
  PROVE  SysTypeOK' /\ SysInv'
  <1>1. CASE UNCHANGED sysVars
    <2>1. UNCHANGED <<rows, events, nextEventId, jobs, pc, req>>
      BY <1>1 DEF sysVars, vars
    <2>2. UNCHANGED <<cursor, applied, runner, late, failures>>
      BY <1>1 DEF sysVars
    <2>3. TypeOK' /\ Inv'
      BY <2>1, NextStep DEF SysTypeOK, SysInv, vars
    <2>4. SysTypeOK'
      BY <2>1, <2>2, <2>3 DEF SysTypeOK
    <2>5. /\ AppliedInOrder' /\ OnlyEvents' /\ IsFiniteSet(events')
          /\ \A n \in Names : DoneUpTo(cursor[n])'
      BY <2>1, <2>2 DEF SysInv, AppliedInOrder, OnlyEvents, DoneUpTo, Done
    <2>6. \A w \in Runners : LoopInv(w)'
      BY <2>1, <2>2 DEF SysInv, LoopInv, DoneUpTo, Done
    <2>7. OneRunner => AloneInv'
      BY <2>1, <2>2 DEF SysInv, AloneInv, AddedSince
    <2> QED
      BY <2>3, <2>4, <2>5, <2>6, <2>7 DEF SysInv, OneRunner
  <1>2. CASE ApiStep
    BY <1>2, ApiStepInv
  <1>3. CASE \E w \in Runners : RunnerStep(w)
    BY <1>3, RunnerStepInv
  <1> QED
    BY <1>1, <1>2, <1>3 DEF SysNext

(* The inductive invariant holds for any number of requests, projector names *)
(* and runners, two runners with one name included.                          *)
THEOREM SysInvHolds == SysSpec /\ []IdsFit => [](SysTypeOK /\ SysInv)
  BY SysInitInv, SysStepInv, PTL DEF SysSpec

(* The tables and the locals of the loops keep their types. *)
THEOREM SysTypeCorrect == SysSpec /\ []IdsFit => []SysTypeOK
  BY SysInvHolds, PTL

(* No cursor passes an event that is not in both read models, unless the     *)
(* event became visible behind a higher id: for any number of runners, and   *)
(* whatever fails between the upserts and the cursor.                        *)
THEOREM PassedStaysApplied == SysSpec /\ []IdsFit => []PassedIsApplied
  <1>1. SysInv => PassedIsApplied
    BY DEF SysInv, DoneUpTo, Done, PassedIsApplied
  <1> QED
    BY <1>1, SysInvHolds, PTL

(* Events show in the read models in the order of their ids, the late ones   *)
(* excepted: for any number of runners, whatever fails.                      *)
THEOREM AppliedStaysInOrder == SysSpec /\ []IdsFit => []AppliedInOrder
  <1>1. SysInv => AppliedInOrder
    BY DEF SysInv
  <1> QED
    BY <1>1, SysInvHolds, PTL

(* With one runner, which is what the worker service starts, an event is     *)
(* added at most once more than statements or processes failed.              *)
THEOREM DuplicatesStayBounded ==
  ASSUME OneRunner
  PROVE  SysSpec /\ []IdsFit => []DuplicatesBounded
  <1>1. SysTypeOK /\ SysInv => DuplicatesBounded
    <2> SUFFICES ASSUME SysTypeOK, SysInv PROVE DuplicatesBounded
      OBVIOUS
    <2>1. \A p \in Processors, i \in EventIds :
             applied[p][i] <= failures + 1 /\ applied[p][i] \in Nat
      BY AloneBound DEF SysInv, SysTypeOK
    <2>2. failures + 1 = 1 + failures
      <3>1. failures \in 0..MaxFailures
        BY DEF SysTypeOK
      <3> QED
        BY <3>1, RunnerAssumption
    <2> QED
      BY <2>1, <2>2 DEF DuplicatesBounded
  <1> QED
    BY <1>1, SysInvHolds, PTL

(* With one runner the stored cursor never goes back, although Set is an     *)
(* unconditional upsert: what it stores is past the cursor the runner read,  *)
(* and nobody else has written it.                                           *)
THEOREM CursorOnlyAdvances ==
  ASSUME OneRunner
  PROVE  SysSpec /\ []IdsFit => CursorAdvances
  <1>1. ASSUME SysTypeOK, SysInv, [SysNext]_sysVars
        PROVE  \A n \in Names : cursor'[n] >= cursor[n]
    <2>1. CASE cursor' = cursor
      BY <1>1, <2>1 DEF SysTypeOK
    <2>2. CASE \E w \in Runners : /\ SetCursor(w) \/ SetUnacknowledged(w)
                                  /\ UNCHANGED <<vars, late>>
      BY <1>1, <2>2, SetStep
    <2>3. \/ cursor' = cursor
          \/ \E w \in Runners : /\ SetCursor(w) \/ SetUnacknowledged(w)
                                /\ UNCHANGED <<vars, late>>
      BY <1>1 DEF SysNext, sysVars, ApiStep, runnerVars, RunnerStep, RunnerProgress,
                  RunnerFailure, GetCursor, ListSince, Process, GiveUp, AddUnacknowledged
    <2> QED
      BY <2>1, <2>2, <2>3
  <1> QED
    BY <1>1, SysInvHolds, PTL DEF SysSpec, CursorAdvances

-----------------------------------------------------------------------------
(* The runners only read what the API wrote: seen from the API the system is *)
(* the write path, and all that is proved of it holds with the runners too.  *)
THEOREM SystemRunsTheApi == SysSpec => Spec
  <1>1. SysInit => Init
    BY DEF SysInit
  <1>2. [SysNext]_sysVars => [Next]_vars
    BY DEF SysNext, sysVars, ApiStep, RunnerStep
  <1> QED
    BY <1>1, <1>2, PTL DEF SysSpec, Spec

(* With every positive number as an id, as in the model of a BIGSERIAL       *)
(* column without a bound, the hypothesis of the theorems above is met.      *)
THEOREM IdsSuffice ==
  ASSUME EventIds = Nat \ {0}
  PROVE  SysSpec => []IdsFit
  <1>1. TypeOK /\ Inv => IdsFit
    BY IdsAreUnique DEF IdsFit
  <1> QED
    BY <1>1, SystemRunsTheApi, InvHolds, PTL
=============================================================================
