-------------------------- MODULE SyncStreamProofs --------------------------
(***************************************************************************)
(* Proofs about the sync stream, for any number of consumers, messages,    *)
(* connections, failures and any batch size. TypeOK /\ Inv is inductive    *)
(* (InitInv, NextStep, one lemma per kind of step); the safety properties  *)
(* follow from it, and so does that every step of a consumer is at most    *)
(* one step of the abstract queue.                                         *)
(***************************************************************************)
EXTENDS SyncStream, TLAPS

(* Before the first message nothing is delivered and no loop has a batch. *)
LEMMA InitInv == Init => TypeOK /\ Inv
  <1> SUFFICES ASSUME Init PROVE TypeOK /\ Inv
    OBVIOUS
  <1>1. TypeOK
    BY StreamAssumption DEF Init, TypeOK, Consumer, Idle, Stages, Places
  <1>2. ASSUME NEW c \in Consumers PROVE BatchInv(c) /\ WorkInv(c) /\ InHand(c) = {}
    <2>1. consumer[c] = Idle("starting") /\ ~Busy(c)
      BY DEF Init, Busy, Idle
    <2> QED
      BY <2>1 DEF BatchInv, WorkInv, InHand, Idle
  <1>3. HandsAreDisjoint /\ AckedIsSynced /\ RunAtMostOnce /\ RunsInv
    BY <1>2 DEF Init, HandsAreDisjoint, AckedIsSynced, Acked, RunAtMostOnce, RunsInv
  <1> QED
    BY <1>1, <1>2, <1>3 DEF Inv

(* A job is about connections only. *)
LEMMA TargetsType == ASSUME NEW job \in SyncJob PROVE Targets(job) \subseteq Conns
  BY DEF Targets, SyncJob

(* What is known of a loop with a batch: the message in work is one the group
   was given, pending, and in nobody else's hands. *)
LEMMA InWork ==
  ASSUME TypeOK, Inv, NEW c \in Consumers, Busy(c)
  PROVE  LET l == consumer[c]
         IN  /\ l \in Consumer
             /\ l.next \in 1..l.last /\ l.last \in 1..delivered
             /\ delivered \in 1..Len(stream) /\ Len(stream) \in 1..MaxJobs
             /\ l.next \in Places /\ l.next \in InHand(c) /\ l.next \in pending
             /\ stream[l.next] \in SyncJob
             /\ \A d \in Consumers \ {c} : l.next \notin InHand(d)
  <1>1. consumer[c] \in Consumer /\ BatchInv(c)
    BY DEF TypeOK, Inv
  <1>2. /\ consumer[c].next \in Nat /\ consumer[c].last \in Nat
        /\ consumer[c].next \in 1..consumer[c].last /\ consumer[c].last <= delivered
    BY <1>1 DEF Consumer, BatchInv
  <1>3. delivered \in 0..Len(stream) /\ Len(stream) \in Nat /\ Len(stream) <= MaxJobs
    BY DEF TypeOK
  <1>4. consumer[c].next \in InHand(c)
    BY <1>2 DEF InHand
  <1>5. /\ consumer[c].next \in pending
        /\ \A d \in Consumers \ {c} : consumer[c].next \notin InHand(d)
    BY <1>4 DEF Inv, HandsAreDisjoint
  <1>6. consumer[c].next \in 1..Len(stream)
    BY <1>2, <1>3
  <1>7. stream[consumer[c].next] \in SyncJob
    BY <1>6 DEF TypeOK
  <1> QED
    BY <1>1, <1>2, <1>3, <1>4, <1>5, <1>6, <1>7, StreamAssumption DEF Places

(* What is pending, and so what is in hand, are places of the stream. *)
LEMMA HandsArePlaces ==
  ASSUME TypeOK, Inv
  PROVE  pending \subseteq Places /\ \A c \in Consumers : InHand(c) \subseteq Places
  <1>1. delivered \in Nat /\ delivered <= MaxJobs /\ pending \subseteq 1..delivered
    BY StreamAssumption DEF TypeOK
  <1>2. pending \subseteq Places
    BY <1>1, StreamAssumption DEF Places
  <1> QED
    BY <1>2 DEF Inv, HandsAreDisjoint

(* A loop without a batch has nothing in hand. *)
LEMMA EmptyHands ==
  ASSUME Inv, NEW c \in Consumers, ~Busy(c)
  PROVE  consumer[c] = Idle(consumer[c].stage) /\ InHand(c) = {}
  BY DEF Inv, BatchInv, Idle, InHand

-----------------------------------------------------------------------------
(* XADD puts a message behind everything the group has seen. *)
LEMMA EnqueueStep ==
  ASSUME TypeOK, Inv, NEW job \in SyncJob, Enqueue(job)
  PROVE  TypeOK' /\ Inv'
  <1> USE StreamAssumption
  <1>1. /\ stream' \in Seq(SyncJob) /\ Len(stream') = Len(stream) + 1
        /\ \A m \in 1..Len(stream) : stream'[m] = stream[m]
    BY DEF TypeOK, Enqueue
  <1>2. TypeOK'
    BY <1>1 DEF TypeOK, Enqueue
  <1>3. \A c \in Consumers : InHand(c)' = InHand(c) /\ (Busy(c)' <=> Busy(c))
    BY DEF Enqueue, InHand, Busy
  <1>4. HandsAreDisjoint' /\ RunAtMostOnce' /\ RunsInv'
    BY <1>3 DEF Inv, HandsAreDisjoint, RunAtMostOnce, RunsInv, Enqueue
  <1>5. AckedIsSynced'
    <2>1. Acked' = Acked /\ Acked \subseteq 1..Len(stream)
      BY DEF Acked, Enqueue, TypeOK
    <2> QED
      BY <1>1, <2>1 DEF Inv, AckedIsSynced, Enqueue
  <1>6. ASSUME NEW c \in Consumers PROVE BatchInv(c)' /\ WorkInv(c)'
    <2>1. BatchInv(c)'
      BY <1>3 DEF Inv, BatchInv, Enqueue
    <2>2. CASE Busy(c)
      <3>1. stream'[consumer[c].next] = stream[consumer[c].next]
        BY <1>1, <2>2, InWork
      <3> QED
        BY <2>1, <3>1 DEF Inv, WorkInv, Enqueue
    <2>3. CASE ~Busy(c)
      BY <2>1, <2>3 DEF WorkInv, Enqueue, Busy
    <2> QED
      BY <2>2, <2>3
  <1> QED
    BY <1>2, <1>4, <1>5, <1>6 DEF Inv

-----------------------------------------------------------------------------
(* A step of one consumer leaves the locals of the others alone. *)
LEMMA OthersKeep ==
  ASSUME TypeOK, NEW c \in Consumers, NEW l \in Consumer, Become(c, l)
  PROVE  /\ consumer' \in [Consumers -> Consumer]
         /\ consumer'[c] = l
         /\ InHand(c)' = l.next..l.last
         /\ \A d \in Consumers \ {c} : /\ consumer'[d] = consumer[d]
                                       /\ InHand(d)' = InHand(d)
                                       /\ Busy(d)' <=> Busy(d)
  BY DEF TypeOK, Become, InHand, Busy

(* A loop that starts, ends or dies forgets its batch: the messages stay
   pending and have been run at most once. *)
LEMMA ReleaseStep ==
  ASSUME TypeOK, Inv, NEW c \in Consumers,
         NEW stage \in {"starting", "reading", "stopped", "down"},
         Become(c, Idle(stage)), failures' \in 0..MaxFailures,
         UNCHANGED <<stream, delivered, pending, synced, runs>>
  PROVE  TypeOK' /\ Inv'
  <1>1. Idle(stage) \in Consumer /\ Idle(stage).next..Idle(stage).last = {}
    BY DEF Idle, Consumer, Stages
  <1>2. /\ consumer' \in [Consumers -> Consumer]
        /\ consumer'[c] = Idle(stage) /\ InHand(c)' = {}
        /\ \A d \in Consumers \ {c} : /\ consumer'[d] = consumer[d]
                                      /\ InHand(d)' = InHand(d)
                                      /\ Busy(d)' <=> Busy(d)
    BY <1>1, OthersKeep
  <1>3. TypeOK'
    BY <1>2 DEF TypeOK
  <1>4. HandsAreDisjoint'
    BY <1>2 DEF Inv, HandsAreDisjoint
  <1>5. AckedIsSynced' /\ RunAtMostOnce'
    BY DEF Inv, AckedIsSynced, Acked, RunAtMostOnce
  <1>6. RunsInv'
    BY <1>2 DEF Inv, RunsInv
  <1>7. BatchInv(c)' /\ WorkInv(c)'
    BY <1>2 DEF BatchInv, WorkInv, Busy, Idle
  <1>8. \A d \in Consumers \ {c} : BatchInv(d)' /\ WorkInv(d)'
    BY <1>2 DEF Inv, BatchInv, WorkInv
  <1> QED
    BY <1>3, <1>4, <1>5, <1>6, <1>7, <1>8 DEF Inv

(* XREADGROUP with ">" hands out the messages right behind the group's place
   and moves the place to the last of them. *)
LEMMA DeliverEffect ==
  ASSUME TypeOK, Deliver
  PROVE  /\ delivered' \in (delivered + 1)..Len(stream)
         /\ NewBatch = (delivered + 1)..delivered'
         /\ pending' = pending \cup NewBatch
  <1>1. /\ delivered \in Nat /\ Len(stream) \in Nat /\ delivered <= Len(stream)
        /\ Count \in Nat \ {0}
    BY StreamAssumption DEF TypeOK
  <1>2. NewBatch = (delivered + 1)..delivered'
    BY <1>1 DEF Deliver, NewBatch
  <1>3. delivered + 1 <= delivered'
    BY <1>1, <1>2 DEF Deliver
  <1> QED
    BY <1>1, <1>2, <1>3 DEF Deliver

(* The first and the last message of a batch. *)
LEMMA IntervalEnds ==
  ASSUME NEW a \in Nat, NEW b \in Nat, a <= b, NEW S, S = a..b
  PROVE  /\ (CHOOSE m \in S : \A k \in S : m <= k) = a
         /\ (CHOOSE m \in S : \A k \in S : k <= m) = b
  <1>1. a \in S /\ \A k \in S : a <= k
    OBVIOUS
  <1>2. b \in S /\ \A k \in S : k <= b
    OBVIOUS
  <1>3. \A m \in S : (\A k \in S : m <= k) => m = a
    BY <1>1
  <1>4. \A m \in S : (\A k \in S : k <= m) => m = b
    BY <1>2
  <1> QED
    BY <1>1, <1>2, <1>3, <1>4

(* A batch is handed out, to the loop that asked for it or to nobody. *)
LEMMA DeliverStep ==
  ASSUME TypeOK, Inv, NEW c \in Consumers, ~Busy(c), Deliver, NEW l \in Consumer,
         Become(c, l), failures' \in 0..MaxFailures, UNCHANGED <<stream, synced, runs>>,
         \/ l = Idle("reading") \/ l = Idle("stopped")
         \/ l = [stage |-> "handling", todo |-> {},
                 next |-> delivered + 1, last |-> delivered']
  PROVE  TypeOK' /\ Inv'
  <1>1. /\ delivered' \in (delivered + 1)..Len(stream)
        /\ NewBatch = (delivered + 1)..delivered'
        /\ pending' = pending \cup NewBatch
    BY DeliverEffect
  <1>2. /\ delivered \in Nat /\ Len(stream) \in Nat /\ Len(stream) <= MaxJobs
        /\ pending \subseteq 1..delivered /\ delivered' \in Nat
    BY <1>1 DEF TypeOK
  <1>3. /\ consumer' \in [Consumers -> Consumer]
        /\ consumer'[c] = l /\ InHand(c)' = l.next..l.last
        /\ \A d \in Consumers \ {c} : /\ consumer'[d] = consumer[d]
                                      /\ InHand(d)' = InHand(d)
                                      /\ Busy(d)' <=> Busy(d)
    BY OthersKeep
  <1>4. InHand(c)' = {} \/ InHand(c)' = NewBatch
    BY <1>1, <1>3 DEF Idle
  <1>5. TypeOK'
    BY <1>1, <1>2, <1>3 DEF TypeOK
  <1>6. \A d \in Consumers : InHand(d) \subseteq 1..delivered
    BY <1>2 DEF Inv, HandsAreDisjoint
  <1>7. HandsAreDisjoint'
    <2>1. NewBatch \cap (1..delivered) = {}
      BY <1>1, <1>2
    <2>2. \A d \in Consumers \ {c} : InHand(d)' \cap NewBatch = {}
      BY <1>3, <1>6, <2>1
    <2>3. \A d \in Consumers : InHand(d)' \subseteq pending'
      BY <1>1, <1>3, <1>4 DEF Inv, HandsAreDisjoint
    <2> QED
      BY <1>3, <1>4, <2>2, <2>3 DEF Inv, HandsAreDisjoint
  <1>8. AckedIsSynced'
    <2>1. Acked' = Acked
      BY <1>1, <1>2 DEF Acked
    <2> QED
      BY <2>1 DEF Inv, AckedIsSynced
  <1>9. RunAtMostOnce'
    BY DEF Inv, RunAtMostOnce
  <1>10. RunsInv'
    <2>1. \A m \in NewBatch : m \in Places /\ m > delivered /\ runs[m] = 0
      BY <1>1, <1>2, StreamAssumption DEF Inv, RunsInv, Places
    <2>2. \A m \in Places : m > delivered' => runs'[m] = 0
      BY <1>1, <1>2, StreamAssumption DEF Inv, RunsInv, Places
    <2>3. \A m \in InHand(c)' : runs'[m] = 0
      BY <1>4, <2>1
    <2> QED
      BY <1>3, <2>2, <2>3 DEF Inv, RunsInv
  <1>11. BatchInv(c)' /\ WorkInv(c)'
    BY <1>1, <1>2, <1>3 DEF BatchInv, WorkInv, Busy, Idle
  <1>12. ASSUME NEW d \in Consumers \ {c} PROVE BatchInv(d)' /\ WorkInv(d)'
    <2>1. CASE Busy(d)
      <3>1. consumer[d].last \in 1..delivered
        BY <2>1, InWork
      <3> QED
        BY <1>1, <1>2, <1>3, <2>1, <3>1 DEF Inv, BatchInv, WorkInv
    <2>2. CASE ~Busy(d)
      BY <1>3, <2>2 DEF Inv, BatchInv, WorkInv
    <2> QED
      BY <2>1, <2>2
  <1> QED
    BY <1>5, <1>7, <1>8, <1>9, <1>10, <1>11, <1>12 DEF Inv

(* The loop that asked for a batch gets it whole, first message first. *)
LEMMA ReadBatch ==
  ASSUME TypeOK, NEW c \in Consumers, XReadGroup(c)
  PROVE  LET l == [stage |-> "handling", todo |-> {},
                   next |-> delivered + 1, last |-> delivered']
         IN  l \in Consumer /\ Become(c, l)
  <1>1. /\ NewBatch = (delivered + 1)..delivered' /\ delivered \in Nat
        /\ delivered' \in Nat /\ delivered + 1 <= delivered'
    BY DeliverEffect DEF TypeOK, XReadGroup
  <1>2. (CHOOSE m \in NewBatch : \A k \in NewBatch : m <= k) = delivered + 1
    BY <1>1, IntervalEnds
  <1>3. (CHOOSE m \in NewBatch : \A k \in NewBatch : k <= m) = delivered'
    BY <1>1, IntervalEnds
  <1> DEFINE l == [stage |-> "handling", todo |-> {},
                   next |-> delivered + 1, last |-> delivered']
  <1>4. l \in Consumer
    BY <1>1 DEF Consumer, Stages
  <1>5. Become(c, l)
    BY <1>2, <1>3 DEF XReadGroup
  <1> QED
    BY <1>4, <1>5

(* XREADGROUP keeps the invariant. *)
LEMMA ReadStep ==
  ASSUME TypeOK, Inv, NEW c \in Consumers, XReadGroup(c)
  PROVE  TypeOK' /\ Inv'
  <1>1. ~Busy(c) /\ Deliver /\ failures' \in 0..MaxFailures
    BY DEF TypeOK, XReadGroup, Busy
  <1> QED
    BY <1>1, ReadBatch, DeliverStep DEF XReadGroup

(* What the loop has in hand once it is done with a message. *)
LEMMA AfterMessageEffect ==
  ASSUME NEW l \in Consumer, l.next \in 1..l.last
  PROVE  LET new == AfterMessage(l)
         IN  /\ new \in Consumer
             /\ new.next..new.last = (l.next..l.last) \ {l.next}
             /\ \/ new = Idle("reading")
                \/ /\ new.stage = "handling" /\ new.last = l.last
                   /\ new.next = l.next + 1 /\ new.next \in 1..new.last
  <1>1. l.next \in Nat /\ l.last \in Nat
    BY DEF Consumer
  <1>2. CASE l.next = l.last
    BY <1>1, <1>2 DEF AfterMessage, Idle, Consumer, Stages
  <1>3. CASE l.next # l.last
    <2>1. AfterMessage(l) = [stage |-> "handling", next |-> l.next + 1,
                             last |-> l.last, todo |-> {}]
      BY <1>3 DEF AfterMessage, Consumer
    <2>2. l.next + 1 \in Nat /\ l.next + 1 \in 1..l.last
      BY <1>1, <1>3
    <2>3. (l.next + 1)..l.last = (l.next..l.last) \ {l.next}
      BY <1>1
    <2> QED
      BY <1>1, <2>1, <2>2, <2>3 DEF Consumer, Stages
  <1> QED
    BY <1>2, <1>3

(* A loop is done with the message in work: refused or failed (it stays
   pending), or finished (it is acknowledged, or XACK failed). *)
LEMMA MoveOnStep ==
  ASSUME TypeOK, Inv, NEW c \in Consumers, Busy(c),
         Become(c, AfterMessage(consumer[c])), failures' \in 0..MaxFailures,
         UNCHANGED <<stream, delivered, synced>>,
         \/ pending' = pending
         \/ /\ consumer[c].stage = "acking"
            /\ pending' = pending \ {consumer[c].next},
         \/ runs' = runs
         \/ consumer[c].stage = "handling" /\ Begin(c)
  PROVE  TypeOK' /\ Inv'
  <1> DEFINE n == consumer[c].next
             l == AfterMessage(consumer[c])
  <1>1. /\ consumer[c] \in Consumer /\ n \in 1..consumer[c].last
        /\ consumer[c].last \in 1..delivered /\ delivered \in 1..Len(stream)
        /\ n \in Places /\ n \in InHand(c) /\ n \in pending
        /\ \A d \in Consumers \ {c} : n \notin InHand(d)
    BY InWork
  <1>2. /\ l \in Consumer /\ l.next..l.last = InHand(c) \ {n}
        /\ \/ l = Idle("reading")
           \/ /\ l.stage = "handling" /\ l.last = consumer[c].last
              /\ l.next = n + 1 /\ l.next \in 1..l.last
    BY <1>1, AfterMessageEffect DEF InHand
  <1> HIDE DEF l
  <1>3. /\ consumer' \in [Consumers -> Consumer]
        /\ consumer'[c] = l /\ InHand(c)' = InHand(c) \ {n}
        /\ \A d \in Consumers \ {c} : /\ consumer'[d] = consumer[d]
                                      /\ InHand(d)' = InHand(d)
                                      /\ Busy(d)' <=> Busy(d)
    BY <1>2, OthersKeep DEF l
  <1>4. /\ runs' \in [Places -> Nat]
        /\ \A m \in Places \ {n} : runs'[m] = runs[m]
        /\ runs'[n] <= 1
    <2>1. runs \in [Places -> Nat] /\ runs[n] <= 1
      BY <1>1 DEF TypeOK, Inv, RunAtMostOnce
    <2>2. consumer[c].stage = "handling" => runs[n] = 0
      BY <1>1 DEF Inv, RunsInv
    <2> QED
      BY <1>1, <2>1, <2>2 DEF Begin
  <1>5. TypeOK'
    BY <1>3, <1>4 DEF TypeOK
  <1>6. HandsAreDisjoint'
    BY <1>1, <1>3 DEF Inv, HandsAreDisjoint
  <1>7. AckedIsSynced'
    <2>1. \/ Acked' = Acked
          \/ consumer[c].stage = "acking" /\ Acked' = Acked \cup {n}
      BY <1>1 DEF Acked
    <2>2. consumer[c].stage = "acking" =>
            Allowed(stream[n]) /\ \A k \in Targets(stream[n]) : <<n, k>> \in synced
      BY DEF Inv, WorkInv
    <2> QED
      BY <2>1, <2>2 DEF Inv, AckedIsSynced
  <1>8. RunAtMostOnce'
    BY <1>4 DEF Inv, RunAtMostOnce
  <1>9. RunsInv'
    <2>1. \A m \in Places : m > delivered => runs'[m] = 0
      BY <1>1, <1>4 DEF Inv, RunsInv, Places
    <2>2. \A d \in Consumers : InHand(d) \subseteq Places
      BY HandsArePlaces
    <2>3. \A m \in InHand(c)' : runs'[m] = 0
      BY <1>3, <1>4, <2>2 DEF Inv, RunsInv
    <2>4. ASSUME NEW d \in Consumers \ {c}, NEW m \in InHand(d)
          PROVE  runs'[m] = runs[m]
      BY <1>1, <1>4, <2>2
    <2> QED
      BY <1>3, <2>1, <2>3, <2>4 DEF Inv, RunsInv
  <1>10. BatchInv(c)' /\ WorkInv(c)'
    BY <1>1, <1>2, <1>3 DEF BatchInv, WorkInv, Busy, Idle
  <1>11. \A d \in Consumers \ {c} : BatchInv(d)' /\ WorkInv(d)'
    BY <1>3 DEF Inv, BatchInv, WorkInv
  <1> QED
    BY <1>5, <1>6, <1>7, <1>8, <1>9, <1>10, <1>11 DEF Inv

(* The handler takes up a job, for the first time. *)
LEMMA HandleStep ==
  ASSUME TypeOK, Inv, NEW c \in Consumers, HandleSyncJob(c)
  PROVE  TypeOK' /\ Inv'
  <1> DEFINE n == consumer[c].next
             job == stream[n]
             stage == IF Targets(job) = {} THEN "acking" ELSE "syncing"
             l == [consumer[c] EXCEPT !.todo = Targets(job), !.stage = stage]
  <1>1. /\ consumer[c].stage = "handling" /\ Allowed(job) /\ Begin(c) /\ Become(c, l)
        /\ UNCHANGED <<stream, delivered, pending, synced, failures>>
    BY DEF HandleSyncJob
  <1>2. /\ consumer[c] \in Consumer /\ job \in SyncJob
        /\ n \in 1..consumer[c].last /\ consumer[c].last \in 1..delivered
        /\ n \in Places /\ n \in InHand(c) /\ delivered \in Nat
        /\ \A d \in Consumers \ {c} : n \notin InHand(d)
    BY <1>1, InWork DEF Busy
  <1>3. /\ l \in Consumer /\ l.next = n /\ l.last = consumer[c].last
        /\ l.todo = Targets(job) /\ l.stage \in {"acking", "syncing"}
        /\ l.stage = "acking" => l.todo = {}
    BY <1>2, TargetsType DEF Consumer, Stages
  <1> HIDE DEF l, job
  <1>4. /\ consumer' \in [Consumers -> Consumer]
        /\ consumer'[c] = l /\ InHand(c)' = InHand(c)
        /\ \A d \in Consumers \ {c} : /\ consumer'[d] = consumer[d]
                                      /\ InHand(d)' = InHand(d)
                                      /\ Busy(d)' <=> Busy(d)
    BY <1>1, <1>3, OthersKeep DEF InHand
  <1>5. /\ runs' \in [Places -> Nat] /\ runs'[n] = 1
        /\ \A m \in Places \ {n} : runs'[m] = runs[m]
    <2>1. runs \in [Places -> Nat] /\ runs[n] = 0
      BY <1>1, <1>2 DEF TypeOK, Inv, RunsInv
    <2> QED
      BY <1>1, <1>2, <2>1 DEF Begin
  <1>6. TypeOK'
    BY <1>1, <1>4, <1>5 DEF TypeOK
  <1>7. HandsAreDisjoint' /\ AckedIsSynced'
    BY <1>1, <1>4 DEF Inv, HandsAreDisjoint, AckedIsSynced, Acked
  <1>8. RunAtMostOnce'
    BY <1>5 DEF Inv, RunAtMostOnce
  <1>9. RunsInv'
    <2>1. \A d \in Consumers : InHand(d) \subseteq Places
      BY HandsArePlaces
    <2>2. \A m \in Places : m > delivered' => runs'[m] = 0
      BY <1>1, <1>2, <1>5 DEF Inv, RunsInv, Places
    <2>3. \A m \in InHand(c)' : m # consumer'[c].next => runs'[m] = 0
      BY <1>3, <1>4, <1>5, <2>1 DEF Inv, RunsInv
    <2>4. ASSUME NEW d \in Consumers \ {c}, NEW m \in InHand(d)
          PROVE  runs'[m] = runs[m]
      BY <1>2, <1>5, <2>1
    <2> QED
      BY <1>3, <1>4, <2>2, <2>3, <2>4 DEF Inv, RunsInv
  <1>10. BatchInv(c)' /\ WorkInv(c)'
    BY <1>1, <1>2, <1>3, <1>4 DEF BatchInv, WorkInv, Busy, job
  <1>11. \A d \in Consumers \ {c} : BatchInv(d)' /\ WorkInv(d)'
    BY <1>1, <1>4 DEF Inv, BatchInv, WorkInv
  <1> QED
    BY <1>6, <1>7, <1>8, <1>9, <1>10, <1>11 DEF Inv

(* One more connection is synced for the message in work. *)
LEMMA SyncStep ==
  ASSUME TypeOK, Inv, NEW c \in Consumers, NEW k \in Conns, SyncUserTransactions(c, k)
  PROVE  TypeOK' /\ Inv'
  <1> DEFINE n == consumer[c].next
             l == AfterConnection(consumer[c], k)
  <1>1. /\ consumer[c].stage = "syncing" /\ k \in consumer[c].todo
        /\ synced' = synced \cup {<<n, k>>} /\ Become(c, l)
        /\ UNCHANGED <<stream, delivered, pending, runs, failures>>
    BY DEF SyncUserTransactions
  <1>2. /\ consumer[c] \in Consumer /\ n \in Places
        /\ n \in 1..consumer[c].last /\ consumer[c].last \in 1..delivered
    BY <1>1, InWork DEF Busy
  <1>3. /\ l \in Consumer /\ l.next = n /\ l.last = consumer[c].last
        /\ l.todo = consumer[c].todo \ {k} /\ l.stage \in {"acking", "syncing"}
        /\ l.stage = "acking" => l.todo = {}
    BY <1>2 DEF Consumer, Stages, AfterConnection
  <1> HIDE DEF l
  <1>4. /\ consumer' \in [Consumers -> Consumer]
        /\ consumer'[c] = l /\ InHand(c)' = InHand(c)
        /\ \A d \in Consumers \ {c} : /\ consumer'[d] = consumer[d]
                                      /\ InHand(d)' = InHand(d)
                                      /\ Busy(d)' <=> Busy(d)
    BY <1>1, <1>3, OthersKeep DEF InHand
  <1>5. TypeOK'
    BY <1>1, <1>2, <1>4 DEF TypeOK
  <1>6. HandsAreDisjoint' /\ AckedIsSynced' /\ RunAtMostOnce'
    BY <1>1, <1>4 DEF Inv, HandsAreDisjoint, AckedIsSynced, Acked, RunAtMostOnce
  <1>7. RunsInv'
    BY <1>1, <1>3, <1>4 DEF Inv, RunsInv
  <1>8. BatchInv(c)'
    BY <1>1, <1>2, <1>3, <1>4 DEF BatchInv, Busy
  <1>9. WorkInv(c)'
    BY <1>1, <1>3, <1>4 DEF Inv, WorkInv
  <1>10. \A d \in Consumers \ {c} : BatchInv(d)' /\ WorkInv(d)'
    BY <1>1, <1>4 DEF Inv, BatchInv, WorkInv
  <1> QED
    BY <1>5, <1>6, <1>7, <1>8, <1>9, <1>10 DEF Inv

-----------------------------------------------------------------------------
(* Every step keeps the invariant. *)
LEMMA NextStep == TypeOK /\ Inv /\ [Next]_vars => TypeOK' /\ Inv'
  <1> SUFFICES ASSUME TypeOK, Inv, [Next]_vars PROVE TypeOK' /\ Inv'
    OBVIOUS
  <1>1. ASSUME NEW job \in SyncJob, Enqueue(job) PROVE TypeOK' /\ Inv'
    BY <1>1, EnqueueStep
  <1>2. ASSUME NEW c \in Consumers, Progress(c) PROVE TypeOK' /\ Inv'
    <2> failures \in 0..MaxFailures
      BY DEF TypeOK
    <2>1. CASE EnsureGroup(c)
      BY <2>1, ReleaseStep DEF EnsureGroup
    <2>2. CASE XReadGroup(c)
      BY <2>2, ReadStep DEF XReadGroup
    <2>3. CASE HandleSyncJob(c)
      BY <2>3, HandleStep
    <2>4. CASE HandleRefused(c)
      BY <2>4, MoveOnStep DEF HandleRefused, Busy
    <2>5. CASE \E k \in Conns : SyncUserTransactions(c, k)
      BY <2>5, SyncStep
    <2>6. CASE XAck(c)
      BY <2>6, MoveOnStep DEF XAck, Busy
    <2> QED
      BY <1>2, <2>1, <2>2, <2>3, <2>4, <2>5, <2>6 DEF Progress
  <1>3. ASSUME NEW c \in Consumers, Breakage(c) PROVE TypeOK' /\ Inv'
    <2>1. Failure => failures' \in 0..MaxFailures
      BY StreamAssumption DEF TypeOK, Failure
    <2>2. CASE ConsumeReturns(c)
      BY <2>1, <2>2, ReleaseStep DEF ConsumeReturns
    <2>3. CASE ReadReplyLost(c)
      <3>1. PICK stage \in {"reading", "stopped"} : Become(c, Idle(stage))
        BY <2>3 DEF ReadReplyLost
      <3>2. Idle(stage) \in Consumer
        BY DEF Idle, Consumer, Stages
      <3> QED
        BY <2>1, <2>3, <3>1, <3>2, DeliverStep DEF ReadReplyLost, Busy
    <2>4. CASE HandlerFails(c)
      BY <2>1, <2>4, MoveOnStep DEF HandlerFails, Busy
    <2>5. CASE XAckFails(c)
      BY <2>1, <2>5, MoveOnStep DEF XAckFails, Busy
    <2>6. CASE Crash(c)
      BY <2>1, <2>6, ReleaseStep DEF Crash
    <2> QED
      BY <1>3, <2>2, <2>3, <2>4, <2>5, <2>6 DEF Breakage
  <1>4. ASSUME NEW c \in Consumers, Restart(c) PROVE TypeOK' /\ Inv'
    <2> failures \in 0..MaxFailures
      BY DEF TypeOK
    <2> QED
      BY <1>4, ReleaseStep DEF Restart
  <1>5. CASE UNCHANGED vars
    BY <1>5 DEF vars, TypeOK, Inv, HandsAreDisjoint, AckedIsSynced, Acked,
                RunAtMostOnce, RunsInv, BatchInv, WorkInv, Busy, InHand
  <1> QED
    BY <1>1, <1>2, <1>3, <1>4, <1>5 DEF Next

(* The inductive invariant holds throughout: the pending list, the
   acknowledgements and the runs are explained by the batches in hand. *)
THEOREM InvHolds == Spec => [](TypeOK /\ Inv)
  BY InitInv, NextStep, PTL DEF Spec

(* Type correctness: the group's place stays within the stream and the
   pending list behind it. *)
THEOREM TypeCorrect == Spec => []TypeOK
  BY InvHolds, PTL

(* No message is in the hands of two consumers, and what is in hand is
   pending. *)
THEOREM HandsStayDisjoint == Spec => []HandsAreDisjoint
  <1>1. Inv => HandsAreDisjoint
    BY DEF Inv
  <1> QED
    BY <1>1, InvHolds, PTL

(* Only finished work is acknowledged. *)
THEOREM AckedStaysSynced == Spec => []AckedIsSynced
  <1>1. Inv => AckedIsSynced
    BY DEF Inv
  <1> QED
    BY <1>1, InvHolds, PTL

(* No message is given to a handler twice. *)
THEOREM NeverRunTwice == Spec => []RunAtMostOnce
  <1>1. Inv => RunAtMostOnce
    BY DEF Inv
  <1> QED
    BY <1>1, InvHolds, PTL

-----------------------------------------------------------------------------
(* The refinement of JobQueue. *)

Held(m) == \E c \in Consumers : m \in InHand(c)

\* What the state of a message in the abstract queue means here.
StatesFit ==
    \A m \in Places :
        /\ JobState(m) \in {"absent", "queued", "taken", "done", "left"}
        /\ JobState(m) = "absent" <=> m > Len(stream)
        /\ JobState(m) = "queued" <=> m > delivered /\ m <= Len(stream)
        /\ JobState(m) = "done" <=> m <= delivered /\ m \notin pending
        /\ JobState(m) = "left" <=> m \in pending /\ ~Held(m)
        /\ JobState(m) = "taken" <=> Held(m)

(* A message is in exactly one state, and "taken" is being in hand. *)
LEMMA JobStates == TypeOK /\ Inv => StatesFit
  <1> SUFFICES ASSUME TypeOK, Inv, NEW m \in Places
               PROVE  /\ JobState(m) \in {"absent", "queued", "taken", "done", "left"}
                      /\ JobState(m) = "absent" <=> m > Len(stream)
                      /\ JobState(m) = "queued" <=> m > delivered /\ m <= Len(stream)
                      /\ JobState(m) = "done" <=> m <= delivered /\ m \notin pending
                      /\ JobState(m) = "left" <=> m \in pending /\ ~Held(m)
                      /\ JobState(m) = "taken" <=> Held(m)
    BY DEF StatesFit
  <1>1. /\ m \in Nat \ {0} /\ delivered \in Nat /\ Len(stream) \in Nat
        /\ delivered <= Len(stream) /\ pending \subseteq 1..delivered
    BY StreamAssumption DEF TypeOK, Places
  <1>2. Held(m) => m \in pending
    BY DEF Held, Inv, HandsAreDisjoint
  <1>3. Stranded(m) <=> m \in pending /\ ~Held(m)
    BY DEF Stranded, Held
  <1>4. /\ m \in Acked <=> m <= delivered /\ m \notin pending
        /\ m \in (delivered + 1)..Len(stream) <=> m > delivered /\ m <= Len(stream)
    BY <1>1 DEF Acked
  <1>5. JobState(m) = IF m > Len(stream) THEN "absent"
                      ELSE IF m > delivered THEN "queued"
                      ELSE IF m \notin pending THEN "done"
                      ELSE IF ~Held(m) THEN "left" ELSE "taken"
    BY <1>1, <1>2, <1>3, <1>4 DEF JobState
  <1> QED
    BY <1>1, <1>2, <1>5

(* The same in the next state. *)
LEMMA NextJobStates == TypeOK' /\ Inv' => StatesFit'
  BY JobStates, PTL

\* The step moves the messages of S to state s and no others.
Moves(S, s) ==
    /\ \A m \in S : JobState(m)' = s
    /\ \A m \in Places \ S : JobState(m)' = JobState(m)

(* Such a step is what the abstract queue calls a move. *)
LEMMA MovesIsMove ==
  ASSUME NEW S \in SUBSET Places, NEW s, Moves(S, s)
  PROVE  Q!Move(S, s)
  BY DEF Moves, Q!Move

(* XADD puts the next message into the queue. *)
LEMMA EnqueueIsPut ==
  ASSUME TypeOK, StatesFit, StatesFit', NEW job \in SyncJob, Enqueue(job)
  PROVE  Q!Put
  <1> DEFINE n == Len(stream) + 1
  <1>1. /\ Len(stream) \in Nat /\ Len(stream) < MaxJobs /\ Len(stream') = n
        /\ delivered \in Nat /\ delivered <= Len(stream) /\ pending \subseteq 1..delivered
    BY DEF TypeOK, Enqueue
  <1>2. n \in Places /\ Places \subseteq Nat
    BY <1>1, StreamAssumption DEF Places
  <1>3. UNCHANGED <<delivered, pending>> /\ \A m \in Places : Held(m)' <=> Held(m)
    BY DEF Enqueue, Held, InHand
  <1>4. Moves({n}, "queued")
    BY <1>1, <1>2, <1>3 DEF Moves, StatesFit
  <1>5. Q!Heads({n}, "absent")
    BY <1>1, <1>2 DEF Q!Heads, Q!In, StatesFit
  <1> QED
    BY <1>2, <1>4, <1>5, MovesIsMove DEF Q!Put

(* A loop that gives up its batch leaves all of it behind. *)
LEMMA ReleaseIsLeave ==
  ASSUME TypeOK, Inv, StatesFit, StatesFit', NEW c \in Consumers,
         NEW stage \in {"starting", "reading", "stopped", "down"},
         Become(c, Idle(stage)), UNCHANGED <<stream, delivered, pending>>
  PROVE  Q!Leave
  <1>1. Idle(stage) \in Consumer /\ Idle(stage).next..Idle(stage).last = {}
    BY DEF Idle, Consumer, Stages
  <1>2. InHand(c)' = {} /\ \A d \in Consumers \ {c} : InHand(d)' = InHand(d)
    BY <1>1, OthersKeep
  <1>3. \A m : Held(m)' <=> Held(m) /\ m \notin InHand(c)
    BY <1>2 DEF Held, Inv, HandsAreDisjoint
  <1>4. InHand(c) \subseteq pending /\ InHand(c) \subseteq Places
    BY HandsArePlaces DEF Inv, HandsAreDisjoint
  <1>5. Moves(InHand(c), "left")
    BY <1>3, <1>4 DEF Moves, StatesFit
  <1>6. InHand(c) \subseteq Q!In("taken")
    BY <1>4 DEF Q!In, StatesFit, Held
  <1> QED
    BY <1>4, <1>5, <1>6, MovesIsMove DEF Q!Leave

(* A batch handed out is taken from the front of the queue, by the loop that
   asked for it, or lost if its reply does not arrive. *)
LEMMA DeliverIsTakeOrLose ==
  ASSUME TypeOK, Inv, StatesFit, StatesFit', NEW c \in Consumers, ~Busy(c), Deliver,
         NEW l \in Consumer, Become(c, l), UNCHANGED stream,
         \/ l = Idle("reading") \/ l = Idle("stopped")
         \/ l.next = delivered + 1 /\ l.last = delivered'
  PROVE  Q!Take \/ Q!Lose
  <1>1. /\ delivered' \in (delivered + 1)..Len(stream)
        /\ NewBatch = (delivered + 1)..delivered'
        /\ pending' = pending \cup NewBatch
    BY DeliverEffect
  <1>2. /\ delivered \in Nat /\ delivered' \in Nat /\ Len(stream) \in Nat
        /\ Len(stream) <= MaxJobs /\ pending \subseteq 1..delivered
        /\ Places \subseteq Nat
    BY <1>1, StreamAssumption DEF TypeOK, Places
  <1>3. NewBatch \subseteq Places
    BY <1>1, <1>2, StreamAssumption DEF Places
  <1>4. /\ InHand(c) = {} /\ InHand(c)' = l.next..l.last
        /\ \A d \in Consumers \ {c} : InHand(d)' = InHand(d)
    BY OthersKeep, EmptyHands
  <1>5. Q!Heads(NewBatch, "queued")
    BY <1>1, <1>2, <1>3 DEF Q!Heads, Q!In, StatesFit
  <1>6. \A m \in NewBatch : m \notin pending /\ ~Held(m)
    BY <1>1, <1>2 DEF Held, Inv, HandsAreDisjoint
  <1>7. CASE l = Idle("reading") \/ l = Idle("stopped")
    <2>1. \A m \in Places : Held(m)' <=> Held(m)
      BY <1>4, <1>7 DEF Held, Idle
    <2>2. Moves(NewBatch, "left")
      BY <1>1, <1>2, <1>3, <1>6, <2>1 DEF Moves, StatesFit
    <2> QED
      BY <1>3, <1>5, <2>2, MovesIsMove DEF Q!Lose
  <1>8. CASE l.next = delivered + 1 /\ l.last = delivered'
    <2>1. \A m \in Places : Held(m)' <=> Held(m) \/ m \in NewBatch
      BY <1>1, <1>4, <1>8 DEF Held
    <2>2. Moves(NewBatch, "taken")
      BY <1>1, <1>2, <1>3, <1>6, <2>1 DEF Moves, StatesFit
    <2> QED
      BY <1>3, <1>5, <2>2, MovesIsMove DEF Q!Take
  <1> QED
    BY <1>7, <1>8

(* A loop that is done with a message has finished it, if it was acknowledged,
   or leaves it behind. *)
LEMMA MoveOnIsFinishOrLeave ==
  ASSUME TypeOK, Inv, StatesFit, StatesFit', NEW c \in Consumers, Busy(c),
         Become(c, AfterMessage(consumer[c])), UNCHANGED <<stream, delivered>>,
         \/ pending' = pending
         \/ pending' = pending \ {consumer[c].next}
  PROVE  Q!Finish \/ Q!Leave
  <1> DEFINE n == consumer[c].next
             l == AfterMessage(consumer[c])
  <1>1. /\ consumer[c] \in Consumer /\ n \in 1..consumer[c].last
        /\ n \in Places /\ n \in InHand(c) /\ n \in pending /\ n <= delivered
        /\ \A d \in Consumers \ {c} : n \notin InHand(d)
    BY InWork
  <1>2. l \in Consumer /\ l.next..l.last = InHand(c) \ {n}
    BY <1>1, AfterMessageEffect DEF InHand
  <1>3. /\ InHand(c)' = InHand(c) \ {n}
        /\ \A d \in Consumers \ {c} : InHand(d)' = InHand(d)
    BY <1>2, OthersKeep
  <1>4. \A m \in Places : Held(m)' <=> Held(m) /\ m # n
    BY <1>1, <1>3 DEF Held
  <1>5. n \in Q!In("taken")
    BY <1>1 DEF Q!In, StatesFit, Held
  <1>6. CASE pending' = pending
    <2>1. Moves({n}, "left")
      BY <1>1, <1>4, <1>6 DEF Moves, StatesFit
    <2> QED
      BY <1>1, <1>5, <2>1, MovesIsMove DEF Q!Leave
  <1>7. CASE pending' = pending \ {n}
    <2>1. Moves({n}, "done")
      BY <1>1, <1>4, <1>7 DEF Moves, StatesFit
    <2> QED
      BY <1>1, <1>5, <2>1, MovesIsMove DEF Q!Finish
  <1> QED
    BY <1>6, <1>7

(* Work inside the handler does not show in the queue. *)
LEMMA WorkIsHidden ==
  ASSUME TypeOK, StatesFit, StatesFit', NEW c \in Consumers, NEW l \in Consumer,
         l.next = consumer[c].next, l.last = consumer[c].last, Become(c, l),
         UNCHANGED <<stream, delivered, pending>>
  PROVE  UNCHANGED [m \in Places |-> JobState(m)]
  <1>1. \A m \in Places : Held(m)' <=> Held(m)
    BY OthersKeep DEF Held, InHand
  <1>2. \A m \in Places : JobState(m)' = JobState(m)
    BY <1>1 DEF StatesFit
  <1> QED
    BY <1>2

(* XREADGROUP takes its batch from the front of the queue. *)
LEMMA ReadIsTake ==
  ASSUME TypeOK, Inv, StatesFit, StatesFit', NEW c \in Consumers, XReadGroup(c)
  PROVE  Q!Take \/ Q!Lose
  <1>1. PICK l \in Consumer : Become(c, l) /\ l.next = delivered + 1 /\ l.last = delivered'
    BY ReadBatch
  <1>2. Deliver /\ ~Busy(c) /\ UNCHANGED stream
    BY DEF XReadGroup, Busy
  <1> QED
    BY <1>1, <1>2, DeliverIsTakeOrLose

(* Taking up a job does not show in the queue. *)
LEMMA HandleIsHidden ==
  ASSUME TypeOK, Inv, StatesFit, StatesFit', NEW c \in Consumers, HandleSyncJob(c)
  PROVE  UNCHANGED [m \in Places |-> JobState(m)]
  <1> DEFINE job == stream[consumer[c].next]
             l == [consumer[c] EXCEPT !.todo = Targets(job),
                     !.stage = IF Targets(job) = {} THEN "acking" ELSE "syncing"]
  <1>1. Become(c, l) /\ UNCHANGED <<stream, delivered, pending>>
    BY DEF HandleSyncJob
  <1>2. consumer[c] \in Consumer /\ job \in SyncJob
    BY InWork DEF HandleSyncJob, Busy
  <1>3. l \in Consumer /\ l.next = consumer[c].next /\ l.last = consumer[c].last
    BY <1>2, TargetsType DEF Consumer, Stages
  <1> HIDE DEF l
  <1> QED
    BY <1>1, <1>3, WorkIsHidden

(* Nor does syncing a connection. *)
LEMMA SyncIsHidden ==
  ASSUME TypeOK, Inv, StatesFit, StatesFit', NEW c \in Consumers, NEW k \in Conns,
         SyncUserTransactions(c, k)
  PROVE  UNCHANGED [m \in Places |-> JobState(m)]
  <1> DEFINE l == AfterConnection(consumer[c], k)
  <1>1. Become(c, l) /\ UNCHANGED <<stream, delivered, pending>>
    BY DEF SyncUserTransactions
  <1>2. l \in Consumer /\ l.next = consumer[c].next /\ l.last = consumer[c].last
    BY DEF TypeOK, Consumer, Stages, AfterConnection
  <1> HIDE DEF l
  <1> QED
    BY <1>1, <1>2, WorkIsHidden

(* The stream implements the abstract queue: each message is handed out at
   most once and in order, and one that is acknowledged or left behind is
   never taken again, whatever consumers race, fail and restart. *)
THEOREM ImplementsJobQueue == Spec => JobQueueSpec
  <1> DEFINE state == [m \in Places |-> JobState(m)]
  <1>1. Init => Q!Init
    <2> SUFFICES ASSUME Init, NEW m \in Places PROVE JobState(m) = "absent"
      BY DEF Q!Init
    <2>1. StatesFit
      BY InitInv, JobStates
    <2>2. Len(stream) = 0 /\ m \in Nat \ {0}
      BY StreamAssumption DEF Init, Places
    <2> QED
      BY <2>1, <2>2 DEF StatesFit
  <1>2. TypeOK /\ Inv /\ [Next]_vars => [Q!Next]_state
    <2> SUFFICES ASSUME TypeOK, Inv, [Next]_vars PROVE Q!Next \/ UNCHANGED state
      OBVIOUS
    <2>1. StatesFit /\ StatesFit'
      BY JobStates, NextJobStates, NextStep
    <2>2. ASSUME NEW job \in SyncJob, Enqueue(job) PROVE Q!Next
      BY <2>1, <2>2, EnqueueIsPut DEF Q!Next
    <2>3. ASSUME NEW c \in Consumers, Progress(c) PROVE Q!Next \/ UNCHANGED state
      <3>1. CASE EnsureGroup(c)
        BY <2>1, <3>1, ReleaseIsLeave DEF EnsureGroup, Q!Next
      <3>2. CASE XReadGroup(c)
        BY <2>1, <3>2, ReadIsTake DEF Q!Next
      <3>3. CASE HandleSyncJob(c)
        BY <2>1, <3>3, HandleIsHidden
      <3>4. CASE HandleRefused(c)
        BY <2>1, <3>4, MoveOnIsFinishOrLeave DEF HandleRefused, Busy, Q!Next
      <3>5. CASE \E k \in Conns : SyncUserTransactions(c, k)
        BY <2>1, <3>5, SyncIsHidden
      <3>6. CASE XAck(c)
        BY <2>1, <3>6, MoveOnIsFinishOrLeave DEF XAck, Busy, Q!Next
      <3> QED
        BY <2>3, <3>1, <3>2, <3>3, <3>4, <3>5, <3>6 DEF Progress
    <2>4. ASSUME NEW c \in Consumers, Breakage(c) PROVE Q!Next
      <3>1. CASE ConsumeReturns(c)
        BY <2>1, <3>1, ReleaseIsLeave DEF ConsumeReturns, Q!Next
      <3>2. CASE ReadReplyLost(c)
        <4>1. PICK stage \in {"reading", "stopped"} : Become(c, Idle(stage))
          BY <3>2 DEF ReadReplyLost
        <4>2. Idle(stage) \in Consumer
          BY DEF Idle, Consumer, Stages
        <4> QED
          BY <2>1, <3>2, <4>1, <4>2, DeliverIsTakeOrLose DEF ReadReplyLost, Busy, Q!Next
      <3>3. CASE HandlerFails(c)
        BY <2>1, <3>3, MoveOnIsFinishOrLeave DEF HandlerFails, Busy, Q!Next
      <3>4. CASE XAckFails(c)
        BY <2>1, <3>4, MoveOnIsFinishOrLeave DEF XAckFails, Busy, Q!Next
      <3>5. CASE Crash(c)
        BY <2>1, <3>5, ReleaseIsLeave DEF Crash, Q!Next
      <3> QED
        BY <2>4, <3>1, <3>2, <3>3, <3>4, <3>5 DEF Breakage
    <2>5. ASSUME NEW c \in Consumers, Restart(c) PROVE Q!Next
      BY <2>1, <2>5, ReleaseIsLeave DEF Restart, Q!Next
    <2>6. CASE UNCHANGED vars
      BY <2>6 DEF vars, JobState, Acked, Stranded, InHand
    <2> QED
      BY <2>2, <2>3, <2>4, <2>5, <2>6 DEF Next
  <1> QED
    BY <1>1, <1>2, InvHolds, PTL DEF Spec, JobQueueSpec, Q!Spec
=============================================================================
