----------------------------- MODULE SyncStream -----------------------------
(***************************************************************************)
(* The Redis stream sync_queue between the API and the sync workers: the   *)
(* producer, the consumer group sync_workers, and the loop of              *)
(* RedisStreamQueue.Consume with the handler HandleSyncJob, as run by      *)
(* sync-service and worker-service.                                        *)
(*                                                                         *)
(* A message is named by its place in the stream. Redis keeps the group's  *)
(* last-delivered place, which ">" reads past, and the pending list: what  *)
(* was delivered and not acknowledged. What was delivered and is no longer *)
(* pending has been acknowledged.                                          *)
(***************************************************************************)
EXTENDS Naturals, Sequences

CONSTANTS
    Consumers,   \* processes that run Consume on the group
    Users,
    Conns,       \* rows of sheets_connections
    Owner,       \* the user of each connection
    NoConn,      \* a job without connectionId: all connections of the user
    Count,       \* messages one XREADGROUP may return (10 in the code)
    MaxJobs,     \* bound on the stream's length
    MaxFailures  \* bound on errors and crashes

ASSUME StreamAssumption ==
    /\ Owner \in [Conns -> Users]
    /\ NoConn \notin Conns
    /\ Count \in Nat \ {0}
    /\ MaxJobs \in Nat
    /\ MaxFailures \in Nat

VARIABLES
    stream,      \* the stream's messages
    delivered,   \* the group's last-delivered place
    pending,     \* the group's pending entries list
    consumer,    \* the locals of each Consume loop
    synced,      \* history: <<m, c>>, connection c was synced for message m
    runs,        \* history: how often message m was given to the handler
    failures     \* history: errors and crashes so far

vars == <<stream, delivered, pending, consumer, synced, runs, failures>>

SyncJob == [userId: Users, connectionId: Conns \cup {NoConn}]

Places == 1..MaxJobs

\* starting: before ensureGroup; reading: at XREADGROUP; handling: about to
\* call the handler for message next; syncing: inside it, todo connections
\* left; acking: the handler returned nil; stopped: Consume returned an
\* error, the process lives on without it; down: the process died.
Stages == {"starting", "reading", "handling", "syncing", "acking",
           "stopped", "down"}

\* The batch in hand is next..last, the message in work is next.
Consumer == [stage: Stages, next: Nat, last: Nat, todo: SUBSET Conns]

Idle(stage) == [stage |-> stage, next |-> 1, last |-> 0, todo |-> {}]

InHand(c) == consumer[c].next..consumer[c].last

-----------------------------------------------------------------------------
(* Producers. *)

\* XADD, from the API after a commit (no connection) or from
\* handleSyncTrigger, which passes on the connectionId it was sent.
Enqueue(job) ==
    /\ Len(stream) < MaxJobs
    /\ stream' = Append(stream, job)
    /\ UNCHANGED <<delivered, pending, consumer, synced, runs, failures>>

-----------------------------------------------------------------------------
(* The loop of Consume. *)

Become(c, l) == consumer' = [consumer EXCEPT ![c] = l]

\* ensureGroup: XGROUP CREATE ... 0 MKSTREAM, or BUSYGROUP. A new group
\* starts at the beginning of the stream, an old one keeps its place.
EnsureGroup(c) ==
    /\ consumer[c].stage = "starting"
    /\ Become(c, Idle("reading"))
    /\ UNCHANGED <<stream, delivered, pending, synced, runs, failures>>

\* Mutation: the loop reads from 0, what is pending, before it reads on.
BatchFromZero == (CHOOSE m \in pending \cup {delivered + 1} :
                    \A k \in pending : m <= k)..Len(stream)

\* What ">" returns: messages no consumer of the group has been given.
NewBatch ==
    (delivered + 1)..(IF delivered + Count < Len(stream)
                      THEN delivered + Count ELSE Len(stream))

\* Mutation: the place moves by a full batch although fewer were read.
DeliverFullCount ==
    /\ NewBatch # {}
    /\ delivered' = delivered + Count
    /\ pending' = pending \cup NewBatch

\* The effect of XREADGROUP in Redis.
Deliver ==
    /\ NewBatch # {}
    /\ delivered' = IF Len(stream) < delivered + Count
                    THEN Len(stream) ELSE delivered + Count
    /\ pending' = pending \cup NewBatch

\* An empty reply (redis.Nil) goes round the loop and changes nothing.
XReadGroup(c) ==
    /\ consumer[c].stage = "reading"
    /\ Deliver
    /\ Become(c, [stage |-> "handling", todo |-> {},
                  next |-> CHOOSE m \in NewBatch : \A k \in NewBatch : m <= k,
                  last |-> CHOOSE m \in NewBatch : \A k \in NewBatch : k <= m])
    /\ UNCHANGED <<stream, synced, runs, failures>>

\* The connections a job is about, and whether the handler accepts it:
\* a connectionId of another user is refused.
Targets(job) ==
    IF job.connectionId = NoConn
    THEN {k \in Conns : Owner[k] = job.userId} ELSE {job.connectionId}

Allowed(job) == job.connectionId # NoConn => Owner[job.connectionId] = job.userId

\* The loop after it is done with a message, acknowledged or not.
AfterMessage(l) ==
    IF l.next = l.last THEN Idle("reading")
    ELSE [l EXCEPT !.stage = "handling", !.next = @ + 1, !.todo = {}]

Begin(c) == runs' = [runs EXCEPT ![consumer[c].next] = @ + 1]

\* HandleSyncJob lists the user's connections, or takes the one named.
HandleSyncJob(c) ==
    LET job == stream[consumer[c].next]
    IN  /\ consumer[c].stage = "handling"
        /\ Allowed(job)
        /\ Begin(c)
        /\ Become(c, [consumer[c] EXCEPT !.todo = Targets(job),
                        !.stage = IF Targets(job) = {} THEN "acking" ELSE "syncing"])
        /\ UNCHANGED <<stream, delivered, pending, synced, failures>>

\* "connection not found or does not belong to user": not acknowledged.
HandleRefused(c) ==
    /\ consumer[c].stage = "handling"
    /\ ~Allowed(stream[consumer[c].next])
    /\ Begin(c)
    /\ Become(c, AfterMessage(consumer[c]))
    /\ UNCHANGED <<stream, delivered, pending, synced, failures>>

\* The handler goes to the user's next connection or returns nil.
AfterConnection(l, k) ==
    [l EXCEPT !.todo = @ \ {k},
              !.stage = IF l.todo = {k} THEN "acking" ELSE "syncing"]

\* SyncUserTransactions for one connection, to its end.
SyncUserTransactions(c, k) ==
    /\ consumer[c].stage = "syncing"
    /\ k \in consumer[c].todo
    /\ synced' = synced \cup {<<consumer[c].next, k>>}
    /\ Become(c, AfterConnection(consumer[c], k))
    /\ UNCHANGED <<stream, delivered, pending, runs, failures>>

XAck(c) ==
    /\ consumer[c].stage = "acking"
    /\ pending' = pending \ {consumer[c].next}
    /\ Become(c, AfterMessage(consumer[c]))
    /\ UNCHANGED <<stream, delivered, synced, runs, failures>>

-----------------------------------------------------------------------------
(* What goes wrong. *)

Failure ==
    /\ failures < MaxFailures
    /\ failures' = failures + 1

\* ensureGroup or XREADGROUP fails: Consume returns, nobody calls it again.
ConsumeReturns(c) ==
    /\ Failure
    /\ consumer[c].stage \in {"starting", "reading"}
    /\ Become(c, Idle("stopped"))
    /\ UNCHANGED <<stream, delivered, pending, synced, runs>>

\* Redis delivered a batch but its reply did not arrive. The client sends the
\* command again, which reads past that batch, or Consume returns the error.
ReadReplyLost(c) ==
    /\ Failure
    /\ consumer[c].stage = "reading"
    /\ Deliver
    /\ \E stage \in {"reading", "stopped"} : Become(c, Idle(stage))
    /\ UNCHANGED <<stream, synced, runs>>

\* Mutation: a failed job is acknowledged like one that succeeded.
HandlerFailsAcked(c) ==
    /\ Failure
    /\ consumer[c].stage \in {"handling", "syncing"}
    /\ IF consumer[c].stage = "handling" THEN Begin(c) ELSE UNCHANGED runs
    /\ pending' = pending \ {consumer[c].next}
    /\ Become(c, AfterMessage(consumer[c]))
    /\ UNCHANGED <<stream, delivered, synced>>

\* Mutation: a failed job ends the loop with the rest of the batch in hand.
HandlerFailsStuck(c) ==
    /\ Failure
    /\ consumer[c].stage \in {"handling", "syncing"}
    /\ IF consumer[c].stage = "handling" THEN Begin(c) ELSE UNCHANGED runs
    /\ Become(c, [consumer[c] EXCEPT !.stage = "stopped"])
    /\ UNCHANGED <<stream, delivered, pending, synced>>

\* The payload does not decode, a query or the sheet fails. The runner backs
\* off and returns the error; the loop goes on without XACK.
HandlerFails(c) ==
    /\ Failure
    /\ consumer[c].stage \in {"handling", "syncing"}
    /\ IF consumer[c].stage = "handling" THEN Begin(c) ELSE UNCHANGED runs
    /\ Become(c, AfterMessage(consumer[c]))
    /\ UNCHANGED <<stream, delivered, pending, synced>>

\* The error of XACK is ignored.
XAckFails(c) ==
    /\ Failure
    /\ consumer[c].stage = "acking"
    /\ Become(c, AfterMessage(consumer[c]))
    /\ UNCHANGED <<stream, delivered, pending, synced, runs>>

\* The process dies or shuts down; the batch in hand is forgotten.
Crash(c) ==
    /\ Failure
    /\ consumer[c].stage # "down"
    /\ Become(c, Idle("down"))
    /\ UNCHANGED <<stream, delivered, pending, synced, runs>>

Restart(c) ==
    /\ consumer[c].stage = "down"
    /\ Become(c, Idle("starting"))
    /\ UNCHANGED <<stream, delivered, pending, synced, runs, failures>>

-----------------------------------------------------------------------------
Init ==
    /\ stream = <<>>
    /\ delivered = 0
    /\ pending = {}
    /\ consumer = [c \in Consumers |-> Idle("starting")]
    /\ synced = {}
    /\ runs = [m \in Places |-> 0]
    /\ failures = 0

Progress(c) ==
    \/ EnsureGroup(c)
    \/ XReadGroup(c)
    \/ HandleSyncJob(c)
    \/ HandleRefused(c)
    \/ \E k \in Conns : SyncUserTransactions(c, k)
    \/ XAck(c)

Breakage(c) ==
    \/ ConsumeReturns(c)
    \/ ReadReplyLost(c)
    \/ HandlerFails(c)
    \/ XAckFails(c)
    \/ Crash(c)

Next ==
    \/ \E job \in SyncJob : Enqueue(job)
    \/ \E c \in Consumers : Progress(c) \/ Breakage(c) \/ Restart(c)

Spec == Init /\ [][Next]_vars

\* A running loop goes on. Nothing promises that a process is restarted:
\* docker-compose.yml has no restart policy.
FairSpec == Spec /\ \A c \in Consumers : WF_vars(Progress(c))

-----------------------------------------------------------------------------
(* Properties. *)

TypeOK ==
    /\ stream \in Seq(SyncJob)
    /\ Len(stream) <= MaxJobs
    /\ delivered \in 0..Len(stream)
    /\ pending \subseteq 1..delivered
    /\ consumer \in [Consumers -> Consumer]
    /\ synced \subseteq Places \X Conns
    /\ runs \in [Places -> Nat]
    /\ failures \in 0..MaxFailures

Acked == (1..delivered) \ pending

(* Competing consumers share the stream: no message is in the hands of two   *)
(* of them, what a consumer holds is pending until it is done with it, and   *)
(* the group's place is never behind it (Consume reads ">" only).            *)
HandsAreDisjoint ==
    \A c \in Consumers :
        /\ InHand(c) \subseteq pending
        /\ \A d \in Consumers \ {c} : InHand(c) \cap InHand(d) = {}

(* Only work that was done is acknowledged: every connection the job was     *)
(* about was synced for this message first, also when the handler fails      *)
(* half way, XACK fails or the consumer dies (Consume: "Do not ACK on        *)
(* failure").                                                                *)
AckedIsSynced ==
    \A m \in Acked : /\ Allowed(stream[m])
                     /\ \A k \in Targets(stream[m]) : <<m, k>> \in synced

(* A job is given to a handler at most once, whatever consumers race, fail,  *)
(* die and restart: the queue delivers at most once, and a connection is     *)
(* never synced twice for one message.                                       *)
RunAtMostOnce == \A m \in Places : runs[m] <= 1

\* The loop is somewhere between XREADGROUP and the end of its batch.
Busy(c) == consumer[c].stage \in {"handling", "syncing", "acking"}

\* The batch in hand has been delivered; without a batch the locals are idle.
BatchInv(c) ==
    IF Busy(c)
    THEN consumer[c].next \in 1..consumer[c].last /\ consumer[c].last <= delivered
    ELSE consumer[c] = Idle(consumer[c].stage)

\* What the handler has done so far for the message in work.
WorkInv(c) ==
    LET job == stream[consumer[c].next]
    IN  /\ consumer[c].stage \in {"syncing", "acking"} =>
              /\ Allowed(job)
              /\ \A k \in Targets(job) \ consumer[c].todo : <<consumer[c].next, k>> \in synced
        /\ consumer[c].stage = "acking" => consumer[c].todo = {}

\* What is not delivered, or waits in a batch, was given to no handler yet.
RunsInv ==
    /\ \A m \in Places : m > delivered => runs[m] = 0
    /\ \A c \in Consumers : \A m \in InHand(c) :
          m # consumer[c].next \/ consumer[c].stage = "handling" => runs[m] = 0

(* The inductive invariant: what each loop has in hand, and how far it got   *)
(* with it, explains the pending list, the acknowledgements and the runs     *)
(* (the locals of Consume and HandleSyncJob against the group in Redis).     *)
Inv ==
    /\ HandsAreDisjoint
    /\ AckedIsSynced
    /\ RunAtMostOnce
    /\ RunsInv
    /\ \A c \in Consumers : BatchInv(c) /\ WorkInv(c)

\* Delivered, not acknowledged, and no consumer has it in hand.
Stranded(m) ==
    /\ m \in pending
    /\ \A c \in Consumers : m \notin InHand(c)

(* Every message is dealt with while one consumer remains: it is             *)
(* acknowledged, or its handler, its consumer or its XACK failed and it is   *)
(* left in the pending list; a failing message never blocks those behind it. *)
(* Only when every loop has ended (Consume returns on the first error of     *)
(* XREADGROUP) does a message wait for ever.                                 *)
EveryJobSettles ==
    \A m \in Places :
        m <= Len(stream) ~> \/ m \in Acked \/ Stranded(m)
                            \/ \A c \in Consumers : consumer[c].stage \in {"stopped", "down"}

\* What has become of a message.
JobState(m) ==
    CASE m > Len(stream) -> "absent"
      [] m \in (delivered + 1)..Len(stream) -> "queued"
      [] m \in Acked -> "done"
      [] Stranded(m) -> "left"
      [] OTHER -> "taken"

(* Whatever consumers race, fail and restart, the stream is a queue that     *)
(* hands out each message once and in order: an acknowledged message and one *)
(* left behind are never taken again (XREADGROUP with ">" in Consume).       *)
Q == INSTANCE JobQueue WITH Jobs <- Places, state <- [m \in Places |-> JobState(m)]

JobQueueSpec == Q!Spec

(* "leave the message pending for retry via Redis consumer group semantics"  *)
(* (queue.go): a message left pending is taken up again.                     *)
PendingIsRetried == \A m \in Places : Stranded(m) ~> ~Stranded(m)
=============================================================================
