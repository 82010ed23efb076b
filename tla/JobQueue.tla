------------------------------ MODULE JobQueue ------------------------------
(***************************************************************************)
(* What the sync stream promises, without Redis and without consumers: a   *)
(* queue that hands out each job at most once and in order. A job is       *)
(* queued, then taken in a batch, and then either done or left; both are   *)
(* final.                                                                  *)
(***************************************************************************)
EXTENDS Naturals

CONSTANTS Jobs  \* the numbers of the jobs, in the order they are queued

VARIABLE state

States == {"absent", "queued", "taken", "done", "left"}

In(s) == {m \in Jobs : state[m] = s}

Move(S, s) == state' = [m \in Jobs |-> IF m \in S THEN s ELSE state[m]]

\* S is where the line of the jobs in state s begins.
Heads(S, s) == S # {} /\ S \subseteq In(s) /\ \A m \in S, k \in In(s) \ S : m < k

Init == state = [m \in Jobs |-> "absent"]

Put == \E m \in Jobs : Heads({m}, "absent") /\ Move({m}, "queued")

Take == \E S \in SUBSET Jobs : Heads(S, "queued") /\ Move(S, "taken")

Finish == \E m \in In("taken") : Move({m}, "done")

\* One job fails, or whoever holds several is gone.
Leave == \E S \in SUBSET In("taken") : Move(S, "left")

\* A batch is gone before anybody has it.
Lose == \E S \in SUBSET Jobs : Heads(S, "queued") /\ Move(S, "left")

Next == Put \/ Take \/ Finish \/ Leave \/ Lose

Spec == Init /\ [][Next]_state
=============================================================================
