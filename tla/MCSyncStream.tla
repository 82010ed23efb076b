---------------------------- MODULE MCSyncStream ----------------------------
(* The sync stream with two consumers, on small instances. *)
EXTENDS SyncStream, TLC

CONSTANTS u1

\* All connections are one user's; another user has none.
OneOwner == [k \in Conns |-> u1]
=============================================================================
