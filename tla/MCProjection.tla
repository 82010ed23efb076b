---------------------------- MODULE MCProjection ----------------------------
(* The write path and projection runners on small instances. *)
EXTENDS Projection

\* The worker service gives every runner the same name.
DefaultName == [w \in Runners |-> "default"]
=============================================================================
