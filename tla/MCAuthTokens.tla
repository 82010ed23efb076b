---------------------------- MODULE MCAuthTokens ----------------------------
(* Accounts and refresh tokens on small instances. *)
EXTENDS AuthTokens

\* "A" and "a" are one address typed in two ways.
Lower == [e \in Emails |-> IF e = "A" THEN "a" ELSE e]
=============================================================================
