--------------------------- MODULE MCTransactions ---------------------------
(* The write path on small instances. *)
EXTENDS Transactions, TLC

\* Requests, users, amounts and the ids no row has yet are interchangeable.
Symmetry == Permutations(Requests) \cup Permutations(Ids \ Imported)
              \cup Permutations(Users) \cup Permutations(Amounts)
=============================================================================
