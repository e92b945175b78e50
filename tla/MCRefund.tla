------------------------------ MODULE MCRefund ------------------------------
(* Instances of Refund for TLC. *)
EXTENDS Refund, TLC

\* Calls are interchangeable, and so are refund numbers.
Symmetry == Permutations(Refunds) \cup Permutations(Customers) \cup Permutations(Reviewers)
=============================================================================
