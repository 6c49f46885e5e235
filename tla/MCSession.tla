------------------------------ MODULE MCSession ------------------------------
(* Instances of Session for TLC. *)
EXTENDS Session, TLC

\* Users and requests are interchangeable.
Symmetry == Permutations(Users) \cup Permutations(Requests)
=============================================================================
