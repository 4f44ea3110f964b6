----------------------------- MODULE MCLimiter ------------------------------
(* Limiter for TLC.  Addresses are ordered and cannot be permuted. *)
EXTENDS Limiter, TLC

Symmetry == Permutations(Users) \cup Permutations(ConnIds)
=============================================================================
