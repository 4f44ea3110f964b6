----------------------------- MODULE MCUserSync -----------------------------
(* UserSync for TLC: one Shadowsocks inbound and one of another type. *)
EXTENDS UserSync, TLC

Symmetry == Permutations(Users)
=============================================================================
