------------------------------- MODULE MCHost -------------------------------
(* Host for TLC: a panel every node may use, one only a developer's may, and
   one New refuses. *)
EXTENDS Host

SomePanels ==
  {[scheme |-> "https", host |-> "remote"],
   [scheme |-> "http", host |-> "localhost"],
   [scheme |-> "http", host |-> "remote"]}
=============================================================================
