------------------------------ MODULE MCSharing ------------------------------
(* Values for the constants of Sharing. *)
EXTENDS Sharing, TLC

CONSTANTS u1, u2, n1, b1, b2, h1, h2

(* A grant of each kind the rules tell apart. *)
SomeGrants == {{"read"}, {"share_write"}, {"manage"}}
Interchangeable ==
  Permutations({u1, u2}) \cup Permutations({b1, b2}) \cup Permutations({h1, h2})
=============================================================================
