-------------------------- MODULE MCCollabSession --------------------------
(* Values for the constants of CollabSession. *)
EXTENDS CollabSession, TLC

CONSTANTS i1, i2, a, b, z

(* z is on the second instance, the others share the first. *)
Placement == [c \in Conn |-> IF c = z THEN i2 ELSE i1]
Interchangeable == Permutations({a, b})
=============================================================================
