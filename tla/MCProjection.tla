---------------------------- MODULE MCProjection ----------------------------
(* Values for the constants of Projection. *)
EXTENDS Projection

CONSTANTS c1, c2, c3, w1, w2, i1

V(a, b) == [d \in Device |-> IF d = 1 THEN a ELSE b]

(* Device 1 creates and then deletes; device 2 edits what it saw created,  *)
(* concurrently with the deletion and later.                               *)
ThreeVersions ==
  [c \in Change |->
     CASE c = c1 -> [vv |-> V(1, 0), ts |-> 1, writer |-> 1]
       [] c = c2 -> [vv |-> V(2, 0), ts |-> 2, writer |-> 1]
       [] OTHER -> [vv |-> V(1, 1), ts |-> 3, writer |-> 2]]
ThreeOps == [c \in Change |-> IF c = c2 THEN "delete" ELSE "upsert"]
OnePlace == [w \in Worker |-> i1]
=============================================================================
