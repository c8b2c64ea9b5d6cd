---------------------------- MODULE MCSyncRelay ----------------------------
(* Values for the constants of SyncRelay. *)
EXTENDS SyncRelay, TLC

CONSTANTS i1, i2, laptop, phone, w, p, q, b1, b2

(* w is the laptop's connection; the phone has p, and q on the second      *)
(* instance.                                                               *)
Owner == [c \in Conn |-> IF c = w THEN laptop ELSE phone]
Placement == [c \in Conn |-> IF c = q THEN i2 ELSE i1]

(* One author, or one for each batch. *)
LaptopWrites == [b \in Batch |-> laptop]
BothWrite == [b \in Batch |-> IF b = b1 THEN laptop ELSE phone]
Interchangeable == Permutations(Batch)
=============================================================================
