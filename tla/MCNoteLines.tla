---------------------------- MODULE MCNoteLines ----------------------------
(* Values for the constants of NoteLines. *)
EXTENDS NoteLines, TLC

CONSTANTS l1, l2, h1, h2, s1

(* The first connection is device 1, every other one device 2. *)
Devices2 == [h \in Handler |-> IF h = h1 THEN 1 ELSE 2]
(* A client moves a selection of distinct lines. *)
DistinctBlocks == {s \in UNION {[1 .. n -> Line] : n \in 0 .. 2} : Distinct(s)}
(* Line ids are only compared for equality. *)
Interchangeable == Permutations({l1, l2})
SingleBlocks == {<<l>> : l \in Line}
=============================================================================
