----------------------------- MODULE LineOrder -----------------------------
(***************************************************************************)
(* The list surgery apply_op performs on a note's line order.              *)
(***************************************************************************)
EXTENDS Versions, Sequences

CONSTANTS
  Line,     \* line ids
  Top       \* "after_line_id: null" - the head of the note

ASSUME TopAssumption == Top \notin Line

Ids(s) == {s[i] : i \in 1 .. Len(s)}

(* collab.rs position_after, when it returns Some. *)
HasPosition(s, after) == after = Top \/ after \in Ids(s)

PositionAfter(s, after) ==
  IF after = Top THEN 0
  ELSE CHOOSE i \in 1 .. Len(s) : /\ s[i] = after
                                  /\ \A j \in 1 .. (i - 1) : s[j] # after

(* Vec::splice(p..p, block); Vec::insert is the case of a single id. *)
SpliceAt(s, p, block) == SubSeq(s, 1, p) \o block \o SubSeq(s, p + 1, Len(s))

(* iter().filter(|id| !gone.contains(id)).collect() *)
Without(s, gone) ==
  LET kept[i \in 0 .. Len(s)] ==
        IF i = 0 THEN << >>
        ELSE IF s[i] \in gone THEN kept[i - 1]
        ELSE Append(kept[i - 1], s[i])
  IN  kept[Len(s)]

Distinct(s) == \A i, j \in 1 .. Len(s) : s[i] = s[j] => i = j
=============================================================================
