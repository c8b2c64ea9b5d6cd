----------------------------- MODULE Versions ------------------------------
(***************************************************************************)
(* Version vectors and the resolution of a write against a stored version  *)
(* (keeplin-core's note_log::resolve, which lives outside this             *)
(* repository), used by collaborative editing and by the projection.       *)
(*                                                                         *)
(* A version vector is a JSON map from device id to counter; an absent key *)
(* reads as zero, so the model keeps total functions into Nat.             *)
(***************************************************************************)
EXTENDS Naturals

CONSTANT Device   \* writers; compared by the tie-break, hence numbers

ASSUME DeviceAssumption == Device \subseteq Nat

VV == [Device -> Nat]
ZeroVV == [d \in Device |-> 0]

Leq(a, b) == \A d \in Device : a[d] <= b[d]

(* Mutants: the merge keeps one side. *)
MergeVVStored(a, b) == a
MergeVVIncoming(a, b) == b

(* collab.rs merge_vv: pointwise maximum. *)
MergeVV(a, b) == [d \in Device |-> IF b[d] > a[d] THEN b[d] ELSE a[d]]

(* collab.rs advances_writer: the writer's own counter moves. *)
AdvancesWriter(current, opvv, writer) == opvv[writer] > current[writer]

(***************************************************************************)
(* keeplin-core resolve (external): the incoming version wins when it is   *)
(* causally newer, and a concurrent one wins by (updated_at, last_writer). *)
(* `stored` and `op` carry the fields vv, ts and writer.                   *)
(***************************************************************************)
IncomingWins(stored, op) ==
  \/ Leq(stored.vv, op.vv) /\ op.vv # stored.vv
  \/ /\ ~Leq(stored.vv, op.vv) /\ ~Leq(op.vv, stored.vv)
     /\ \/ op.ts > stored.ts
        \/ op.ts = stored.ts /\ op.writer > stored.writer

(* The test apply_op makes before it writes an order or a line. *)
Accepts(stored, op) ==
  AdvancesWriter(stored.vv, op.vv, op.writer) /\ IncomingWins(stored, op)
=============================================================================
