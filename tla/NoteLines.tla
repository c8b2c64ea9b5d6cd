----------------------------- MODULE NoteLines -----------------------------
(***************************************************************************)
(* One note's `lines` rows and its `note_line_order` row, written by the   *)
(* collaborative op handlers of every server instance and compacted by     *)
(* the retention sweeps (collab.rs handle_msg/apply_op, store.rs           *)
(* gc_line_tombstones).                                                    *)
(*                                                                         *)
(* A batch of ops is one READ COMMITTED transaction that holds the note's  *)
(* advisory lock.  Each op reads the rows it decides on and then writes,   *)
(* as two steps: between them only writers that do not take the advisory   *)
(* lock can run, and the sweep is one.  PostgreSQL row locks are modelled  *)
(* by what they delay: the sweep waits for a row the transaction wrote.    *)
(*                                                                         *)
(* Abstracted: line contents (only whether apply_op refuses them), the age *)
(* of a tombstone (deleted_at is chosen by the client, so any tombstone    *)
(* may be past the cutoff), other notes.                                   *)
(***************************************************************************)
EXTENDS LineOrder, FiniteSets

CONSTANTS
  Handler,           \* collaborative connections, on any instance
  DeviceOf,          \* the authenticated device of each connection
  Sweeper,           \* instances that run the retention sweep
  Crashing,          \* those that may stop between its two transactions
  Owner,             \* last_writer of a new note's order
  MaxLinesPerNote,   \* keeplin-core MAX_LINES_PER_NOTE
  Selections,        \* the line_ids lists a Move may carry
  MaxClock,          \* bound: version-vector counters in ops
  MaxTime,           \* bound: updated_at values in ops
  MaxBatch           \* bound: ops in one message

ASSUME HandlerAssumption == DeviceOf \in [Handler -> Device] /\ Crashing \subseteq Sweeper
ASSUME LimitAssumption ==
  /\ Owner \in Nat /\ MaxLinesPerNote \in Nat
  /\ MaxClock \in Nat /\ MaxTime \in Nat /\ MaxBatch \in Nat
ASSUME SelectionAssumption == Selections \subseteq Seq(Line)

VARIABLES
  lines,     \* committed rows of table lines, by id
  order,     \* committed row of table note_line_order
  pc,        \* per handler: "idle", "open" (transaction), "planned" (op read)
  handled,   \* ops of the current batch already looked at
  txLines,   \* rows written by the open transaction
  txOrder,   \* order written by the open transaction, if txDirty
  txDirty,
  newLines,  \* rows the op just read is about to write
  newOrder,  \* order it is about to write, if setsOrder
  setsOrder,
  applied,   \* what apply_op reported as Applied in this batch: the entity, the
             \* version, and (history) whether the row it read was live
  dead,      \* per sweep: ids deleted from lines, not yet from the order
  born       \* history: every line id ever committed

planVars == <<newLines, newOrder, setsOrder>>
tableVars == <<lines, order, born>>
txVars == <<pc, handled, txLines, txOrder, txDirty, planVars, applied>>
vars == <<tableVars, txVars, dead>>

Row == [vv : VV, ts : Nat, writer : Nat, deleted : BOOLEAN]
OrderRow == [ids : Seq(Line), vv : VV, ts : Nat, writer : Nat]
IsRows(f) == DOMAIN f \subseteq Line /\ f \in [DOMAIN f -> Row]
NoRows == [l \in {} |-> l]

Overlay(f, g) == [l \in DOMAIN f \cup DOMAIN g |-> IF l \in DOMAIN f THEN f[l] ELSE g[l]]
Keep(f, S) == [l \in DOMAIN f \cap S |-> f[l]]

(* create_note: an empty, versioned order. *)
NewOrder == [ids |-> << >>, vv |-> ZeroVV, ts |-> 0, writer |-> Owner]

(* READ COMMITTED: committed rows, shadowed by the transaction's own. *)
LinesSeen(h) == Overlay(txLines[h], lines)
OrderSeen(h) == IF txDirty[h] THEN txOrder[h] ELSE order

Live(rows) == {l \in DOMAIN rows : ~rows[l].deleted}
Tombstones == DOMAIN lines \ Live(lines)

-----------------------------------------------------------------------------
(* The ops a client may send (protocol.rs LineOp). *)
Stamp == [vv : [Device -> 0 .. MaxClock], ts : 1 .. MaxTime, writer : Device]
Content == {"fits", "refused"}   \* refused: holds a newline, or exceeds MAX_LINE_BYTES
Ops == [kind : {"insert"}, line : Line, after : Line \cup {Top}, content : Content, stamp : Stamp]
  \cup [kind : {"update"}, line : Line, content : Content, stamp : Stamp]
  \cup [kind : {"delete"}, line : Line, stamp : Stamp]
  \cup [kind : {"move"}, block : Selections, after : Line \cup {Top}, stamp : Stamp]

(***************************************************************************)
(* Line ids are UUIDs the client draws for the op that creates the line,   *)
(* so an Insert of an id the note has already held is a resend of that op. *)
(***************************************************************************)
FreshOrResent(op) ==
  op.kind = "insert" /\ op.line \in born =>
     ~AdvancesWriter(order.vv, op.stamp.vv, op.stamp.writer)

InsertApplies(h, op) ==
  /\ op.content = "fits"
  /\ op.line \notin DOMAIN LinesSeen(h)
  /\ Cardinality(Live(LinesSeen(h))) < MaxLinesPerNote
  /\ HasPosition(OrderSeen(h).ids, op.after)
  /\ Accepts(OrderSeen(h), op.stamp)

LineOpApplies(h, op) ==
  /\ op.kind = "update" => op.content = "fits"
  /\ op.line \in DOMAIN LinesSeen(h)
  /\ Accepts(LinesSeen(h)[op.line], op.stamp)

MoveApplies(h, op) ==
  /\ op.block # << >>
  /\ Ids(op.block) \subseteq Ids(OrderSeen(h).ids)
  /\ op.after \notin Ids(op.block)
  /\ HasPosition(OrderSeen(h).ids, op.after)
  /\ Accepts(OrderSeen(h), op.stamp)

(* apply_op's outcome is Applied; otherwise Ignored or Invalid. *)
Applies(h, op) ==
  /\ op.stamp.writer = DeviceOf[h]
  /\ op.kind = "insert" => InsertApplies(h, op)
  /\ op.kind = "move" => MoveApplies(h, op)
  /\ op.kind \in {"update", "delete"} => LineOpApplies(h, op)

NewRow(vv, op, isDeleted) ==
  [vv |-> vv, ts |-> op.stamp.ts, writer |-> op.stamp.writer, deleted |-> isDeleted]

NextOrder(h, op, ids) ==
  [ids |-> ids, vv |-> MergeVV(OrderSeen(h).vv, op.stamp.vv),
   ts |-> op.stamp.ts, writer |-> op.stamp.writer]

(* Mutants: the anchor spliced instead of the line; set_note_order forgotten. *)
InsertedIdsAnchor(h, op) == Append(OrderSeen(h).ids, op.after)
InsertedIdsForgotten(h, op) == OrderSeen(h).ids

InsertedIds(h, op) ==
  LET ids == OrderSeen(h).ids
  IN  SpliceAt(ids, PositionAfter(ids, op.after), <<op.line>>)

(* Mutant: the block is spliced in without being taken out. *)
MovedIdsKept(h, op) ==
  LET ids == OrderSeen(h).ids IN SpliceAt(ids, PositionAfter(ids, op.after), op.block)

MovedIds(h, op) ==
  LET rest == Without(OrderSeen(h).ids, Ids(op.block))
  IN  SpliceAt(rest, PositionAfter(rest, op.after), op.block)

SetsOrder(op) == op.kind \in {"insert", "move"}

(***************************************************************************)
(* The row an op writes: insert_line_on a new live one, update_line_on     *)
(* clears deleted_at, soft_delete_line_on sets it; a Move writes none.     *)
(***************************************************************************)
PlannedLines(h, op) ==
  IF op.kind = "insert" THEN [l \in {op.line} |-> NewRow(op.stamp.vv, op, FALSE)]
  ELSE IF op.kind = "move" THEN NoRows
  ELSE [l \in {op.line} |->
         NewRow(MergeVV(LinesSeen(h)[op.line].vv, op.stamp.vv), op, op.kind = "delete")]

PlannedOrder(h, op) ==
  IF op.kind = "insert" THEN NextOrder(h, op, InsertedIds(h, op))
  ELSE IF op.kind = "move" THEN NextOrder(h, op, MovedIds(h, op))
  ELSE NewOrder

(* The versioned entity an op is resolved against; Top is the order. *)
Target(op) == IF SetsOrder(op) THEN Top ELSE op.line

Reported(h, op) ==
  [on |-> Target(op), vv |-> op.stamp.vv,
   live |-> SetsOrder(op) \/ ~LinesSeen(h)[op.line].deleted]

-----------------------------------------------------------------------------
Init ==
  /\ lines = NoRows
  /\ order = NewOrder
  /\ pc = [h \in Handler |-> "idle"]
  /\ handled = [h \in Handler |-> 0]
  /\ txLines = [h \in Handler |-> NoRows]
  /\ txOrder = [h \in Handler |-> NewOrder]
  /\ txDirty = [h \in Handler |-> FALSE]
  /\ newLines = [h \in Handler |-> NoRows]
  /\ newOrder = [h \in Handler |-> NewOrder]
  /\ setsOrder = [h \in Handler |-> FALSE]
  /\ applied = [h \in Handler |-> {}]
  /\ dead = [s \in Sweeper |-> {}]
  /\ born = {}

(* Mutant: the op transaction does not lock the note. *)
NoteOrderUnlocked == TRUE

(* pg_advisory_xact_lock on the note is free. *)
NoteOrderFree == \A h \in Handler : pc[h] = "idle"

(* A message arrives: BEGIN, then the advisory lock. *)
LockNoteOrder(h) ==
  /\ pc[h] = "idle"
  /\ NoteOrderFree
  /\ pc' = [pc EXCEPT ![h] = "open"]
  /\ UNCHANGED <<tableVars, handled, txLines, txOrder, txDirty, planVars, applied, dead>>

(* apply_op up to its decision to write: every SELECT it makes. *)
ReadOp(h, op) ==
  /\ pc[h] = "open" /\ handled[h] < MaxBatch
  /\ FreshOrResent(op)
  /\ Applies(h, op)
  /\ pc' = [pc EXCEPT ![h] = "planned"]
  /\ newLines' = [newLines EXCEPT ![h] = PlannedLines(h, op)]
  /\ newOrder' = [newOrder EXCEPT ![h] = PlannedOrder(h, op)]
  /\ setsOrder' = [setsOrder EXCEPT ![h] = SetsOrder(op)]
  /\ handled' = [handled EXCEPT ![h] = @ + 1]
  /\ applied' = [applied EXCEPT ![h] = @ \cup {Reported(h, op)}]
  /\ UNCHANGED <<tableVars, txLines, txOrder, txDirty, dead>>

(* The op is Ignored or Invalid: the loop moves on to the next one. *)
RefuseOp(h, op) ==
  /\ pc[h] = "open" /\ handled[h] < MaxBatch
  /\ FreshOrResent(op)
  /\ ~Applies(h, op)
  /\ handled' = [handled EXCEPT ![h] = @ + 1]
  /\ UNCHANGED <<tableVars, pc, txLines, txOrder, txDirty, planVars, applied, dead>>

(***************************************************************************)
(* The INSERT/UPDATE statements of the op.  An UPDATE of a row the sweep   *)
(* deleted since it was read matches nothing and reports no error.  An     *)
(* INSERT of an id committed since fails, which leaves Abort only.         *)
(***************************************************************************)
RowsWritten(h) ==
  IF setsOrder[h] THEN newLines[h] ELSE Keep(newLines[h], DOMAIN LinesSeen(h))

ClearPlan(h) ==
  /\ newLines' = [newLines EXCEPT ![h] = NoRows]
  /\ newOrder' = [newOrder EXCEPT ![h] = NewOrder]
  /\ setsOrder' = [setsOrder EXCEPT ![h] = FALSE]

WriteOp(h) ==
  /\ pc[h] = "planned"
  /\ setsOrder[h] => DOMAIN newLines[h] \cap DOMAIN lines = {}
  /\ txLines' = [txLines EXCEPT ![h] = Overlay(RowsWritten(h), @)]
  /\ txOrder' = [txOrder EXCEPT ![h] = IF setsOrder[h] THEN newOrder[h] ELSE @]
  /\ txDirty' = [txDirty EXCEPT ![h] = @ \/ setsOrder[h]]
  /\ pc' = [pc EXCEPT ![h] = "open"]
  /\ ClearPlan(h)
  /\ UNCHANGED <<tableVars, handled, applied, dead>>

ResetTx(h) ==
  /\ pc' = [pc EXCEPT ![h] = "idle"]
  /\ handled' = [handled EXCEPT ![h] = 0]
  /\ txLines' = [txLines EXCEPT ![h] = NoRows]
  /\ txOrder' = [txOrder EXCEPT ![h] = NewOrder]
  /\ txDirty' = [txDirty EXCEPT ![h] = FALSE]
  /\ applied' = [applied EXCEPT ![h] = {}]
  /\ ClearPlan(h)

(* COMMIT; the applied ops are then broadcast (module CollabSession). *)
Commit(h) ==
  /\ pc[h] = "open"
  /\ lines' = LinesSeen(h)
  /\ order' = OrderSeen(h)
  /\ born' = born \cup DOMAIN txLines[h]
  /\ ResetTx(h)
  /\ UNCHANGED dead

(* A statement fails or the instance dies: ROLLBACK frees the lock. *)
Abort(h) ==
  /\ pc[h] # "idle"
  /\ ResetTx(h)
  /\ UNCHANGED <<tableVars, dead>>

(***************************************************************************)
(* gc_line_tombstones.  The DELETE commits on its own; the order is        *)
(* filtered in a later transaction, under the order's row lock but not     *)
(* under the advisory lock.                                                *)
(***************************************************************************)
SweepLines(s, gone) ==
  /\ dead[s] = {}
  /\ gone # {} /\ gone \subseteq Tombstones
  /\ \A h \in Handler : gone \cap DOMAIN txLines[h] = {}
  /\ lines' = Keep(lines, Line \ gone)
  /\ dead' = [dead EXCEPT ![s] = gone]
  /\ UNCHANGED <<order, born, txVars>>

(* Mutant: the order is filtered by what is a tombstone now. *)
SweepOrderTombstones(s) ==
  /\ dead[s] # {}
  /\ \A h \in Handler : ~txDirty[h]
  /\ order' = [order EXCEPT !.ids = Without(@, dead[s] \cup Tombstones)]
  /\ dead' = [dead EXCEPT ![s] = {}]
  /\ UNCHANGED <<lines, born, txVars>>

SweepOrder(s) ==
  /\ dead[s] # {}
  /\ \A h \in Handler : ~txDirty[h]
  /\ order' = [order EXCEPT !.ids = Without(@, dead[s])]
  /\ dead' = [dead EXCEPT ![s] = {}]
  /\ UNCHANGED <<lines, born, txVars>>

(* The instance stops, or the second transaction fails. *)
SweepCrash(s) ==
  /\ s \in Crashing /\ dead[s] # {}
  /\ dead' = [dead EXCEPT ![s] = {}]
  /\ UNCHANGED <<tableVars, txVars>>

Next ==
  \/ \E h \in Handler :
       \/ LockNoteOrder(h) \/ WriteOp(h) \/ Commit(h) \/ Abort(h)
       \/ \E op \in Ops : ReadOp(h, op) \/ RefuseOp(h, op)
  \/ \E s \in Sweeper :
       \/ SweepOrder(s) \/ SweepCrash(s)
       \/ \E gone \in SUBSET Line : SweepLines(s, gone)

Spec == Init /\ [][Next]_vars

-----------------------------------------------------------------------------
(* The shape of every table and of every handler's local state. *)
TypeOK ==
  /\ IsRows(lines)
  /\ order \in OrderRow
  /\ pc \in [Handler -> {"idle", "open", "planned"}]
  /\ handled \in [Handler -> Nat]
  /\ DOMAIN txLines = Handler /\ \A h \in Handler : IsRows(txLines[h])
  /\ txOrder \in [Handler -> OrderRow]
  /\ txDirty \in [Handler -> BOOLEAN]
  /\ DOMAIN newLines = Handler /\ \A h \in Handler : IsRows(newLines[h])
  /\ newOrder \in [Handler -> OrderRow]
  /\ setsOrder \in [Handler -> BOOLEAN]
  /\ applied \in [Handler -> SUBSET [on : Line \cup {Top}, vv : VV, live : BOOLEAN]]
  /\ dead \in [Sweeper -> SUBSET Line]
  /\ born \in SUBSET Line

(***************************************************************************)
(* "order_json holds every LineId, tombstoned lines included, until        *)
(* garbage collection" (0002_collab.sql): no line a handler committed ever *)
(* falls out of the committed order, whichever handlers and sweeps race on *)
(* the order's read-modify-write.                                          *)
(***************************************************************************)
RowsInOrder == DOMAIN lines \subseteq Ids(order.ids)

(***************************************************************************)
(* The order lists a line at most once: Insert refuses an id that has a    *)
(* row, Move takes the block out before it puts it back, and a dangling id *)
(* left by a sweep is not inserted again by a resent Insert.               *)
(***************************************************************************)
OrderIsDistinct == Distinct(order.ids)

(***************************************************************************)
(* The strengthening that makes the two invariants above inductive.  One   *)
(* transaction is open at a time and a closed one leaves nothing behind;   *)
(* what an open transaction sees, and what it is about to write, satisfies *)
(* what the committed tables satisfy; a sweep's dead ids have no row in    *)
(* any of them; and an order written in a transaction is not older than    *)
(* the committed one, so a resent Insert is refused by it too.             *)
(***************************************************************************)
TransactionsClean ==
  \A h \in Handler :
     /\ \A k \in Handler : pc[h] # "idle" /\ pc[k] # "idle" => h = k
     /\ pc[h] = "idle" => txLines[h] = NoRows /\ ~txDirty[h]
     /\ pc[h] # "planned" => newLines[h] = NoRows /\ ~setsOrder[h]

SeenRowsInOrder ==
  \A h \in Handler :
     /\ DOMAIN LinesSeen(h) \subseteq Ids(OrderSeen(h).ids)
     /\ setsOrder[h] =>
          /\ DOMAIN LinesSeen(h) \cup DOMAIN newLines[h] \subseteq Ids(newOrder[h].ids)
          /\ DOMAIN LinesSeen(h) \cap DOMAIN newLines[h] = {}

OrderedIdsWereBorn ==
  /\ DOMAIN lines \cup Ids(order.ids) \subseteq born
  /\ \A h \in Handler :
       /\ Ids(OrderSeen(h).ids) \subseteq born \cup DOMAIN txLines[h]
       /\ setsOrder[h] =>
            Ids(newOrder[h].ids) \subseteq born \cup DOMAIN txLines[h] \cup DOMAIN newLines[h]

DeadIdsHaveNoRow ==
  \A s \in Sweeper :
     /\ dead[s] \subseteq born \ DOMAIN lines
     /\ \A h \in Handler :
          /\ dead[s] \cap DOMAIN txLines[h] = {}
          /\ setsOrder[h] => dead[s] \cap DOMAIN newLines[h] = {}

OrderVersionsGrow ==
  \A h \in Handler :
     /\ Leq(order.vv, OrderSeen(h).vv)
     /\ setsOrder[h] => Leq(OrderSeen(h).vv, newOrder[h].vv)

IInv ==
  /\ TransactionsClean
  /\ RowsInOrder
  /\ SeenRowsInOrder
  /\ OrderedIdsWereBorn
  /\ DeadIdsHaveNoRow
  /\ OrderVersionsGrow

SelectionsDistinct == \A s \in Selections : Distinct(s)

OrdersDistinct ==
  /\ OrderIsDistinct
  /\ \A h \in Handler : Distinct(txOrder[h].ids) /\ Distinct(newOrder[h].ids)

Grows(old, new) == Leq(old.vv, new.vv) /\ new.vv # old.vv

VersionedEdit ==
  /\ \A l \in DOMAIN lines \cap DOMAIN lines' :
       lines'[l] # lines[l] => Grows(lines[l], lines'[l])
  /\ order' # order =>
       \/ Grows(order, order')
       \/ /\ order'.vv = order.vv
          /\ Ids(order'.ids) \subseteq Ids(order.ids)
          /\ DOMAIN lines \cap Ids(order.ids) \subseteq Ids(order'.ids)

(***************************************************************************)
(* merge_vv and advances_writer: while a row exists its version vector     *)
(* only grows, and every rewrite of it grows it strictly, so that a        *)
(* replica that compares versions sees each edit and never two contents    *)
(* under one version.  Likewise for the order, except that compaction by   *)
(* the sweep drops ids without a new version ("compaction is not an edit").*)
(***************************************************************************)
EditsAreVersioned == [][VersionedEdit]_vars

(***************************************************************************)
(* What apply_op reports as Applied is in the transaction it will commit,  *)
(* before the op is broadcast to the peers.                                *)
(***************************************************************************)
Stored(h, a) ==
  IF a.on = Top THEN Leq(a.vv, OrderSeen(h).vv)
  ELSE a.on \in DOMAIN LinesSeen(h) /\ Leq(a.vv, LinesSeen(h)[a.on].vv)

AppliedIsStored ==
  \A h \in Handler : pc[h] = "open" => \A a \in applied[h] : Stored(h, a)

(***************************************************************************)
(* The same beside the sweep, which takes neither the advisory lock nor    *)
(* any notice of what apply_op has read: the only thing reported Applied   *)
(* and not stored is an op on a line that was a tombstone when it was read *)
(* and that a sweep has removed since (its UPDATE matched no row).  No     *)
(* edit of a live line is lost, although another connection may delete the *)
(* line and a sweep remove it as soon as the note's lock is free.          *)
(***************************************************************************)
Swept(h, a) == a.on \in born \ DOMAIN LinesSeen(h)

OnlyTombstoneEditsLost ==
  \A h \in Handler : pc[h] = "open" =>
     \A a \in applied[h] : Stored(h, a) \/ (~a.live /\ Swept(h, a))

(***************************************************************************)
(* Without retention sweeps the committed order and the committed rows are *)
(* the same set of ids.                                                    *)
(***************************************************************************)
OrderIsExactlyRows == Ids(order.ids) = DOMAIN lines
=============================================================================
