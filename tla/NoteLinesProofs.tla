-------------------------- MODULE NoteLinesProofs --------------------------
(***************************************************************************)
(* NoteLines for every number of handlers, sweeps, devices and lines:      *)
(* type correctness, the two facts about the committed line order that the *)
(* advisory lock and the sweep's row lock are there for, what a step may   *)
(* do to the committed tables, and what holds while no sweep runs.         *)
(***************************************************************************)
EXTENDS NoteLines, LineOrderProofs

-----------------------------------------------------------------------------
(* Tables as partial functions. *)
LEMMA NoRowsProperties == IsRows(NoRows) /\ DOMAIN NoRows = {}
  BY DEF IsRows, NoRows

LEMMA OverlayRows ==
  ASSUME NEW f, NEW g, IsRows(f), IsRows(g)
  PROVE  /\ IsRows(Overlay(f, g))
         /\ DOMAIN Overlay(f, g) = DOMAIN f \cup DOMAIN g
  BY DEF IsRows, Overlay

LEMMA KeepRows ==
  ASSUME NEW f, NEW S, IsRows(f)
  PROVE  /\ IsRows(Keep(f, S))
         /\ DOMAIN Keep(f, S) = DOMAIN f \cap S
  BY DEF IsRows, Keep

LEMMA NewOrderType == NewOrder \in OrderRow /\ NewOrder.ids = << >> /\ NewOrder.vv = ZeroVV
  BY LimitAssumption DEF NewOrder, OrderRow, VV, ZeroVV

(* What a transaction sees is well typed. *)
LEMMA SeenTypes ==
  ASSUME TypeOK, NEW h \in Handler
  PROVE  /\ IsRows(LinesSeen(h))
         /\ DOMAIN LinesSeen(h) = DOMAIN txLines[h] \cup DOMAIN lines
         /\ OrderSeen(h) \in OrderRow
<1>1. IsRows(txLines[h]) /\ IsRows(lines)
  BY DEF TypeOK
<1>2. OrderSeen(h) \in OrderRow
  BY DEF TypeOK, OrderSeen
<1> QED
  BY <1>1, <1>2, OverlayRows DEF LinesSeen

(* The parts of a client's op. *)
LEMMA OpTypes ==
  ASSUME NEW op \in Ops
  PROVE  /\ op.kind \in {"insert", "update", "delete", "move"}
         /\ op.stamp.vv \in VV /\ op.stamp.ts \in Nat /\ op.stamp.writer \in Device
         /\ op.stamp.writer \in Nat
         /\ op.kind # "move" => op.line \in Line
         /\ op.kind = "move" => op.block \in Selections /\ op.block \in Seq(Line)
         /\ SetsOrder(op) => op.after \in Line \cup {Top}
<1>1. op.stamp \in Stamp
  BY DEF Ops
<1>2. op.stamp.vv \in VV /\ op.stamp.ts \in Nat /\ op.stamp.writer \in Device
  BY <1>1, LimitAssumption DEF Stamp, VV
<1>3. op.stamp.writer \in Nat
  BY <1>2, DeviceAssumption
<1> QED
  BY <1>2, <1>3, SelectionAssumption DEF Ops, SetsOrder

-----------------------------------------------------------------------------
(***************************************************************************)
(* What apply_op decides to write.  An order it writes holds the ids it    *)
(* read plus the inserted one, under a version that includes the one read. *)
(***************************************************************************)
LEMMA PlannedTypes ==
  ASSUME TypeOK, NEW h \in Handler, NEW op \in Ops, Applies(h, op)
  PROVE  /\ IsRows(PlannedLines(h, op))
         /\ PlannedOrder(h, op) \in OrderRow
         /\ SetsOrder(op) \in BOOLEAN
         /\ Target(op) \in Line \cup {Top}
         /\ SetsOrder(op) =>
              /\ Ids(PlannedOrder(h, op).ids) = Ids(OrderSeen(h).ids) \cup DOMAIN PlannedLines(h, op)
              /\ Leq(OrderSeen(h).vv, PlannedOrder(h, op).vv)
              /\ Accepts(OrderSeen(h), op.stamp)
              /\ DOMAIN PlannedLines(h, op) \cap DOMAIN LinesSeen(h) = {}
<1> DEFINE o == OrderSeen(h)
<1>1. /\ IsRows(LinesSeen(h))
      /\ o \in OrderRow /\ o.ids \in Seq(Line) /\ o.vv \in VV
  BY SeenTypes DEF OrderRow
<1>2. MergeVV(o.vv, op.stamp.vv) \in VV /\ Leq(o.vv, MergeVV(o.vv, op.stamp.vv))
  BY <1>1, OpTypes, MergeVVProperties
<1>3. ASSUME NEW ids \in Seq(Line)
      PROVE  /\ NextOrder(h, op, ids) \in OrderRow
             /\ NextOrder(h, op, ids).ids = ids
             /\ Leq(o.vv, NextOrder(h, op, ids).vv)
  BY <1>2, OpTypes DEF NextOrder, OrderRow
<1>4. SetsOrder(op) \in BOOLEAN
  BY DEF SetsOrder
<1>5. CASE op.kind = "insert"
  <2>1. InsertApplies(h, op)
    BY <1>5 DEF Applies
  <2>2. op.line \in Line /\ op.after \in Line \cup {Top} /\ SetsOrder(op)
    BY <1>5, OpTypes DEF SetsOrder
  <2>3. PositionAfter(o.ids, op.after) \in 0 .. Len(o.ids)
    BY <1>1, <2>1, <2>2, PositionAfterRange DEF InsertApplies
  <2>4. <<op.line>> \in Seq(Line) /\ Ids(<<op.line>>) = {op.line}
    BY <2>2 DEF Ids
  <2>5. InsertedIds(h, op) \in Seq(Line) /\ Ids(InsertedIds(h, op)) = Ids(o.ids) \cup {op.line}
    <3> DEFINE ids == o.ids
               p == PositionAfter(ids, op.after)
               block == <<op.line>>
    <3>1. InsertedIds(h, op) = SpliceAt(ids, p, block)
      BY DEF InsertedIds
    <3>2. /\ ids \in Seq(Line) /\ ids = OrderSeen(h).ids
          /\ p \in 0 .. Len(ids) /\ block \in Seq(Line) /\ Ids(block) = {op.line}
      BY <1>1, <2>3, <2>4
    <3> HIDE DEF ids, p, block
    <3> QED
      BY <3>1, <3>2, SpliceAtIds, SMTT(30)
  <2>6. PlannedOrder(h, op) = NextOrder(h, op, InsertedIds(h, op))
    BY <1>5 DEF PlannedOrder
  <2>7. PlannedLines(h, op) = [l \in {op.line} |-> NewRow(op.stamp.vv, op, FALSE)]
    BY <1>5 DEF PlannedLines
  <2>8. NewRow(op.stamp.vv, op, FALSE) \in Row
    BY OpTypes DEF NewRow, Row
  <2>9. IsRows(PlannedLines(h, op)) /\ DOMAIN PlannedLines(h, op) = {op.line}
    BY <2>2, <2>7, <2>8 DEF IsRows
  <2>10. Target(op) = Top
    BY <2>2 DEF Target
  <2>11. Accepts(o, op.stamp) /\ op.line \notin DOMAIN LinesSeen(h)
    BY <2>1 DEF InsertApplies
  <2> QED
    BY <1>3, <2>2, <2>5, <2>6, <2>9, <2>10, <2>11
<1>6. CASE op.kind = "move"
  <2>1. MoveApplies(h, op)
    BY <1>6 DEF Applies
  <2>2. op.block \in Seq(Line) /\ op.after \in Line \cup {Top} /\ SetsOrder(op)
    BY <1>6, OpTypes DEF SetsOrder
  <2> DEFINE rest == Without(o.ids, Ids(op.block))
  <2>3. rest \in Seq(Line) /\ Ids(rest) = Ids(o.ids) \ Ids(op.block)
    BY <1>1, WithoutProperties
  <2>4. HasPosition(rest, op.after)
    BY <2>1, <2>3 DEF MoveApplies, HasPosition
  <2> HIDE DEF rest
  <2>5. PositionAfter(rest, op.after) \in 0 .. Len(rest)
    BY <2>2, <2>3, <2>4, PositionAfterRange
  <2>6. MovedIds(h, op) = SpliceAt(rest, PositionAfter(rest, op.after), op.block)
    BY DEF MovedIds, rest
  <2>7. MovedIds(h, op) \in Seq(Line) /\ Ids(MovedIds(h, op)) = Ids(rest) \cup Ids(op.block)
    BY <2>2, <2>3, <2>5, <2>6, SpliceAtIds, SMTT(30)
  <2>8. Ids(MovedIds(h, op)) = Ids(o.ids)
    BY <2>1, <2>3, <2>7 DEF MoveApplies
  <2>9. PlannedOrder(h, op) = NextOrder(h, op, MovedIds(h, op)) /\ PlannedLines(h, op) = NoRows
    BY <1>6 DEF PlannedOrder, PlannedLines
  <2>10. Target(op) = Top /\ Accepts(o, op.stamp)
    BY <2>1, <2>2 DEF Target, MoveApplies
  <2> QED
    BY <1>3, <2>2, <2>7, <2>8, <2>9, <2>10, NoRowsProperties
<1>7. CASE op.kind \in {"update", "delete"}
  <2>1. LineOpApplies(h, op)
    BY <1>7 DEF Applies
  <2>2. op.line \in Line /\ ~SetsOrder(op)
    BY <1>7, OpTypes DEF SetsOrder
  <2>3. LinesSeen(h)[op.line] \in Row
    BY <1>1, <2>1 DEF LineOpApplies, IsRows
  <2>4. MergeVV(LinesSeen(h)[op.line].vv, op.stamp.vv) \in VV
    BY <2>3, OpTypes, MergeVVProperties DEF Row
  <2> DEFINE r == NewRow(MergeVV(LinesSeen(h)[op.line].vv, op.stamp.vv), op, op.kind = "delete")
  <2>5. r \in Row
    BY <2>4, OpTypes DEF NewRow, Row
  <2>6. PlannedLines(h, op) = [l \in {op.line} |-> r] /\ PlannedOrder(h, op) = NewOrder
    BY <1>7 DEF PlannedLines, PlannedOrder
  <2> HIDE DEF r
  <2>7. IsRows(PlannedLines(h, op))
    BY <2>2, <2>5, <2>6 DEF IsRows
  <2>8. Target(op) \in Line \cup {Top}
    BY <2>2 DEF Target
  <2> QED
    BY <1>4, <2>2, <2>6, <2>7, <2>8, NewOrderType
<1> QED
  BY <1>5, <1>6, <1>7, OpTypes

-----------------------------------------------------------------------------
(* What WriteOp adds to its transaction. *)
LEMMA WrittenRows ==
  ASSUME TypeOK, NEW h \in Handler
  PROVE  /\ IsRows(RowsWritten(h))
         /\ IsRows(Overlay(RowsWritten(h), txLines[h]))
         /\ DOMAIN Overlay(RowsWritten(h), txLines[h]) = DOMAIN RowsWritten(h) \cup DOMAIN txLines[h]
         /\ setsOrder[h] => DOMAIN RowsWritten(h) = DOMAIN newLines[h]
         /\ ~setsOrder[h] => DOMAIN RowsWritten(h) \subseteq DOMAIN LinesSeen(h)
<1>1. IsRows(newLines[h]) /\ IsRows(txLines[h])
  BY DEF TypeOK
<1>2. /\ IsRows(RowsWritten(h))
      /\ setsOrder[h] => DOMAIN RowsWritten(h) = DOMAIN newLines[h]
      /\ ~setsOrder[h] => DOMAIN RowsWritten(h) \subseteq DOMAIN LinesSeen(h)
  BY <1>1, KeepRows, ZenonT(60) DEF RowsWritten
<1> QED
  BY <1>1, <1>2, OverlayRows

(* Initially the tables are empty and no transaction is open. *)
LEMMA TypeInit == Init => TypeOK
  BY NoRowsProperties, NewOrderType DEF Init, TypeOK

(* Ending a transaction resets the handler's local state. *)
LEMMA TypeReset ==
  ASSUME TypeOK, NEW h \in Handler, ResetTx(h)
  PROVE  /\ pc' \in [Handler -> {"idle", "open", "planned"}]
         /\ handled' \in [Handler -> Nat]
         /\ DOMAIN txLines' = Handler /\ \A k \in Handler : IsRows(txLines'[k])
         /\ txOrder' \in [Handler -> OrderRow]
         /\ txDirty' \in [Handler -> BOOLEAN]
         /\ DOMAIN newLines' = Handler /\ \A k \in Handler : IsRows(newLines'[k])
         /\ newOrder' \in [Handler -> OrderRow]
         /\ setsOrder' \in [Handler -> BOOLEAN]
         /\ applied' \in [Handler -> SUBSET [on : Line \cup {Top}, vv : VV, live : BOOLEAN]]
  BY NoRowsProperties, NewOrderType DEF ResetTx, ClearPlan, TypeOK

(* Every step keeps the types. *)
LEMMA TypeStep == TypeOK /\ [Next]_vars => TypeOK'
<1> SUFFICES ASSUME TypeOK, [Next]_vars PROVE TypeOK'
  OBVIOUS
<1>1. ASSUME NEW h \in Handler, LockNoteOrder(h) PROVE TypeOK'
  BY <1>1 DEF LockNoteOrder, TypeOK, tableVars, planVars
<1>2. ASSUME NEW h \in Handler, NEW op \in Ops, ReadOp(h, op) PROVE TypeOK'
  <2> DEFINE pl == PlannedLines(h, op)
             po == PlannedOrder(h, op)
             so == SetsOrder(op)
             a == Reported(h, op)
  <2>1. IsRows(pl) /\ po \in OrderRow /\ so \in BOOLEAN
    BY <1>2, PlannedTypes DEF ReadOp
  <2>2. a \in [on : Line \cup {Top}, vv : VV, live : BOOLEAN]
    <3>1. Target(op) \in Line \cup {Top} /\ op.stamp.vv \in VV
      BY <1>2, PlannedTypes, OpTypes DEF ReadOp
    <3>2. (SetsOrder(op) \/ ~LinesSeen(h)[op.line].deleted) \in BOOLEAN
      OBVIOUS
    <3> QED
      BY <3>1, <3>2 DEF Reported
  <2>3. /\ newLines' = [newLines EXCEPT ![h] = pl]
        /\ newOrder' = [newOrder EXCEPT ![h] = po]
        /\ setsOrder' = [setsOrder EXCEPT ![h] = so]
        /\ applied' = [applied EXCEPT ![h] = @ \cup {a}]
        /\ pc' = [pc EXCEPT ![h] = "planned"]
        /\ handled' = [handled EXCEPT ![h] = @ + 1]
        /\ UNCHANGED <<tableVars, txLines, txOrder, txDirty, dead>>
    BY <1>2 DEF ReadOp
  <2> HIDE DEF pl, po, so, a
  <2> QED
    BY <2>1, <2>2, <2>3 DEF TypeOK, tableVars
<1>3. ASSUME NEW h \in Handler, NEW op \in Ops, RefuseOp(h, op) PROVE TypeOK'
  BY <1>3 DEF RefuseOp, TypeOK, tableVars, planVars
<1>4. ASSUME NEW h \in Handler, WriteOp(h) PROVE TypeOK'
  BY <1>4, WrittenRows, NoRowsProperties, NewOrderType
     DEF WriteOp, ClearPlan, TypeOK, tableVars
<1>5. ASSUME NEW h \in Handler, Commit(h) PROVE TypeOK'
  <2>1. /\ lines' = LinesSeen(h) /\ order' = OrderSeen(h)
        /\ born' = born \cup DOMAIN txLines[h] /\ dead' = dead
    BY <1>5 DEF Commit
  <2>2. IsRows(lines') /\ order' \in OrderRow
    BY <2>1, SeenTypes
  <2>3. born' \in SUBSET Line
    BY <2>1 DEF TypeOK, IsRows
  <2> QED
    BY <1>5, <2>1, <2>2, <2>3, TypeReset DEF Commit, TypeOK
<1>6. ASSUME NEW h \in Handler, Abort(h) PROVE TypeOK'
  BY <1>6, TypeReset DEF Abort, TypeOK, tableVars
<1>7. ASSUME NEW s \in Sweeper, NEW gone \in SUBSET Line, SweepLines(s, gone) PROVE TypeOK'
  <2>1. IsRows(lines')
    BY <1>7, KeepRows DEF SweepLines, TypeOK
  <2> QED
    BY <1>7, <2>1 DEF SweepLines, TypeOK, txVars, planVars
<1>8. ASSUME NEW s \in Sweeper, SweepOrder(s) PROVE TypeOK'
  <2>1. order.ids \in Seq(Line)
    BY DEF TypeOK, OrderRow
  <2>2. Without(order.ids, dead[s]) \in Seq(Line)
    BY <2>1, WithoutProperties
  <2>3. order' \in OrderRow
    BY <1>8, <2>2 DEF SweepOrder, TypeOK, OrderRow
  <2> QED
    BY <1>8, <2>3 DEF SweepOrder, TypeOK, txVars, planVars
<1>9. ASSUME NEW s \in Sweeper, SweepCrash(s) PROVE TypeOK'
  BY <1>9 DEF SweepCrash, TypeOK, tableVars, txVars, planVars
<1>10. CASE UNCHANGED vars
  BY <1>10 DEF vars, TypeOK, tableVars, txVars, planVars
<1> QED
  BY <1>1, <1>2, <1>3, <1>4, <1>5, <1>6, <1>7, <1>8, <1>9, <1>10 DEF Next

(* Type correctness of the note's tables and of every handler. *)
THEOREM TypeCorrect == Spec => []TypeOK
  BY TypeInit, TypeStep, PTL DEF Spec

-----------------------------------------------------------------------------
(***************************************************************************)
(* RowsInOrder.  It is inductive together with what every open transaction *)
(* sees and plans (IInv); the proof has one lemma per group of actions.    *)
(***************************************************************************)

(* A transaction sees the ids it wrote and the committed ones. *)
LEMMA SeenIds ==
  ASSUME NEW h \in Handler
  PROVE  DOMAIN LinesSeen(h) = DOMAIN txLines[h] \cup DOMAIN lines
  BY DEF LinesSeen, Overlay

LEMMA IInvInit == Init => IInv
<1> SUFFICES ASSUME Init PROVE IInv
  OBVIOUS
<1>1. \A h \in Handler : /\ pc[h] = "idle" /\ txLines[h] = NoRows /\ ~txDirty[h]
                         /\ newLines[h] = NoRows /\ ~setsOrder[h]
  BY DEF Init
<1>2. lines = NoRows /\ order = NewOrder /\ born = {} /\ \A s \in Sweeper : dead[s] = {}
  BY DEF Init
<1>3. Ids(NewOrder.ids) = {} /\ Leq(NewOrder.vv, NewOrder.vv)
  BY NewOrderType DEF Ids, Leq, ZeroVV
<1>4. \A h \in Handler : DOMAIN LinesSeen(h) = {} /\ OrderSeen(h) = NewOrder
  BY <1>1, <1>2, SeenIds, NoRowsProperties DEF OrderSeen
<1> QED
  BY <1>1, <1>2, <1>3, <1>4, NoRowsProperties
     DEF IInv, TransactionsClean, RowsInOrder, SeenRowsInOrder, OrderedIdsWereBorn,
         DeadIdsHaveNoRow, OrderVersionsGrow

(* With every transaction closed the invariant is about the tables only. *)
AllIdle ==
  \A h \in Handler : /\ pc[h] = "idle" /\ txLines[h] = NoRows /\ ~txDirty[h]
                     /\ newLines[h] = NoRows /\ ~setsOrder[h]

TablesSound ==
  /\ order.vv \in VV
  /\ RowsInOrder
  /\ DOMAIN lines \cup Ids(order.ids) \subseteq born
  /\ \A s \in Sweeper : dead[s] \subseteq born \ DOMAIN lines

LEMMA IInvIdle == AllIdle /\ TablesSound => IInv
<1> SUFFICES ASSUME AllIdle, TablesSound PROVE IInv
  OBVIOUS
<1>1. \A h \in Handler : DOMAIN LinesSeen(h) = DOMAIN lines /\ OrderSeen(h) = order
  BY SeenIds, NoRowsProperties DEF OrderSeen, AllIdle
<1>2. Leq(order.vv, order.vv)
  BY LeqReflexive DEF TablesSound
<1> QED
  BY <1>1, <1>2, NoRowsProperties
     DEF AllIdle, TablesSound, IInv, TransactionsClean, RowsInOrder, SeenRowsInOrder,
         OrderedIdsWereBorn, DeadIdsHaveNoRow, OrderVersionsGrow

(* The handler that ends its transaction was the only one with one open. *)
LEMMA ResetLeavesIdle ==
  ASSUME TypeOK, TransactionsClean, NEW h \in Handler, pc[h] # "idle", ResetTx(h)
  PROVE  AllIdle'
  BY DEF AllIdle, TypeOK, TransactionsClean, ResetTx, ClearPlan

(***************************************************************************)
(* ReadOp.  A planned order covers the rows read and the planned one.  An  *)
(* inserted id is in no sweep's dead set: such an id was born, so the op   *)
(* is a resend, and the order seen already covers its version.             *)
(***************************************************************************)
LEMMA IInvRead ==
  ASSUME TypeOK, IInv, NEW h \in Handler, NEW op \in Ops, ReadOp(h, op)
  PROVE  IInv'
<1> DEFINE pl == PlannedLines(h, op)
           po == PlannedOrder(h, op)
           so == SetsOrder(op)
<1>1. /\ pc[h] = "open" /\ FreshOrResent(op) /\ Applies(h, op)
      /\ pc' = [pc EXCEPT ![h] = "planned"]
      /\ newLines' = [newLines EXCEPT ![h] = pl]
      /\ newOrder' = [newOrder EXCEPT ![h] = po]
      /\ setsOrder' = [setsOrder EXCEPT ![h] = so]
      /\ UNCHANGED <<lines, order, born, txLines, txOrder, txDirty, dead>>
  BY DEF ReadOp, tableVars
<1>2. \A k \in Handler : LinesSeen(k)' = LinesSeen(k) /\ OrderSeen(k)' = OrderSeen(k)
  BY <1>1 DEF LinesSeen, OrderSeen
<1>3. so => /\ Ids(po.ids) = Ids(OrderSeen(h).ids) \cup DOMAIN pl
            /\ Leq(OrderSeen(h).vv, po.vv)
            /\ Accepts(OrderSeen(h), op.stamp)
            /\ DOMAIN pl \cap DOMAIN LinesSeen(h) = {}
  BY <1>1, PlannedTypes
<1>4. ASSUME so, NEW s \in Sweeper PROVE dead[s] \cap DOMAIN pl = {}
  <2> SUFFICES ASSUME NEW l \in dead[s], l \in DOMAIN pl PROVE FALSE
    OBVIOUS
  <2>1. op.kind = "insert" /\ l = op.line
    <3>1. op.kind \in {"insert", "move"}
      BY <1>4 DEF SetsOrder
    <3> QED
      BY <3>1, NoRowsProperties DEF PlannedLines
  <2>2. op.line \in born
    BY <2>1 DEF IInv, DeadIdsHaveNoRow
  <2>3. ~AdvancesWriter(order.vv, op.stamp.vv, op.stamp.writer)
    BY <1>1, <2>1, <2>2 DEF FreshOrResent
  <2>4. AdvancesWriter(OrderSeen(h).vv, op.stamp.vv, op.stamp.writer)
    BY <1>3, <1>4 DEF Accepts
  <2>5. Leq(order.vv, OrderSeen(h).vv)
    BY DEF IInv, OrderVersionsGrow
  <2>6. order.vv \in VV /\ OrderSeen(h).vv \in VV
    BY SeenTypes DEF TypeOK, OrderRow
  <2> QED
    BY <2>3, <2>4, <2>5, <2>6, OpTypes DEF AdvancesWriter, Leq, VV
<1> HIDE DEF pl, po, so
<1>5. \A k \in Handler :
         /\ pc'[k] = IF k = h THEN "planned" ELSE pc[k]
         /\ newLines'[k] = IF k = h THEN pl ELSE newLines[k]
         /\ newOrder'[k] = IF k = h THEN po ELSE newOrder[k]
         /\ setsOrder'[k] = IF k = h THEN so ELSE setsOrder[k]
  BY <1>1 DEF TypeOK
<1>6. TransactionsClean'
  BY <1>1, <1>5 DEF IInv, TransactionsClean
<1>7. RowsInOrder'
  BY <1>1 DEF IInv, RowsInOrder
<1>8. SeenRowsInOrder'
  BY <1>2, <1>3, <1>5 DEF IInv, SeenRowsInOrder
<1>9. OrderedIdsWereBorn'
  BY <1>1, <1>2, <1>3, <1>5 DEF IInv, OrderedIdsWereBorn
<1>10. DeadIdsHaveNoRow'
  BY <1>1, <1>4, <1>5 DEF IInv, DeadIdsHaveNoRow
<1>11. OrderVersionsGrow'
  BY <1>1, <1>2, <1>3, <1>5 DEF IInv, OrderVersionsGrow
<1> QED
  BY <1>6, <1>7, <1>8, <1>9, <1>10, <1>11 DEF IInv

(***************************************************************************)
(* WriteOp.  The rows it adds are the planned ones, covered by the planned *)
(* order, or rows that were there already.                                 *)
(***************************************************************************)
LEMMA IInvWrite ==
  ASSUME TypeOK, IInv, NEW h \in Handler, WriteOp(h)
  PROVE  IInv'
<1> DEFINE tl == Overlay(RowsWritten(h), txLines[h])
           to == IF setsOrder[h] THEN newOrder[h] ELSE txOrder[h]
           td == txDirty[h] \/ setsOrder[h]
<1>1. /\ pc[h] = "planned"
      /\ pc' = [pc EXCEPT ![h] = "open"]
      /\ txLines' = [txLines EXCEPT ![h] = tl]
      /\ txOrder' = [txOrder EXCEPT ![h] = to]
      /\ txDirty' = [txDirty EXCEPT ![h] = td]
      /\ newLines' = [newLines EXCEPT ![h] = NoRows]
      /\ setsOrder' = [setsOrder EXCEPT ![h] = FALSE]
      /\ newOrder' = [newOrder EXCEPT ![h] = NewOrder]
      /\ UNCHANGED <<lines, order, born, dead>>
  BY DEF WriteOp, ClearPlan, tableVars
<1>2. /\ DOMAIN tl = DOMAIN RowsWritten(h) \cup DOMAIN txLines[h]
      /\ setsOrder[h] => DOMAIN RowsWritten(h) = DOMAIN newLines[h]
      /\ ~setsOrder[h] => DOMAIN RowsWritten(h) \subseteq DOMAIN LinesSeen(h)
  BY WrittenRows
<1> HIDE DEF tl
<1>3. \A k \in Handler :
         /\ pc'[k] = IF k = h THEN "open" ELSE pc[k]
         /\ newLines'[k] = IF k = h THEN NoRows ELSE newLines[k]
         /\ newOrder'[k] = IF k = h THEN NewOrder ELSE newOrder[k]
         /\ setsOrder'[k] = IF k = h THEN FALSE ELSE setsOrder[k]
         /\ txLines'[k] = IF k = h THEN tl ELSE txLines[k]
         /\ txOrder'[k] = IF k = h THEN to ELSE txOrder[k]
         /\ txDirty'[k] = IF k = h THEN td ELSE txDirty[k]
  BY <1>1 DEF TypeOK
<1>4. \A k \in Handler : DOMAIN LinesSeen(k)' = DOMAIN txLines'[k] \cup DOMAIN lines
  BY <1>1 DEF LinesSeen, Overlay
<1>5. \A k \in Handler :
        OrderSeen(k)' = IF k = h /\ setsOrder[h] THEN newOrder[h] ELSE OrderSeen(k)
  BY <1>1, <1>3, ZenonT(60) DEF OrderSeen
<1>6. \A k \in Handler : DOMAIN LinesSeen(k) = DOMAIN txLines[k] \cup DOMAIN lines
  BY SeenIds
<1> HIDE DEF to, td
<1>7. ASSUME NEW k \in Handler, k # h
       PROVE  /\ pc'[k] = pc[k] /\ newLines'[k] = newLines[k] /\ newOrder'[k] = newOrder[k]
              /\ setsOrder'[k] = setsOrder[k] /\ txLines'[k] = txLines[k]
              /\ txDirty'[k] = txDirty[k] /\ OrderSeen(k)' = OrderSeen(k)
  BY <1>3, <1>5, <1>7
<1>8. pc'[h] = "open" /\ newLines'[h] = NoRows /\ setsOrder'[h] = FALSE /\ txLines'[h] = tl
  BY <1>3
<1>9. TransactionsClean'
  BY <1>1, <1>7, <1>8 DEF IInv, TransactionsClean
<1>10. RowsInOrder'
  BY <1>1 DEF IInv, RowsInOrder
<1>11. SeenRowsInOrder'
  BY <1>2, <1>3, <1>4, <1>5, <1>6, ZenonT(60) DEF IInv, SeenRowsInOrder
<1>12. OrderedIdsWereBorn'
  <2>1. Ids(OrderSeen(h)'.ids) \subseteq born \cup DOMAIN tl
    <3>1. CASE setsOrder[h]
      BY <1>2, <1>5, <3>1 DEF IInv, OrderedIdsWereBorn
    <3>2. CASE ~setsOrder[h]
      BY <1>2, <1>5, <3>2 DEF IInv, OrderedIdsWereBorn
    <3> QED
      BY <3>1, <3>2
  <2> QED
    BY <1>1, <1>7, <1>8, <2>1 DEF IInv, OrderedIdsWereBorn
<1>13. DeadIdsHaveNoRow'
  <2>1. ASSUME NEW s \in Sweeper PROVE dead[s] \cap DOMAIN tl = {}
    <3>1. dead[s] \cap DOMAIN RowsWritten(h) = {}
      BY <1>2, <1>6 DEF IInv, DeadIdsHaveNoRow
    <3> QED
      BY <1>2, <3>1 DEF IInv, DeadIdsHaveNoRow
  <2> QED
    BY <1>1, <1>7, <1>8, <2>1 DEF IInv, DeadIdsHaveNoRow
<1>14. OrderVersionsGrow'
  <2>1. order.vv \in VV /\ OrderSeen(h).vv \in VV /\ newOrder[h].vv \in VV
    BY SeenTypes DEF TypeOK, OrderRow
  <2>2. setsOrder[h] => Leq(order.vv, newOrder[h].vv)
    BY <2>1, LeqTransitive DEF IInv, OrderVersionsGrow
  <2> QED
    BY <1>1, <1>3, <1>5, <2>2, ZenonT(60) DEF IInv, OrderVersionsGrow
<1> QED
  BY <1>9, <1>10, <1>11, <1>12, <1>13, <1>14 DEF IInv

(* Commit: the tables become what the only open transaction saw. *)
LEMMA IInvCommit ==
  ASSUME TypeOK, IInv, NEW h \in Handler, Commit(h)
  PROVE  IInv'
<1>1. /\ pc[h] # "idle" /\ ResetTx(h) /\ dead' = dead
      /\ lines' = LinesSeen(h) /\ order' = OrderSeen(h)
      /\ born' = born \cup DOMAIN txLines[h]
  BY DEF Commit
<1>2. AllIdle'
  BY <1>1, ResetLeavesIdle DEF IInv
<1>3. order'.vv \in VV
  BY <1>1, SeenTypes DEF OrderRow
<1>4. DOMAIN lines' = DOMAIN txLines[h] \cup DOMAIN lines
  BY <1>1, SeenIds
<1>5. DOMAIN lines' \subseteq Ids(order'.ids)
  BY <1>1 DEF IInv, SeenRowsInOrder
<1>6. DOMAIN lines' \cup Ids(order'.ids) \subseteq born'
  BY <1>1, <1>4 DEF IInv, OrderedIdsWereBorn
<1>7. \A s \in Sweeper : dead'[s] \subseteq born' \ DOMAIN lines'
  BY <1>1, <1>4 DEF IInv, DeadIdsHaveNoRow
<1>8. TablesSound'
  BY <1>3, <1>5, <1>6, <1>7 DEF TablesSound, RowsInOrder
<1>9. AllIdle' /\ TablesSound' => IInv'
  BY IInvIdle, PTL
<1> QED
  BY <1>2, <1>8, <1>9

(* Abort leaves the tables alone. *)
LEMMA IInvAbort ==
  ASSUME TypeOK, IInv, NEW h \in Handler, Abort(h)
  PROVE  IInv'
<1>1. pc[h] # "idle" /\ ResetTx(h) /\ UNCHANGED <<lines, order, born, dead>>
  BY DEF Abort, tableVars
<1>2. AllIdle'
  BY <1>1, ResetLeavesIdle DEF IInv
<1>3. TablesSound'
  BY <1>1 DEF TypeOK, OrderRow, IInv, RowsInOrder, OrderedIdsWereBorn, DeadIdsHaveNoRow,
              TablesSound
<1>4. AllIdle' /\ TablesSound' => IInv'
  BY IInvIdle, PTL
<1> QED
  BY <1>2, <1>3, <1>4

(* The sweep's DELETE: the removed rows are in no transaction or plan. *)
LEMMA IInvSweepLines ==
  ASSUME TypeOK, IInv, NEW s \in Sweeper, NEW gone \in SUBSET Line, SweepLines(s, gone)
  PROVE  IInv'
<1>1. /\ gone \subseteq DOMAIN lines
      /\ \A h \in Handler : gone \cap DOMAIN txLines[h] = {}
      /\ dead' = [dead EXCEPT ![s] = gone]
      /\ UNCHANGED <<order, born, pc, txLines, txOrder, txDirty, newLines, newOrder, setsOrder>>
  BY DEF SweepLines, Tombstones, txVars, planVars
<1>2. DOMAIN lines' = DOMAIN lines \ gone
  <2>1. IsRows(lines) /\ lines' = Keep(lines, Line \ gone)
    BY DEF SweepLines, TypeOK
  <2>2. DOMAIN lines' = DOMAIN lines \cap (Line \ gone)
    BY <2>1, KeepRows
  <2> QED
    BY <2>1, <2>2 DEF IsRows
<1>3. \A h \in Handler : /\ DOMAIN LinesSeen(h) = DOMAIN txLines[h] \cup DOMAIN lines
                         /\ DOMAIN LinesSeen(h)' = DOMAIN txLines[h] \cup DOMAIN lines'
                         /\ OrderSeen(h)' = OrderSeen(h)
  BY <1>1, SeenIds DEF LinesSeen, Overlay, OrderSeen
<1>4. TransactionsClean'
  BY <1>1 DEF IInv, TransactionsClean
<1>5. RowsInOrder'
  BY <1>1, <1>2 DEF IInv, RowsInOrder
<1>6. SeenRowsInOrder'
  BY <1>1, <1>2, <1>3, ZenonT(60) DEF IInv, SeenRowsInOrder
<1>7. OrderedIdsWereBorn'
  BY <1>1, <1>2, <1>3 DEF IInv, OrderedIdsWereBorn
<1>8. DeadIdsHaveNoRow'
  <2>1. gone \subseteq born \ DOMAIN lines'
    BY <1>1, <1>2 DEF IInv, OrderedIdsWereBorn
  <2>2. \A h \in Handler : setsOrder[h] => gone \cap DOMAIN newLines[h] = {}
    BY <1>1, <1>3 DEF IInv, SeenRowsInOrder
  <2>3. \A r \in Sweeper : dead'[r] = IF r = s THEN gone ELSE dead[r]
    BY <1>1 DEF TypeOK
  <2>4. \A r \in Sweeper : r # s => dead'[r] = dead[r]
    BY <2>3
  <2>5. dead'[s] = gone
    BY <2>3
  <2> QED
    BY <1>1, <1>2, <2>1, <2>2, <2>4, <2>5 DEF IInv, DeadIdsHaveNoRow
<1>9. OrderVersionsGrow'
  BY <1>1, <1>3 DEF IInv, OrderVersionsGrow
<1> QED
  BY <1>4, <1>5, <1>6, <1>7, <1>8, <1>9 DEF IInv

(***************************************************************************)
(* The sweep's second transaction: it waits until no transaction has       *)
(* written the order, and the ids it drops have no row anywhere.           *)
(***************************************************************************)
LEMMA IInvSweepOrder ==
  ASSUME TypeOK, IInv, NEW s \in Sweeper, SweepOrder(s)
  PROVE  IInv'
<1> DEFINE kept == Without(order.ids, dead[s])
<1>1. /\ \A h \in Handler : ~txDirty[h]
      /\ order' = [order EXCEPT !.ids = kept]
      /\ dead' = [dead EXCEPT ![s] = {}]
      /\ UNCHANGED <<lines, born, pc, txLines, txOrder, txDirty, newLines, newOrder, setsOrder>>
  BY DEF SweepOrder, txVars, planVars
<1>2. Ids(kept) = Ids(order.ids) \ dead[s]
  BY WithoutProperties DEF TypeOK, OrderRow
<1>3. order'.ids = kept /\ order'.vv = order.vv
  BY <1>1 DEF TypeOK, OrderRow
<1> HIDE DEF kept
<1>4. \A h \in Handler : /\ LinesSeen(h)' = LinesSeen(h)
                         /\ OrderSeen(h) = order /\ OrderSeen(h)' = order'
  BY <1>1 DEF LinesSeen, OrderSeen
<1>5. \A h \in Handler : DOMAIN LinesSeen(h) = DOMAIN txLines[h] \cup DOMAIN lines
  BY SeenIds
<1>6. \A r \in Sweeper : dead'[r] \subseteq dead[r]
  BY <1>1 DEF TypeOK
<1>7. TransactionsClean'
  BY <1>1 DEF IInv, TransactionsClean
<1>8. RowsInOrder'
  BY <1>1, <1>2, <1>3 DEF IInv, RowsInOrder, DeadIdsHaveNoRow
<1>9. SeenRowsInOrder'
  BY <1>1, <1>2, <1>3, <1>4, <1>5, ZenonT(60) DEF IInv, SeenRowsInOrder, DeadIdsHaveNoRow
<1>10. OrderedIdsWereBorn'
  BY <1>1, <1>2, <1>3, <1>4 DEF IInv, OrderedIdsWereBorn
<1>11. DeadIdsHaveNoRow'
  BY <1>1, <1>6 DEF IInv, DeadIdsHaveNoRow
<1>12. OrderVersionsGrow'
  BY <1>1, <1>3, <1>4, LeqReflexive DEF IInv, OrderVersionsGrow
<1> QED
  BY <1>7, <1>8, <1>9, <1>10, <1>11, <1>12 DEF IInv

(* Every step keeps the strengthened invariant. *)
LEMMA IInvStep == TypeOK /\ IInv /\ [Next]_vars => IInv'
<1> SUFFICES ASSUME TypeOK, IInv, [Next]_vars PROVE IInv'
  OBVIOUS
<1>1. ASSUME NEW h \in Handler, LockNoteOrder(h) PROVE IInv'
  <2>1. /\ NoteOrderFree /\ pc' = [pc EXCEPT ![h] = "open"]
        /\ UNCHANGED <<lines, order, born, txLines, txOrder, txDirty, newLines, newOrder,
                       setsOrder, dead>>
    BY <1>1 DEF LockNoteOrder, tableVars, planVars
  <2>2. TransactionsClean'
    BY <2>1 DEF NoteOrderFree, TypeOK, IInv, TransactionsClean
  <2> QED
    BY <2>1, <2>2 DEF IInv, RowsInOrder, SeenRowsInOrder, OrderedIdsWereBorn,
                      DeadIdsHaveNoRow, OrderVersionsGrow, LinesSeen, OrderSeen
<1>2. ASSUME NEW h \in Handler, NEW op \in Ops, RefuseOp(h, op) PROVE IInv'
  BY <1>2, ZenonT(60) DEF RefuseOp, tableVars, planVars, IInv, TransactionsClean, RowsInOrder,
              SeenRowsInOrder, OrderedIdsWereBorn, DeadIdsHaveNoRow, OrderVersionsGrow,
              LinesSeen, OrderSeen
<1>3. ASSUME NEW s \in Sweeper, SweepCrash(s) PROVE IInv'
  <2>1. UNCHANGED <<lines, order, born, pc, txLines, txOrder, txDirty, newLines, newOrder,
                    setsOrder>>
    BY <1>3 DEF SweepCrash, tableVars, txVars, planVars
  <2>2. \A r \in Sweeper : dead'[r] \subseteq dead[r]
    BY <1>3 DEF SweepCrash, TypeOK
  <2>3. DeadIdsHaveNoRow'
    BY <2>1, <2>2 DEF IInv, DeadIdsHaveNoRow
  <2> QED
    BY <2>1, <2>3 DEF IInv, TransactionsClean, RowsInOrder, SeenRowsInOrder,
                      OrderedIdsWereBorn, OrderVersionsGrow, LinesSeen, OrderSeen
<1>4. CASE UNCHANGED vars
  BY <1>4 DEF vars, tableVars, txVars, planVars, IInv, TransactionsClean, RowsInOrder,
              SeenRowsInOrder, OrderedIdsWereBorn, DeadIdsHaveNoRow, OrderVersionsGrow,
              LinesSeen, OrderSeen
<1> QED
  BY <1>1, <1>2, <1>3, <1>4, IInvRead, IInvWrite, IInvCommit, IInvAbort, IInvSweepLines,
     IInvSweepOrder DEF Next

(***************************************************************************)
(* No line a handler committed falls out of the note's order, for any      *)
(* number of connections, batches, devices, lines and retention sweeps.    *)
(***************************************************************************)
THEOREM RowsStayOrdered == Spec => []RowsInOrder
<1>1. Init => TypeOK /\ IInv
  BY TypeInit, IInvInit
<1>2. TypeOK /\ IInv /\ [Next]_vars => (TypeOK /\ IInv)'
  BY TypeStep, IInvStep
<1>3. IInv => RowsInOrder
  BY DEF IInv
<1> QED
  BY <1>1, <1>2, <1>3, PTL DEF Spec

-----------------------------------------------------------------------------
(***************************************************************************)
(* OrderIsDistinct.  Move keeps the order distinct only if its line_ids    *)
(* are: apply_op splices the list in as the client sent it.                *)
(***************************************************************************)

(* An Insert that applies is not a resend: its id has never been in the note. *)
LEMMA AppliedInsertIsNew ==
  ASSUME TypeOK, IInv, NEW h \in Handler, NEW op \in Ops,
         FreshOrResent(op), Applies(h, op), op.kind = "insert"
  PROVE  op.line \notin born
<1>1. AdvancesWriter(OrderSeen(h).vv, op.stamp.vv, op.stamp.writer)
  BY DEF Applies, InsertApplies, Accepts
<1>2. Leq(order.vv, OrderSeen(h).vv)
  BY DEF IInv, OrderVersionsGrow
<1>3. order.vv \in VV /\ OrderSeen(h).vv \in VV
  BY SeenTypes DEF TypeOK, OrderRow
<1>4. AdvancesWriter(order.vv, op.stamp.vv, op.stamp.writer)
  BY <1>1, <1>2, <1>3, OpTypes DEF AdvancesWriter, Leq, VV
<1> QED
  BY <1>4 DEF FreshOrResent

(* The order an op plans from a distinct one lists no line twice. *)
LEMMA PlannedDistinct ==
  ASSUME SelectionsDistinct, TypeOK, IInv, OrdersDistinct,
         NEW h \in Handler, NEW op \in Ops, FreshOrResent(op), Applies(h, op)
  PROVE  Distinct(PlannedOrder(h, op).ids)
<1> DEFINE ids == OrderSeen(h).ids
<1>1. ids \in Seq(Line) /\ Distinct(ids)
  BY SeenTypes DEF OrderRow, OrderSeen, OrdersDistinct, OrderIsDistinct
<1>2. CASE op.kind = "insert"
  <2>1. InsertApplies(h, op) /\ op.line \in Line /\ op.after \in Line \cup {Top}
    BY <1>2, OpTypes DEF Applies, SetsOrder
  <2> DEFINE p == PositionAfter(ids, op.after)
             block == <<op.line>>
  <2>2. p \in 0 .. Len(ids)
    BY <1>1, <2>1, PositionAfterRange DEF InsertApplies
  <2>3. block \in Seq(Line) /\ Ids(block) = {op.line} /\ Distinct(block)
    BY <2>1 DEF Ids, Distinct
  <2>4. op.line \notin born
    BY <1>2, AppliedInsertIsNew
  <2>5. Ids(ids) \cap Ids(block) = {}
    <3>1. op.line \notin DOMAIN txLines[h]
      BY <2>1, SeenIds DEF InsertApplies
    <3> QED
      BY <2>3, <2>4, <3>1 DEF IInv, OrderedIdsWereBorn
  <2>6. PlannedOrder(h, op).ids = SpliceAt(ids, p, block)
    BY <1>2 DEF PlannedOrder, NextOrder, InsertedIds
  <2> HIDE DEF ids, p, block
  <2> QED
    BY <1>1, <2>2, <2>3, <2>5, <2>6, SpliceAtDistinct
<1>3. CASE op.kind = "move"
  <2>1. MoveApplies(h, op) /\ op.after \in Line \cup {Top}
    BY <1>3, OpTypes DEF Applies, SetsOrder
  <2>2. op.block \in Seq(Line) /\ Distinct(op.block)
    BY <1>3, OpTypes DEF SelectionsDistinct
  <2> DEFINE rest == Without(ids, Ids(op.block))
  <2>3. rest \in Seq(Line) /\ Distinct(rest) /\ Ids(rest) = Ids(ids) \ Ids(op.block)
    BY <1>1, WithoutProperties
  <2>4. HasPosition(rest, op.after)
    BY <2>1, <2>3 DEF MoveApplies, HasPosition
  <2>5. PlannedOrder(h, op).ids = SpliceAt(rest, PositionAfter(rest, op.after), op.block)
    BY <1>3 DEF PlannedOrder, NextOrder, MovedIds
  <2> HIDE DEF rest
  <2>6. PositionAfter(rest, op.after) \in 0 .. Len(rest)
    BY <2>1, <2>3, <2>4, PositionAfterRange
  <2> QED
    BY <2>2, <2>3, <2>5, <2>6, SpliceAtDistinct
<1>4. CASE op.kind \in {"update", "delete"}
  <2>1. PlannedOrder(h, op) = NewOrder
    BY <1>4 DEF PlannedOrder
  <2> QED
    BY <2>1, NewOrderType DEF Distinct
<1> QED
  BY <1>2, <1>3, <1>4, OpTypes

(* Every step keeps every order distinct. *)
LEMMA DistinctStep ==
  ASSUME SelectionsDistinct
  PROVE  TypeOK /\ IInv /\ OrdersDistinct /\ [Next]_vars => OrdersDistinct'
<1> SUFFICES ASSUME TypeOK, IInv, OrdersDistinct, [Next]_vars PROVE OrdersDistinct'
  OBVIOUS
<1>1. Distinct(NewOrder.ids)
  BY NewOrderType DEF Distinct
<1>2. ASSUME NEW h \in Handler, NEW op \in Ops, ReadOp(h, op) PROVE OrdersDistinct'
  <2>1. Distinct(PlannedOrder(h, op).ids)
    BY <1>2, PlannedDistinct DEF ReadOp
  <2> QED
    BY <1>2, <2>1 DEF ReadOp, tableVars, TypeOK, OrdersDistinct, OrderIsDistinct
<1>3. ASSUME NEW h \in Handler, WriteOp(h) PROVE OrdersDistinct'
  BY <1>1, <1>3 DEF WriteOp, ClearPlan, tableVars, TypeOK, OrdersDistinct, OrderIsDistinct
<1>4. ASSUME NEW h \in Handler, Commit(h) PROVE OrdersDistinct'
  <2>1. Distinct(OrderSeen(h).ids)
    BY DEF OrderSeen, OrdersDistinct, OrderIsDistinct
  <2> QED
    BY <1>1, <1>4, <2>1
       DEF Commit, ResetTx, ClearPlan, TypeOK, OrdersDistinct, OrderIsDistinct
<1>5. ASSUME NEW h \in Handler, Abort(h) PROVE OrdersDistinct'
  BY <1>1, <1>5
     DEF Abort, ResetTx, ClearPlan, tableVars, TypeOK, OrdersDistinct, OrderIsDistinct
<1>6. ASSUME NEW s \in Sweeper, SweepOrder(s) PROVE OrdersDistinct'
  <2>1. order.ids \in Seq(Line) /\ Distinct(order.ids)
    BY DEF TypeOK, OrderRow, OrdersDistinct, OrderIsDistinct
  <2>2. Distinct(Without(order.ids, dead[s]))
    BY <2>1, WithoutProperties
  <2>3. order'.ids = Without(order.ids, dead[s])
    BY <1>6 DEF SweepOrder, TypeOK, OrderRow
  <2> QED
    BY <1>6, <2>2, <2>3
       DEF SweepOrder, txVars, planVars, OrdersDistinct, OrderIsDistinct
<1>7. CASE UNCHANGED <<order, txOrder, newOrder>>
  BY <1>7 DEF OrdersDistinct, OrderIsDistinct
<1>8. ASSUME NEW h \in Handler,
             LockNoteOrder(h) \/ \E op \in Ops : RefuseOp(h, op)
      PROVE  UNCHANGED <<order, txOrder, newOrder>>
  BY <1>8 DEF LockNoteOrder, RefuseOp, tableVars, planVars
<1>9. ASSUME NEW s \in Sweeper,
             SweepCrash(s) \/ \E gone \in SUBSET Line : SweepLines(s, gone)
      PROVE  UNCHANGED <<order, txOrder, newOrder>>
  BY <1>9 DEF SweepCrash, SweepLines, tableVars, txVars, planVars
<1>10. ASSUME UNCHANGED vars PROVE UNCHANGED <<order, txOrder, newOrder>>
  BY <1>10 DEF vars, tableVars, txVars, planVars
<1> QED
  BY <1>2, <1>3, <1>4, <1>5, <1>6, <1>7, <1>8, <1>9, <1>10 DEF Next

(***************************************************************************)
(* If clients only send Moves without repetitions, the committed order     *)
(* lists every line at most once, sweeps and resent Inserts included.      *)
(***************************************************************************)
THEOREM OrderStaysDistinct ==
  ASSUME SelectionsDistinct
  PROVE  Spec => []OrderIsDistinct
<1>1. Init => TypeOK /\ IInv /\ OrdersDistinct
  BY TypeInit, IInvInit, NewOrderType DEF Init, OrdersDistinct, OrderIsDistinct, Distinct
<1>2. TypeOK /\ IInv /\ OrdersDistinct /\ [Next]_vars => (TypeOK /\ IInv /\ OrdersDistinct)'
  BY TypeStep, IInvStep, DistinctStep
<1>3. OrdersDistinct => OrderIsDistinct
  BY DEF OrdersDistinct
<1> QED
  BY <1>1, <1>2, <1>3, PTL DEF Spec
-----------------------------------------------------------------------------
(***************************************************************************)
(* What a step may do to the tables.  A row or an order that an open       *)
(* transaction has written, or is about to, has a strictly larger version  *)
(* than the one it replaces, whatever the sweep removes in between.        *)
(***************************************************************************)
WritesGrow ==
  \A h \in Handler :
     /\ \A l \in DOMAIN txLines[h] \cap DOMAIN lines : Grows(lines[l], txLines[h][l])
     /\ txDirty[h] => Grows(order, txOrder[h])

PlansGrow ==
  \A h \in Handler :
     /\ \A l \in DOMAIN newLines[h] \cap DOMAIN LinesSeen(h) :
           Grows(LinesSeen(h)[l], newLines[h][l])
     /\ setsOrder[h] => Grows(OrderSeen(h), newOrder[h])

LEMMA GrowsTransitive ==
  ASSUME NEW a, NEW b, NEW c, a.vv \in VV, b.vv \in VV, c.vv \in VV,
         Grows(a, b), Leq(b.vv, c.vv)
  PROVE  Grows(a, c)
<1>1. PICK d \in Device : a.vv[d] # b.vv[d]
  BY DEF Grows, VV
<1>2. a.vv[d] < c.vv[d]
  BY <1>1 DEF Grows, Leq, VV
<1> QED
  BY <1>1, <1>2, LeqTransitive DEF Grows, VV

(* An accepted op moves its writer's counter past the stored one. *)
LEMMA AcceptedGrows ==
  ASSUME NEW stored, NEW op \in Ops, stored.vv \in VV, Accepts(stored, op.stamp)
  PROVE  /\ Leq(stored.vv, MergeVV(stored.vv, op.stamp.vv))
         /\ MergeVV(stored.vv, op.stamp.vv) # stored.vv
<1>1. op.stamp.vv \in VV /\ op.stamp.writer \in Device
  BY OpTypes
<1>2. op.stamp.vv[op.stamp.writer] > stored.vv[op.stamp.writer]
  BY DEF Accepts, AdvancesWriter
<1>3. MergeVV(stored.vv, op.stamp.vv)[op.stamp.writer] = op.stamp.vv[op.stamp.writer]
  BY <1>1, <1>2 DEF MergeVV
<1>4. op.stamp.vv[op.stamp.writer] \in Nat /\ stored.vv[op.stamp.writer] \in Nat
  BY <1>1 DEF VV
<1>5. op.stamp.vv[op.stamp.writer] # stored.vv[op.stamp.writer]
  BY <1>2, <1>4
<1> QED
  BY <1>1, <1>3, <1>5, MergeVVProperties

(* The row a transaction sees: its own, or the committed one. *)
LEMMA SeenRow ==
  ASSUME NEW h \in Handler, NEW l \in DOMAIN LinesSeen(h)
  PROVE  LinesSeen(h)[l] = IF l \in DOMAIN txLines[h] THEN txLines[h][l] ELSE lines[l]
  BY DEF LinesSeen, Overlay

LEMMA PlannedGrows ==
  ASSUME TypeOK, NEW h \in Handler, NEW op \in Ops, Applies(h, op)
  PROVE  /\ \A l \in DOMAIN PlannedLines(h, op) \cap DOMAIN LinesSeen(h) :
              Grows(LinesSeen(h)[l], PlannedLines(h, op)[l])
         /\ SetsOrder(op) => Grows(OrderSeen(h), PlannedOrder(h, op))
<1>1. CASE SetsOrder(op)
  <2>1. DOMAIN PlannedLines(h, op) \cap DOMAIN LinesSeen(h) = {} /\ Accepts(OrderSeen(h), op.stamp)
    BY <1>1, PlannedTypes
  <2>2. OrderSeen(h).vv \in VV
    BY SeenTypes DEF OrderRow
  <2>3. PlannedOrder(h, op).vv = MergeVV(OrderSeen(h).vv, op.stamp.vv)
    BY <1>1 DEF SetsOrder, PlannedOrder, NextOrder
  <2> QED
    BY <2>1, <2>2, <2>3, AcceptedGrows DEF Grows
<1>2. CASE ~SetsOrder(op)
  <2>1. op.kind \in {"update", "delete"}
    BY <1>2, OpTypes DEF SetsOrder
  <2>2. op.line \in DOMAIN LinesSeen(h) /\ Accepts(LinesSeen(h)[op.line], op.stamp)
    BY <2>1 DEF Applies, LineOpApplies
  <2>3. LinesSeen(h)[op.line].vv \in VV
    BY <2>2, SeenTypes DEF IsRows, Row
  <2> DEFINE r == NewRow(MergeVV(LinesSeen(h)[op.line].vv, op.stamp.vv), op, op.kind = "delete")
  <2>4. PlannedLines(h, op) = [l \in {op.line} |-> r]
    BY <2>1 DEF PlannedLines
  <2>5. r.vv = MergeVV(LinesSeen(h)[op.line].vv, op.stamp.vv)
    BY DEF NewRow
  <2> HIDE DEF r
  <2>6. Grows(LinesSeen(h)[op.line], r)
    BY <2>2, <2>3, <2>5, AcceptedGrows DEF Grows
  <2>7. ASSUME NEW l \in DOMAIN PlannedLines(h, op)
        PROVE  l = op.line /\ PlannedLines(h, op)[l] = r
    BY <2>4, <2>7
  <2> QED
    BY <1>2, <2>6, <2>7
<1> QED
  BY <1>1, <1>2

(* Every step keeps the versions growing. *)
LEMMA GrowStep ==
  TypeOK /\ IInv /\ WritesGrow /\ PlansGrow /\ [Next]_vars => (WritesGrow /\ PlansGrow)'
<1> SUFFICES ASSUME TypeOK, IInv, WritesGrow, PlansGrow, [Next]_vars
             PROVE  WritesGrow' /\ PlansGrow'
  OBVIOUS
<1>1. ASSUME NEW h \in Handler, NEW op \in Ops, ReadOp(h, op) PROVE WritesGrow' /\ PlansGrow'
  <2> DEFINE pl == PlannedLines(h, op)
             po == PlannedOrder(h, op)
             so == SetsOrder(op)
  <2>1. /\ Applies(h, op)
        /\ newLines' = [newLines EXCEPT ![h] = pl]
        /\ newOrder' = [newOrder EXCEPT ![h] = po]
        /\ setsOrder' = [setsOrder EXCEPT ![h] = so]
        /\ UNCHANGED <<lines, order, txLines, txOrder, txDirty>>
    BY <1>1 DEF ReadOp, tableVars
  <2>2. /\ \A l \in DOMAIN pl \cap DOMAIN LinesSeen(h) : Grows(LinesSeen(h)[l], pl[l])
        /\ so => Grows(OrderSeen(h), po)
    BY <2>1, PlannedGrows
  <2>3. \A k \in Handler : LinesSeen(k)' = LinesSeen(k) /\ OrderSeen(k)' = OrderSeen(k)
    BY <2>1 DEF LinesSeen, OrderSeen
  <2> HIDE DEF pl, po, so
  <2>4. /\ newLines'[h] = pl /\ newOrder'[h] = po /\ setsOrder'[h] = so
        /\ \A k \in Handler \ {h} : /\ newLines'[k] = newLines[k] /\ newOrder'[k] = newOrder[k]
                                    /\ setsOrder'[k] = setsOrder[k]
    BY <2>1 DEF TypeOK
  <2>5. WritesGrow'
    BY <2>1 DEF WritesGrow, Grows
  <2>6. PlansGrow'
    BY <2>2, <2>3, <2>4 DEF PlansGrow
  <2> QED
    BY <2>5, <2>6
<1>2. ASSUME NEW h \in Handler, WriteOp(h) PROVE WritesGrow' /\ PlansGrow'
  <2> DEFINE tl == Overlay(RowsWritten(h), txLines[h])
  <2>1. /\ txLines' = [txLines EXCEPT ![h] = tl]
        /\ txOrder' = [txOrder EXCEPT ![h] = IF setsOrder[h] THEN newOrder[h] ELSE @]
        /\ txDirty' = [txDirty EXCEPT ![h] = @ \/ setsOrder[h]]
        /\ newLines' = [newLines EXCEPT ![h] = NoRows]
        /\ setsOrder' = [setsOrder EXCEPT ![h] = FALSE]
        /\ newOrder' = [newOrder EXCEPT ![h] = NewOrder]
        /\ UNCHANGED <<lines, order>>
        /\ setsOrder[h] => DOMAIN newLines[h] \cap DOMAIN lines = {}
    BY <1>2 DEF WriteOp, ClearPlan, tableVars
  <2>2. /\ DOMAIN RowsWritten(h) \subseteq DOMAIN newLines[h]
        /\ \A l \in DOMAIN RowsWritten(h) : RowsWritten(h)[l] = newLines[h][l]
    BY DEF RowsWritten, Keep
  <2>3. /\ DOMAIN tl = DOMAIN RowsWritten(h) \cup DOMAIN txLines[h]
        /\ \A l \in DOMAIN tl : tl[l] = IF l \in DOMAIN RowsWritten(h) THEN newLines[h][l]
                                        ELSE txLines[h][l]
    BY <2>2 DEF Overlay
  <2>4. ASSUME NEW l \in DOMAIN tl \cap DOMAIN lines PROVE Grows(lines[l], tl[l])
    <3>1. CASE l \in DOMAIN RowsWritten(h)
      <4>1. l \in DOMAIN newLines[h] \cap DOMAIN LinesSeen(h) /\ tl[l] = newLines[h][l]
        BY <2>2, <2>3, <3>1, SeenIds
      <4>2. Grows(LinesSeen(h)[l], newLines[h][l])
        BY <4>1 DEF PlansGrow
      <4>3. CASE l \in DOMAIN txLines[h]
        <5>1. LinesSeen(h)[l] = txLines[h][l] /\ Grows(lines[l], txLines[h][l])
          BY <4>1, <4>3, SeenRow DEF WritesGrow
        <5>2. lines[l].vv \in VV /\ txLines[h][l].vv \in VV /\ newLines[h][l].vv \in VV
          BY <4>1, <4>3 DEF TypeOK, IsRows, Row
        <5> QED
          BY <4>1, <4>2, <5>1, <5>2, GrowsTransitive DEF Grows
      <4>4. CASE l \notin DOMAIN txLines[h]
        BY <4>1, <4>2, <4>4, SeenRow
      <4> QED
        BY <4>3, <4>4
    <3>2. CASE l \notin DOMAIN RowsWritten(h)
      BY <2>3, <3>2 DEF WritesGrow
    <3> QED
      BY <3>1, <3>2
  <2>5. setsOrder[h] => Grows(order, newOrder[h])
    <3>1. order.vv \in VV /\ OrderSeen(h).vv \in VV /\ newOrder[h].vv \in VV
      BY SeenTypes DEF TypeOK, OrderRow
    <3>2. OrderSeen(h) = order \/ Grows(order, OrderSeen(h))
      BY DEF OrderSeen, WritesGrow
    <3>3. setsOrder[h] => Grows(OrderSeen(h), newOrder[h])
      BY DEF PlansGrow
    <3> QED
      BY <3>1, <3>2, <3>3, GrowsTransitive DEF Grows
  <2> HIDE DEF tl
  <2>6. /\ txLines'[h] = tl /\ newLines'[h] = NoRows /\ ~setsOrder'[h]
        /\ txDirty'[h] => setsOrder[h] \/ txDirty[h]
        /\ txOrder'[h] = IF setsOrder[h] THEN newOrder[h] ELSE txOrder[h]
        /\ \A k \in Handler \ {h} :
             /\ newLines'[k] = newLines[k] /\ newOrder'[k] = newOrder[k]
             /\ setsOrder'[k] = setsOrder[k] /\ txLines'[k] = txLines[k]
             /\ txOrder'[k] = txOrder[k] /\ txDirty'[k] = txDirty[k]
    BY <2>1 DEF TypeOK
  <2>7. WritesGrow'
    <3>1. txDirty'[h] => Grows(order, txOrder'[h])
      BY <2>5, <2>6 DEF WritesGrow
    <3> QED
      BY <2>1, <2>4, <2>6, <3>1 DEF WritesGrow, Grows
  <2>8. PlansGrow'
    <3>1. \A k \in Handler \ {h} : LinesSeen(k)' = LinesSeen(k) /\ OrderSeen(k)' = OrderSeen(k)
      BY <2>1, <2>6 DEF LinesSeen, OrderSeen
    <3> QED
      BY <2>6, <3>1, NoRowsProperties DEF PlansGrow
  <2> QED
    BY <2>7, <2>8
<1>3. ASSUME NEW h \in Handler, Commit(h) \/ Abort(h) PROVE WritesGrow' /\ PlansGrow'
  <2>1. AllIdle'
    BY <1>3, ResetLeavesIdle DEF Commit, Abort, IInv
  <2> QED
    BY <2>1, NoRowsProperties DEF AllIdle, WritesGrow, PlansGrow
<1>4. ASSUME NEW s \in Sweeper, NEW gone \in SUBSET Line, SweepLines(s, gone)
      PROVE  WritesGrow' /\ PlansGrow'
  <2>1. UNCHANGED <<order, txLines, txOrder, txDirty, newLines, newOrder, setsOrder>>
    BY <1>4 DEF SweepLines, txVars, planVars
  <2>2. /\ DOMAIN lines' \subseteq DOMAIN lines
        /\ \A l \in DOMAIN lines' : lines'[l] = lines[l]
    BY <1>4 DEF SweepLines, Keep
  <2>3. ASSUME NEW h \in Handler
        PROVE  /\ OrderSeen(h)' = OrderSeen(h)
               /\ DOMAIN LinesSeen(h)' \subseteq DOMAIN LinesSeen(h)
               /\ \A l \in DOMAIN LinesSeen(h)' : LinesSeen(h)'[l] = LinesSeen(h)[l]
    BY <2>1, <2>2 DEF OrderSeen, LinesSeen, Overlay
  <2>4. WritesGrow'
    BY <2>1, <2>2 DEF WritesGrow, Grows
  <2>5. PlansGrow'
    BY <2>1, <2>3 DEF PlansGrow
  <2> QED
    BY <2>4, <2>5
<1>5. ASSUME NEW s \in Sweeper, SweepOrder(s) PROVE WritesGrow' /\ PlansGrow'
  <2>1. /\ \A h \in Handler : ~txDirty[h]
        /\ UNCHANGED <<lines, txLines, txOrder, txDirty, newLines, newOrder, setsOrder>>
    BY <1>5 DEF SweepOrder, txVars, planVars
  <2>2. order'.vv = order.vv
    BY <1>5 DEF SweepOrder, TypeOK, OrderRow
  <2>3. \A h \in Handler : /\ LinesSeen(h)' = LinesSeen(h)
                           /\ OrderSeen(h) = order /\ OrderSeen(h)' = order'
    BY <2>1 DEF LinesSeen, OrderSeen
  <2>4. WritesGrow'
    BY <2>1 DEF WritesGrow
  <2>5. PlansGrow'
    BY <2>1, <2>2, <2>3 DEF PlansGrow, Grows
  <2> QED
    BY <2>4, <2>5
<1>6. CASE UNCHANGED <<lines, order, txLines, txOrder, txDirty, newLines, newOrder, setsOrder>>
  BY <1>6 DEF WritesGrow, PlansGrow, Grows, LinesSeen, OrderSeen
<1>7. ASSUME NEW h \in Handler, LockNoteOrder(h) \/ \E op \in Ops : RefuseOp(h, op)
      PROVE  UNCHANGED <<lines, order, txLines, txOrder, txDirty, newLines, newOrder, setsOrder>>
  BY <1>7 DEF LockNoteOrder, RefuseOp, tableVars, planVars
<1>8. ASSUME NEW s \in Sweeper, SweepCrash(s)
      PROVE  UNCHANGED <<lines, order, txLines, txOrder, txDirty, newLines, newOrder, setsOrder>>
  BY <1>8 DEF SweepCrash, tableVars, txVars, planVars
<1>9. ASSUME UNCHANGED vars
      PROVE  UNCHANGED <<lines, order, txLines, txOrder, txDirty, newLines, newOrder, setsOrder>>
  BY <1>9 DEF vars, tableVars, txVars, planVars
<1> QED
  BY <1>1, <1>2, <1>3, <1>4, <1>5, <1>6, <1>7, <1>8, <1>9 DEF Next

(* Only Commit and the sweep touch the tables, and only as they may. *)
LEMMA TablesUnchanged ==
  ASSUME [Next]_vars,
         ~\E h \in Handler : Commit(h),
         ~\E s \in Sweeper : SweepOrder(s) \/ \E gone \in SUBSET Line : SweepLines(s, gone)
  PROVE  UNCHANGED <<lines, order>>
  BY DEF Next, vars, tableVars, LockNoteOrder, ReadOp, RefuseOp, WriteOp, Abort, SweepCrash

LEMMA StepIsVersioned ==
  TypeOK /\ IInv /\ WritesGrow /\ [Next]_vars => VersionedEdit
<1> SUFFICES ASSUME TypeOK, IInv, WritesGrow, [Next]_vars PROVE VersionedEdit
  OBVIOUS
<1>1. ASSUME NEW h \in Handler, Commit(h) PROVE VersionedEdit
  <2>1. lines' = LinesSeen(h) /\ order' = OrderSeen(h)
    BY <1>1 DEF Commit
  <2>2. ASSUME NEW l \in DOMAIN lines, lines'[l] # lines[l] PROVE Grows(lines[l], lines'[l])
    <3>1. l \in DOMAIN LinesSeen(h)
      BY SeenIds
    <3>2. l \in DOMAIN txLines[h] /\ lines'[l] = txLines[h][l]
      BY <2>1, <2>2, <3>1, SeenRow
    <3> QED
      BY <3>2 DEF WritesGrow
  <2>3. order' # order => Grows(order, order')
    <3>1. order' # order => txDirty[h] /\ order' = txOrder[h]
      BY <2>1 DEF OrderSeen
    <3>2. txDirty[h] => Grows(order, txOrder[h])
      BY DEF WritesGrow
    <3> QED
      BY <3>1, <3>2
  <2> QED
    BY <2>2, <2>3 DEF VersionedEdit
<1>2. ASSUME NEW s \in Sweeper, NEW gone \in SUBSET Line, SweepLines(s, gone)
      PROVE  VersionedEdit
  BY <1>2 DEF SweepLines, Keep, VersionedEdit
<1>3. ASSUME NEW s \in Sweeper, SweepOrder(s) PROVE VersionedEdit
  <2>1. lines' = lines /\ order'.vv = order.vv /\ order'.ids = Without(order.ids, dead[s])
    BY <1>3 DEF SweepOrder, TypeOK, OrderRow
  <2>2. Ids(order'.ids) = Ids(order.ids) \ dead[s]
    BY <2>1, WithoutProperties DEF TypeOK, OrderRow
  <2>3. DOMAIN lines \cap dead[s] = {}
    BY DEF IInv, DeadIdsHaveNoRow
  <2> QED
    BY <2>1, <2>2, <2>3 DEF VersionedEdit
<1>4. CASE UNCHANGED <<lines, order>>
  BY <1>4 DEF VersionedEdit
<1> QED
  BY <1>1, <1>2, <1>3, <1>4, TablesUnchanged

(***************************************************************************)
(* Every rewrite of a row or of the order that becomes visible has a       *)
(* strictly larger version, and the sweep's compaction keeps every id that *)
(* has a row - for any number of handlers, ops in a batch and sweeps.      *)
(***************************************************************************)
THEOREM EditsStayVersioned == Spec => EditsAreVersioned
<1> DEFINE GInv == TypeOK /\ IInv /\ WritesGrow /\ PlansGrow
<1>1. Init => GInv
  <2>1. Init => WritesGrow /\ PlansGrow
    BY NoRowsProperties DEF Init, WritesGrow, PlansGrow
  <2> QED
    BY <2>1, TypeInit, IInvInit
<1>2. GInv /\ [Next]_vars => GInv'
  BY TypeStep, IInvStep, GrowStep
<1>3. GInv /\ [Next]_vars => [VersionedEdit]_vars
  BY StepIsVersioned
<1> HIDE DEF GInv
<1> QED
  BY <1>1, <1>2, <1>3, PTL DEF Spec, EditsAreVersioned

-----------------------------------------------------------------------------
(***************************************************************************)
(* Without sweeps.  Then nothing removes a row behind a handler's back: an *)
(* UPDATE always finds the row that was read, and the order names no id    *)
(* without a row.                                                          *)
(***************************************************************************)
IdsHaveRows ==
  /\ Ids(order.ids) \subseteq DOMAIN lines
  /\ \A h \in Handler :
       /\ Ids(OrderSeen(h).ids) \subseteq DOMAIN LinesSeen(h)
       /\ setsOrder[h] => Ids(newOrder[h].ids) \subseteq DOMAIN LinesSeen(h) \cup DOMAIN newLines[h]
       /\ ~setsOrder[h] => DOMAIN newLines[h] \subseteq DOMAIN LinesSeen(h)

(* An op whose statements are still to be run will store its version. *)
AboutToStore(h, a) ==
  IF a.on = Top THEN setsOrder[h] /\ Leq(a.vv, newOrder[h].vv)
  ELSE ~setsOrder[h] /\ a.on \in DOMAIN newLines[h] /\ Leq(a.vv, newLines[h][a.on].vv)

AppliedIsKept ==
  \A h \in Handler :
     /\ pc[h] = "idle" => applied[h] = {}
     /\ \A a \in applied[h] : Stored(h, a) \/ (pc[h] = "planned" /\ AboutToStore(h, a))

(* The row or order an op plans covers the op's own version. *)
LEMMA PlannedStores ==
  ASSUME TypeOK, NEW h \in Handler, NEW op \in Ops, Applies(h, op)
  PROVE  /\ SetsOrder(op) => Leq(op.stamp.vv, PlannedOrder(h, op).vv)
         /\ ~SetsOrder(op) => /\ op.line \in DOMAIN LinesSeen(h)
                              /\ DOMAIN PlannedLines(h, op) = {op.line}
                              /\ Leq(op.stamp.vv, PlannedLines(h, op)[op.line].vv)
<1>1. op.stamp.vv \in VV
  BY OpTypes
<1>2. CASE SetsOrder(op)
  <2>1. OrderSeen(h).vv \in VV
    BY SeenTypes DEF OrderRow
  <2>2. PlannedOrder(h, op).vv = MergeVV(OrderSeen(h).vv, op.stamp.vv)
    BY <1>2 DEF SetsOrder, PlannedOrder, NextOrder
  <2> QED
    BY <1>1, <1>2, <2>1, <2>2, MergeVVProperties
<1>3. CASE ~SetsOrder(op)
  <2>1. op.kind \in {"update", "delete"}
    BY <1>3, OpTypes DEF SetsOrder
  <2>2. op.line \in DOMAIN LinesSeen(h)
    BY <2>1 DEF Applies, LineOpApplies
  <2>3. LinesSeen(h)[op.line].vv \in VV
    BY <2>2, SeenTypes DEF IsRows, Row
  <2> DEFINE r == NewRow(MergeVV(LinesSeen(h)[op.line].vv, op.stamp.vv), op, op.kind = "delete")
  <2>4. PlannedLines(h, op) = [l \in {op.line} |-> r]
    BY <2>1 DEF PlannedLines
  <2>5. r.vv = MergeVV(LinesSeen(h)[op.line].vv, op.stamp.vv)
    BY DEF NewRow
  <2> HIDE DEF r
  <2>6. Leq(op.stamp.vv, r.vv)
    BY <1>1, <2>3, <2>5, MergeVVProperties
  <2> QED
    BY <1>3, <2>2, <2>4, <2>6
<1> QED
  BY <1>2, <1>3

(* What WriteOp makes its transaction see. *)
LEMMA SeenAfterWrite ==
  ASSUME TypeOK, IInv, IdsHaveRows, NEW h \in Handler, WriteOp(h)
  PROVE  /\ DOMAIN LinesSeen(h)' = DOMAIN LinesSeen(h) \cup DOMAIN newLines[h]
         /\ \A l \in DOMAIN LinesSeen(h)' :
              LinesSeen(h)'[l] = IF l \in DOMAIN newLines[h] THEN newLines[h][l]
                                 ELSE LinesSeen(h)[l]
         /\ OrderSeen(h)' = IF setsOrder[h] THEN newOrder[h] ELSE OrderSeen(h)
<1> DEFINE tl == Overlay(RowsWritten(h), txLines[h])
<1>1. /\ txLines' = [txLines EXCEPT ![h] = tl] /\ lines' = lines /\ order' = order
      /\ txOrder' = [txOrder EXCEPT ![h] = IF setsOrder[h] THEN newOrder[h] ELSE @]
      /\ txDirty' = [txDirty EXCEPT ![h] = @ \/ setsOrder[h]]
  BY DEF WriteOp, tableVars
<1>2. /\ DOMAIN RowsWritten(h) = DOMAIN newLines[h]
      /\ \A l \in DOMAIN newLines[h] : RowsWritten(h)[l] = newLines[h][l]
  BY DEF RowsWritten, Keep, IdsHaveRows
<1>3. /\ DOMAIN tl = DOMAIN newLines[h] \cup DOMAIN txLines[h]
      /\ \A l \in DOMAIN tl : tl[l] = IF l \in DOMAIN newLines[h] THEN newLines[h][l]
                                      ELSE txLines[h][l]
  BY <1>2 DEF Overlay
<1> HIDE DEF tl
<1>4. /\ txLines'[h] = tl /\ txDirty'[h] = (txDirty[h] \/ setsOrder[h])
      /\ txOrder'[h] = IF setsOrder[h] THEN newOrder[h] ELSE txOrder[h]
  BY <1>1 DEF TypeOK
<1>5. /\ DOMAIN LinesSeen(h)' = DOMAIN tl \cup DOMAIN lines
      /\ \A l \in DOMAIN LinesSeen(h)' : LinesSeen(h)'[l] = IF l \in DOMAIN tl THEN tl[l] ELSE lines[l]
  BY <1>1, <1>4 DEF LinesSeen, Overlay
<1>6. OrderSeen(h)' = IF setsOrder[h] THEN newOrder[h] ELSE OrderSeen(h)
  BY <1>1, <1>4, ZenonT(60) DEF OrderSeen
<1>7. DOMAIN LinesSeen(h)' = DOMAIN LinesSeen(h) \cup DOMAIN newLines[h]
  BY <1>3, <1>5, SeenIds
<1>8. ASSUME NEW l \in DOMAIN LinesSeen(h)'
      PROVE  LinesSeen(h)'[l] = IF l \in DOMAIN newLines[h] THEN newLines[h][l]
                                ELSE LinesSeen(h)[l]
  <2>1. CASE l \in DOMAIN newLines[h]
    BY <1>3, <1>5, <2>1
  <2>2. CASE l \notin DOMAIN newLines[h]
    BY <1>3, <1>5, <1>7, <2>2, SeenRow
  <2> QED
    BY <2>1, <2>2
<1> QED
  BY <1>6, <1>7, <1>8

LEMMA RowsStep ==
  ASSUME Sweeper = {}
  PROVE  TypeOK /\ IInv /\ IdsHaveRows /\ [Next]_vars => IdsHaveRows'
<1> SUFFICES ASSUME TypeOK, IInv, IdsHaveRows, [Next]_vars PROVE IdsHaveRows'
  OBVIOUS
<1>1. ASSUME NEW h \in Handler, NEW op \in Ops, ReadOp(h, op) PROVE IdsHaveRows'
  <2> DEFINE pl == PlannedLines(h, op)
             po == PlannedOrder(h, op)
             so == SetsOrder(op)
  <2>1. /\ Applies(h, op)
        /\ newLines' = [newLines EXCEPT ![h] = pl]
        /\ newOrder' = [newOrder EXCEPT ![h] = po]
        /\ setsOrder' = [setsOrder EXCEPT ![h] = so]
        /\ UNCHANGED <<lines, order, txLines, txOrder, txDirty>>
    BY <1>1 DEF ReadOp, tableVars
  <2>2. /\ so => Ids(po.ids) = Ids(OrderSeen(h).ids) \cup DOMAIN pl
        /\ ~so => DOMAIN pl \subseteq DOMAIN LinesSeen(h)
    BY <2>1, PlannedTypes, PlannedStores
  <2>3. \A k \in Handler : LinesSeen(k)' = LinesSeen(k) /\ OrderSeen(k)' = OrderSeen(k)
    BY <2>1 DEF LinesSeen, OrderSeen
  <2> HIDE DEF pl, po, so
  <2>4. /\ newLines'[h] = pl /\ newOrder'[h] = po /\ setsOrder'[h] = so
        /\ \A k \in Handler \ {h} : /\ newLines'[k] = newLines[k] /\ newOrder'[k] = newOrder[k]
                                    /\ setsOrder'[k] = setsOrder[k]
    BY <2>1 DEF TypeOK
  <2>5. Ids(order.ids)' \subseteq DOMAIN lines'
    BY <2>1 DEF IdsHaveRows
  <2>6. ASSUME NEW k \in Handler
        PROVE  /\ Ids(OrderSeen(k)'.ids) \subseteq DOMAIN LinesSeen(k)'
               /\ setsOrder'[k] => Ids(newOrder'[k].ids) \subseteq DOMAIN LinesSeen(k)' \cup DOMAIN newLines'[k]
               /\ ~setsOrder'[k] => DOMAIN newLines'[k] \subseteq DOMAIN LinesSeen(k)'
    <3>1. CASE k = h
      BY <2>2, <2>3, <2>4, <3>1 DEF IdsHaveRows
    <3>2. CASE k # h
      BY <2>3, <2>4, <3>2 DEF IdsHaveRows
    <3> QED
      BY <3>1, <3>2
  <2> QED
    BY <2>5, <2>6 DEF IdsHaveRows
<1>2. ASSUME NEW h \in Handler, WriteOp(h) PROVE IdsHaveRows'
  <2>1. /\ DOMAIN LinesSeen(h)' = DOMAIN LinesSeen(h) \cup DOMAIN newLines[h]
        /\ OrderSeen(h)' = IF setsOrder[h] THEN newOrder[h] ELSE OrderSeen(h)
    BY <1>2, SeenAfterWrite
  <2>2. lines' = lines /\ order' = order
    BY <1>2 DEF WriteOp, tableVars
  <2>3. /\ newLines'[h] = NoRows /\ ~setsOrder'[h]
        /\ \A k \in Handler \ {h} :
             /\ newLines'[k] = newLines[k] /\ newOrder'[k] = newOrder[k]
             /\ setsOrder'[k] = setsOrder[k]
             /\ LinesSeen(k)' = LinesSeen(k) /\ OrderSeen(k)' = OrderSeen(k)
    BY <1>2 DEF WriteOp, ClearPlan, tableVars, TypeOK, LinesSeen, OrderSeen
  <2>4. Ids(OrderSeen(h)'.ids) \subseteq DOMAIN LinesSeen(h)'
    BY <2>1 DEF IdsHaveRows
  <2>5. ASSUME NEW k \in Handler
        PROVE  /\ Ids(OrderSeen(k)'.ids) \subseteq DOMAIN LinesSeen(k)'
               /\ setsOrder'[k] => Ids(newOrder'[k].ids) \subseteq DOMAIN LinesSeen(k)' \cup DOMAIN newLines'[k]
               /\ ~setsOrder'[k] => DOMAIN newLines'[k] \subseteq DOMAIN LinesSeen(k)'
    <3>1. CASE k = h
      BY <2>3, <2>4, <3>1, NoRowsProperties
    <3>2. CASE k # h
      BY <2>3, <3>2 DEF IdsHaveRows
    <3> QED
      BY <3>1, <3>2
  <2> QED
    BY <2>2, <2>5 DEF IdsHaveRows
<1>3. ASSUME NEW h \in Handler, Commit(h) \/ Abort(h) PROVE IdsHaveRows'
  <2>1. AllIdle'
    BY <1>3, ResetLeavesIdle DEF Commit, Abort, IInv
  <2>2. Ids(order.ids)' \subseteq DOMAIN lines'
    BY <1>3 DEF Commit, Abort, tableVars, IdsHaveRows
  <2>3. \A k \in Handler : OrderSeen(k)' = order' /\ DOMAIN LinesSeen(k)' = DOMAIN lines'
    BY <2>1, NoRowsProperties DEF AllIdle, OrderSeen, LinesSeen, Overlay
  <2> QED
    BY <2>1, <2>2, <2>3, NoRowsProperties DEF AllIdle, IdsHaveRows
<1>4. CASE UNCHANGED <<lines, order, txLines, txOrder, txDirty, newLines, newOrder, setsOrder>>
  BY <1>4 DEF IdsHaveRows, LinesSeen, OrderSeen
<1>5. ASSUME NEW h \in Handler, LockNoteOrder(h) \/ \E op \in Ops : RefuseOp(h, op)
      PROVE  UNCHANGED <<lines, order, txLines, txOrder, txDirty, newLines, newOrder, setsOrder>>
  BY <1>5 DEF LockNoteOrder, RefuseOp, tableVars, planVars
<1>6. ASSUME UNCHANGED vars
      PROVE  UNCHANGED <<lines, order, txLines, txOrder, txDirty, newLines, newOrder, setsOrder>>
  BY <1>6 DEF vars, tableVars, txVars, planVars
<1> QED
  BY <1>1, <1>2, <1>3, <1>4, <1>5, <1>6 DEF Next

(***************************************************************************)
(* While no retention sweep runs, the committed order and the committed    *)
(* rows name exactly the same lines, whatever batches the handlers of all  *)
(* instances commit or roll back.                                          *)
(***************************************************************************)
THEOREM OrderNamesTheRows ==
  ASSUME Sweeper = {}
  PROVE  Spec => []OrderIsExactlyRows
<1>1. Init => TypeOK /\ IInv /\ IdsHaveRows
  <2>1. Init => IdsHaveRows
    BY NoRowsProperties, NewOrderType DEF Init, IdsHaveRows, OrderSeen, Ids
  <2> QED
    BY <2>1, TypeInit, IInvInit
<1>2. TypeOK /\ IInv /\ IdsHaveRows /\ [Next]_vars => (TypeOK /\ IInv /\ IdsHaveRows)'
  BY TypeStep, IInvStep, RowsStep
<1>3. IInv /\ IdsHaveRows => OrderIsExactlyRows
  BY DEF IInv, RowsInOrder, IdsHaveRows, OrderIsExactlyRows
<1> QED
  BY <1>1, <1>2, <1>3, PTL DEF Spec

LEMMA AppliedStep ==
  ASSUME Sweeper = {}
  PROVE  TypeOK /\ IInv /\ PlansGrow /\ IdsHaveRows /\ AppliedIsKept /\ [Next]_vars => AppliedIsKept'
<1> SUFFICES ASSUME TypeOK, IInv, PlansGrow, IdsHaveRows, AppliedIsKept, [Next]_vars
             PROVE  AppliedIsKept'
  OBVIOUS
<1>1. ASSUME NEW h \in Handler, NEW op \in Ops, ReadOp(h, op) PROVE AppliedIsKept'
  <2> DEFINE pl == PlannedLines(h, op)
             po == PlannedOrder(h, op)
             so == SetsOrder(op)
  <2>0. PICK n : n = Reported(h, op)
    OBVIOUS
  <2>1. /\ Applies(h, op) /\ pc[h] = "open"
        /\ newLines' = [newLines EXCEPT ![h] = pl]
        /\ newOrder' = [newOrder EXCEPT ![h] = po]
        /\ setsOrder' = [setsOrder EXCEPT ![h] = so]
        /\ applied' = [applied EXCEPT ![h] = @ \cup {n}]
        /\ pc' = [pc EXCEPT ![h] = "planned"]
        /\ UNCHANGED <<lines, order, txLines, txOrder, txDirty>>
    BY <1>1, <2>0 DEF ReadOp, tableVars
  <2>2. IF so THEN n.on = Top /\ Leq(n.vv, po.vv)
        ELSE n.on # Top /\ n.on \in DOMAIN pl /\ Leq(n.vv, pl[n.on].vv)
    BY <2>0, <2>1, PlannedStores, OpTypes, TopAssumption DEF Reported, Target, SetsOrder
  <2>3. so \in BOOLEAN
    BY <2>1, PlannedTypes
  <2>4. \A k \in Handler : LinesSeen(k)' = LinesSeen(k) /\ OrderSeen(k)' = OrderSeen(k)
    BY <2>1 DEF LinesSeen, OrderSeen
  <2> HIDE DEF pl, po, so
  <2>5. /\ newLines'[h] = pl /\ newOrder'[h] = po /\ setsOrder'[h] = so /\ pc'[h] = "planned"
        /\ applied'[h] = applied[h] \cup {n}
        /\ \A k \in Handler \ {h} : /\ newLines'[k] = newLines[k] /\ newOrder'[k] = newOrder[k]
                                    /\ setsOrder'[k] = setsOrder[k] /\ pc'[k] = pc[k]
                                    /\ applied'[k] = applied[k]
    BY <2>1 DEF TypeOK
  <2>6. \A k \in Handler : \A a : Stored(k, a)' <=> Stored(k, a)
    BY <2>4 DEF Stored
  <2>7. AboutToStore(h, n)'
    BY <2>2, <2>3, <2>5 DEF AboutToStore
  <2>8. ASSUME NEW a \in applied'[h] PROVE Stored(h, a)' \/ AboutToStore(h, a)'
    BY <2>1, <2>5, <2>6, <2>7, <2>8 DEF AppliedIsKept
  <2>9. ASSUME NEW k \in Handler \ {h}, NEW a \in applied'[k]
        PROVE  Stored(k, a)' \/ (pc'[k] = "planned" /\ AboutToStore(k, a)')
    BY <2>5, <2>6, <2>9 DEF AppliedIsKept, AboutToStore
  <2> QED
    BY <2>5, <2>8, <2>9 DEF AppliedIsKept
<1>2. ASSUME NEW h \in Handler, WriteOp(h) PROVE AppliedIsKept'
  <2>1. /\ DOMAIN LinesSeen(h)' = DOMAIN LinesSeen(h) \cup DOMAIN newLines[h]
        /\ \A l \in DOMAIN LinesSeen(h)' :
             LinesSeen(h)'[l] = IF l \in DOMAIN newLines[h] THEN newLines[h][l]
                                ELSE LinesSeen(h)[l]
        /\ OrderSeen(h)' = IF setsOrder[h] THEN newOrder[h] ELSE OrderSeen(h)
    BY <1>2, SeenAfterWrite
  <2>2. /\ applied' = applied /\ pc'[h] = "open"
        /\ \A k \in Handler \ {h} :
             /\ newLines'[k] = newLines[k] /\ newOrder'[k] = newOrder[k]
             /\ setsOrder'[k] = setsOrder[k] /\ pc'[k] = pc[k]
             /\ LinesSeen(k)' = LinesSeen(k) /\ OrderSeen(k)' = OrderSeen(k)
    BY <1>2 DEF WriteOp, ClearPlan, tableVars, TypeOK, LinesSeen, OrderSeen
  <2>3. ASSUME NEW a \in applied[h] PROVE Stored(h, a)'
    <3>1. a.vv \in VV /\ OrderSeen(h).vv \in VV /\ newOrder[h].vv \in VV
      <4>1. a \in [on : Line \cup {Top}, vv : VV, live : BOOLEAN]
        BY <2>3 DEF TypeOK
      <4>2. OrderSeen(h).vv \in VV /\ newOrder[h].vv \in VV
        BY SeenTypes DEF TypeOK, OrderRow
      <4> QED
        BY <4>1, <4>2
    <3>2. CASE a.on = Top
      <4>1. Leq(a.vv, OrderSeen(h).vv) \/ (setsOrder[h] /\ Leq(a.vv, newOrder[h].vv))
        BY <3>2 DEF AppliedIsKept, Stored, AboutToStore
      <4>2. setsOrder[h] => Leq(OrderSeen(h).vv, newOrder[h].vv)
        BY DEF IInv, OrderVersionsGrow
      <4>3. Leq(a.vv, OrderSeen(h)'.vv)
        BY <2>1, <3>1, <4>1, <4>2, LeqTransitive
      <4> QED
        BY <3>2, <4>3 DEF Stored
    <3>3. CASE a.on # Top
      <4> DEFINE l == a.on
      <4>1. \/ l \in DOMAIN LinesSeen(h) /\ Leq(a.vv, LinesSeen(h)[l].vv)
            \/ l \in DOMAIN newLines[h] /\ Leq(a.vv, newLines[h][l].vv)
        BY <3>3 DEF AppliedIsKept, Stored, AboutToStore
      <4>2. l \in DOMAIN newLines[h] /\ l \in DOMAIN LinesSeen(h) =>
              Leq(LinesSeen(h)[l].vv, newLines[h][l].vv)
        BY DEF PlansGrow, Grows
      <4>3. /\ l \in DOMAIN newLines[h] => newLines[h][l].vv \in VV
            /\ l \in DOMAIN LinesSeen(h) => LinesSeen(h)[l].vv \in VV
        BY SeenTypes DEF TypeOK, IsRows, Row
      <4>4. l \in DOMAIN LinesSeen(h)' /\ Leq(a.vv, LinesSeen(h)'[l].vv)
        BY <2>1, <3>1, <4>1, <4>2, <4>3, LeqTransitive
      <4> QED
        BY <3>3, <4>4 DEF Stored
    <3> QED
      BY <3>2, <3>3
  <2>4. ASSUME NEW k \in Handler \ {h}, NEW a \in applied'[k]
        PROVE  Stored(k, a)' \/ (pc'[k] = "planned" /\ AboutToStore(k, a)')
    BY <2>2, <2>4 DEF AppliedIsKept, AboutToStore, Stored
  <2> QED
    BY <2>2, <2>3, <2>4 DEF AppliedIsKept
<1>3. ASSUME NEW h \in Handler, Commit(h) \/ Abort(h) PROVE AppliedIsKept'
  <2>1. pc[h] # "idle" /\ applied' = [applied EXCEPT ![h] = {}]
    BY <1>3 DEF Commit, Abort, ResetTx
  <2>2. \A k \in Handler : applied'[k] = {}
    BY <2>1 DEF TypeOK, IInv, TransactionsClean, AppliedIsKept
  <2> QED
    BY <2>2 DEF AppliedIsKept
<1>4. ASSUME NEW h \in Handler, LockNoteOrder(h) PROVE AppliedIsKept'
  <2>1. /\ pc[h] = "idle" /\ pc' = [pc EXCEPT ![h] = "open"]
        /\ UNCHANGED <<lines, order, txLines, txOrder, txDirty, newLines, newOrder, setsOrder,
                       applied>>
    BY <1>4 DEF LockNoteOrder, tableVars, planVars
  <2> QED
    BY <2>1 DEF TypeOK, AppliedIsKept, Stored, AboutToStore, LinesSeen, OrderSeen
<1>5. CASE UNCHANGED <<lines, order, pc, txLines, txOrder, txDirty, newLines, newOrder, setsOrder,
                       applied>>
  BY <1>5 DEF AppliedIsKept, Stored, AboutToStore, LinesSeen, OrderSeen
<1>6. ASSUME NEW h \in Handler, NEW op \in Ops, RefuseOp(h, op)
      PROVE  UNCHANGED <<lines, order, pc, txLines, txOrder, txDirty, newLines, newOrder,
                         setsOrder, applied>>
  BY <1>6 DEF RefuseOp, tableVars, planVars
<1>7. ASSUME UNCHANGED vars
      PROVE  UNCHANGED <<lines, order, pc, txLines, txOrder, txDirty, newLines, newOrder,
                         setsOrder, applied>>
  BY <1>7 DEF vars, tableVars, txVars, planVars
<1> QED
  BY <1>1, <1>2, <1>3, <1>4, <1>5, <1>6, <1>7 DEF Next

(***************************************************************************)
(* While no retention sweep runs, a batch that is about to commit contains *)
(* every op it reported as Applied: what is broadcast to the peers is in   *)
(* the tables, under a version that covers the op's.                       *)
(***************************************************************************)
THEOREM AppliedOpsAreStored ==
  ASSUME Sweeper = {}
  PROVE  Spec => []AppliedIsStored
<1> DEFINE AInv == /\ TypeOK /\ IInv /\ WritesGrow /\ PlansGrow
                   /\ IdsHaveRows /\ AppliedIsKept
<1>1. Init => AInv
  <2>1. Init => WritesGrow /\ PlansGrow /\ AppliedIsKept
    BY NoRowsProperties DEF Init, WritesGrow, PlansGrow, AppliedIsKept
  <2>2. Init => IdsHaveRows
    BY NoRowsProperties, NewOrderType DEF Init, IdsHaveRows, OrderSeen, Ids
  <2> QED
    BY <2>1, <2>2, TypeInit, IInvInit
<1>2. AInv /\ [Next]_vars => AInv'
  BY TypeStep, IInvStep, GrowStep, RowsStep, AppliedStep
<1>3. AInv => AppliedIsStored
  BY DEF AppliedIsKept, AppliedIsStored
<1> HIDE DEF AInv
<1> QED
  BY <1>1, <1>2, <1>3, PTL DEF Spec

-----------------------------------------------------------------------------
(***************************************************************************)
(* With sweeps.  What apply_op has reported is in the transaction, or is   *)
(* about to be written to a row that no sweep can take (the transaction    *)
(* holds it, or it is live and stays so while the note is locked), or is   *)
(* an op on a tombstone.  A lost op stays lost: an Insert that applies     *)
(* brings no id back.                                                      *)
(***************************************************************************)
InTransaction(h, a) ==
  IF a.on = Top THEN Leq(a.vv, OrderSeen(h).vv)
  ELSE a.on \in DOMAIN txLines[h] /\ Leq(a.vv, txLines[h][a.on].vv)

Unsweepable(h, l) == l \in DOMAIN txLines[h] \cup Live(lines)

ReportedIsAccounted ==
  \A h \in Handler :
     /\ pc[h] = "idle" => applied[h] = {}
     /\ setsOrder[h] => DOMAIN newLines[h] \cap born = {}
     /\ \A a \in applied[h] :
          \/ InTransaction(h, a)
          \/ /\ pc[h] = "planned" /\ AboutToStore(h, a)
             /\ a.on # Top => Unsweepable(h, a.on) \/ (~a.live /\ a.on \in born)
          \/ a.on # Top /\ ~a.live /\ Swept(h, a)

(* ReadOp.  The row it read is its own, a live one, or a tombstone that was born. *)
LEMMA AccountedRead ==
  ASSUME TypeOK, IInv, ReportedIsAccounted, NEW h \in Handler, NEW op \in Ops, ReadOp(h, op)
  PROVE  ReportedIsAccounted'
<1> DEFINE pl == PlannedLines(h, op)
           po == PlannedOrder(h, op)
           so == SetsOrder(op)
<1>0. PICK n : n = Reported(h, op)
  OBVIOUS
<1>1. /\ FreshOrResent(op) /\ Applies(h, op) /\ pc[h] = "open"
      /\ newLines' = [newLines EXCEPT ![h] = pl]
      /\ newOrder' = [newOrder EXCEPT ![h] = po]
      /\ setsOrder' = [setsOrder EXCEPT ![h] = so]
      /\ applied' = [applied EXCEPT ![h] = @ \cup {n}]
      /\ pc' = [pc EXCEPT ![h] = "planned"]
      /\ UNCHANGED <<lines, order, born, txLines, txOrder, txDirty>>
  BY <1>0 DEF ReadOp, tableVars
<1>2. IF so THEN n.on = Top /\ Leq(n.vv, po.vv)
      ELSE n.on # Top /\ n.on \in DOMAIN pl /\ Leq(n.vv, pl[n.on].vv)
  BY <1>0, <1>1, PlannedStores, OpTypes, TopAssumption DEF Reported, Target, SetsOrder
<1>3. ~so => Unsweepable(h, n.on) \/ (~n.live /\ n.on \in born)
  <2> SUFFICES ASSUME ~so PROVE Unsweepable(h, n.on) \/ (~n.live /\ n.on \in born)
    OBVIOUS
  <2>1. n.on = op.line /\ n.live = ~LinesSeen(h)[op.line].deleted
    BY <1>0 DEF Reported, Target
  <2>2. op.line \in DOMAIN LinesSeen(h)
    BY <1>1, PlannedStores
  <2>3. CASE op.line \in DOMAIN txLines[h]
    BY <2>1, <2>3 DEF Unsweepable
  <2>4. CASE op.line \notin DOMAIN txLines[h]
    <3>1. op.line \in DOMAIN lines /\ LinesSeen(h)[op.line] = lines[op.line]
      BY <2>2, <2>4, SeenRow, SeenIds
    <3>2. op.line \in born
      BY <3>1 DEF IInv, OrderedIdsWereBorn
    <3>3. lines[op.line].deleted \in BOOLEAN
      BY <3>1 DEF TypeOK, IsRows, Row
    <3> QED
      BY <2>1, <3>1, <3>2, <3>3 DEF Unsweepable, Live
  <2> QED
    BY <2>3, <2>4
<1>4. so => DOMAIN pl \cap born = {}
  <2>1. so => op.kind \in {"insert", "move"}
    BY DEF SetsOrder
  <2>2. op.kind = "insert" => DOMAIN pl = {op.line} /\ op.line \notin born
    BY <1>1, AppliedInsertIsNew DEF PlannedLines
  <2>3. op.kind = "move" => DOMAIN pl = {}
    BY NoRowsProperties DEF PlannedLines
  <2> QED
    BY <2>1, <2>2, <2>3
<1>5. so \in BOOLEAN
  BY <1>1, PlannedTypes
<1> HIDE DEF pl, po, so
<1>6. /\ newLines'[h] = pl /\ newOrder'[h] = po /\ setsOrder'[h] = so /\ pc'[h] = "planned"
      /\ applied'[h] = applied[h] \cup {n}
      /\ \A k \in Handler \ {h} : /\ newLines'[k] = newLines[k] /\ newOrder'[k] = newOrder[k]
                                  /\ setsOrder'[k] = setsOrder[k] /\ pc'[k] = pc[k]
                                  /\ applied'[k] = applied[k]
  BY <1>1 DEF TypeOK
<1>7. \A k \in Handler : LinesSeen(k)' = LinesSeen(k) /\ OrderSeen(k)' = OrderSeen(k)
  BY <1>1 DEF LinesSeen, OrderSeen
<1>8. \A k \in Handler : \A a : /\ InTransaction(k, a)' <=> InTransaction(k, a)
                                /\ Swept(k, a)' <=> Swept(k, a)
                                /\ Unsweepable(k, a.on)' <=> Unsweepable(k, a.on)
  BY <1>1, <1>7 DEF InTransaction, Swept, Unsweepable, Live
<1>9. AboutToStore(h, n)' /\ (n.on # Top => ~so)
  BY <1>2, <1>5, <1>6 DEF AboutToStore
<1>10. ASSUME NEW a \in applied'[h]
       PROVE  \/ InTransaction(h, a)'
              \/ /\ AboutToStore(h, a)'
                 /\ a.on # Top => Unsweepable(h, a.on)' \/ (~a.live /\ a.on \in born')
              \/ a.on # Top /\ ~a.live /\ Swept(h, a)'
  <2>1. CASE a = n
    BY <1>1, <1>3, <1>8, <1>9, <2>1
  <2>2. CASE a \in applied[h]
    BY <1>1, <1>8, <2>2 DEF ReportedIsAccounted
  <2> QED
    BY <1>6, <1>10, <2>1, <2>2
<1>11. ASSUME NEW k \in Handler \ {h}, NEW a \in applied'[k]
       PROVE  \/ InTransaction(k, a)'
              \/ /\ pc'[k] = "planned" /\ AboutToStore(k, a)'
                 /\ a.on # Top => Unsweepable(k, a.on)' \/ (~a.live /\ a.on \in born')
              \/ a.on # Top /\ ~a.live /\ Swept(k, a)'
  <2>1. AboutToStore(k, a)' <=> AboutToStore(k, a)
    BY <1>6 DEF AboutToStore
  <2> QED
    BY <1>1, <1>6, <1>8, <1>11, <2>1 DEF ReportedIsAccounted
<1>12. \A k \in Handler : /\ pc'[k] = "idle" => applied'[k] = {}
                          /\ setsOrder'[k] => DOMAIN newLines'[k] \cap born' = {}
  BY <1>1, <1>4, <1>6 DEF ReportedIsAccounted
<1> QED
  BY <1>6, <1>10, <1>11, <1>12 DEF ReportedIsAccounted

(***************************************************************************)
(* WriteOp.  The row of the op just read is written unless a sweep took it *)
(* first; then it was a tombstone.                                         *)
(***************************************************************************)
LEMMA AccountedWrite ==
  ASSUME TypeOK, IInv, PlansGrow, ReportedIsAccounted, NEW h \in Handler, WriteOp(h)
  PROVE  ReportedIsAccounted'
<1> DEFINE tl == Overlay(RowsWritten(h), txLines[h])
<1>1. /\ pc[h] = "planned" /\ pc' = [pc EXCEPT ![h] = "open"]
      /\ txLines' = [txLines EXCEPT ![h] = tl]
      /\ txOrder' = [txOrder EXCEPT ![h] = IF setsOrder[h] THEN newOrder[h] ELSE @]
      /\ txDirty' = [txDirty EXCEPT ![h] = @ \/ setsOrder[h]]
      /\ newLines' = [newLines EXCEPT ![h] = NoRows]
      /\ newOrder' = [newOrder EXCEPT ![h] = NewOrder]
      /\ setsOrder' = [setsOrder EXCEPT ![h] = FALSE]
      /\ UNCHANGED <<lines, order, born, applied>>
  BY DEF WriteOp, ClearPlan, tableVars
<1>2. /\ DOMAIN RowsWritten(h) = IF setsOrder[h] THEN DOMAIN newLines[h]
                                 ELSE DOMAIN newLines[h] \cap DOMAIN LinesSeen(h)
      /\ \A l \in DOMAIN RowsWritten(h) : RowsWritten(h)[l] = newLines[h][l]
  BY DEF RowsWritten, Keep
<1>3. /\ DOMAIN tl = DOMAIN RowsWritten(h) \cup DOMAIN txLines[h]
      /\ \A l \in DOMAIN tl : tl[l] = IF l \in DOMAIN RowsWritten(h) THEN newLines[h][l]
                                      ELSE txLines[h][l]
  BY <1>2 DEF Overlay
<1> HIDE DEF tl
<1>4. /\ txLines'[h] = tl /\ newLines'[h] = NoRows /\ ~setsOrder'[h] /\ pc'[h] = "open"
      /\ txDirty'[h] = (txDirty[h] \/ setsOrder[h])
      /\ txOrder'[h] = IF setsOrder[h] THEN newOrder[h] ELSE txOrder[h]
      /\ \A k \in Handler \ {h} :
           /\ newLines'[k] = newLines[k] /\ newOrder'[k] = newOrder[k]
           /\ setsOrder'[k] = setsOrder[k] /\ txLines'[k] = txLines[k] /\ pc'[k] = pc[k]
           /\ txOrder'[k] = txOrder[k] /\ txDirty'[k] = txDirty[k]
  BY <1>1 DEF TypeOK
<1>5. OrderSeen(h)' = IF setsOrder[h] THEN newOrder[h] ELSE OrderSeen(h)
  BY <1>1, <1>4, ZenonT(60) DEF OrderSeen
<1>6. DOMAIN LinesSeen(h)' = DOMAIN LinesSeen(h) \cup DOMAIN RowsWritten(h)
  <2>1. DOMAIN LinesSeen(h)' = DOMAIN tl \cup DOMAIN lines
    BY <1>1, <1>4 DEF LinesSeen, Overlay
  <2> QED
    BY <1>3, <2>1, SeenIds
<1>7. ASSUME NEW a \in applied[h], a.on = Top PROVE InTransaction(h, a)'
  <2>1. a.vv \in VV
    <3>1. a \in [on : Line \cup {Top}, vv : VV, live : BOOLEAN]
      BY <1>7 DEF TypeOK
    <3> QED
      BY <3>1
  <2>2. OrderSeen(h).vv \in VV /\ newOrder[h].vv \in VV
    BY SeenTypes DEF TypeOK, OrderRow
  <2>3. Leq(a.vv, OrderSeen(h).vv) \/ (setsOrder[h] /\ Leq(a.vv, newOrder[h].vv))
    BY <1>7 DEF ReportedIsAccounted, InTransaction, AboutToStore
  <2>4. setsOrder[h] => Leq(OrderSeen(h).vv, newOrder[h].vv)
    BY DEF IInv, OrderVersionsGrow
  <2>5. Leq(a.vv, OrderSeen(h)'.vv)
    BY <1>5, <2>1, <2>2, <2>3, <2>4, LeqTransitive
  <2> QED
    BY <1>7, <2>5 DEF InTransaction
<1>8. ASSUME NEW a \in applied[h], a.on # Top
      PROVE  InTransaction(h, a)' \/ (~a.live /\ Swept(h, a)')
  <2> DEFINE l == a.on
  <2>1. a.vv \in VV
    <3>1. a \in [on : Line \cup {Top}, vv : VV, live : BOOLEAN]
      BY <1>8 DEF TypeOK
    <3> QED
      BY <3>1
  <2>2. ASSUME l \in DOMAIN tl, Leq(a.vv, tl[l].vv) PROVE InTransaction(h, a)'
    BY <1>4, <1>8, <2>2 DEF InTransaction
  <2>3. CASE InTransaction(h, a)
    <3>1. l \in DOMAIN txLines[h] /\ Leq(a.vv, txLines[h][l].vv) /\ l \in DOMAIN tl
      BY <1>3, <1>8, <2>3 DEF InTransaction
    <3>2. CASE l \in DOMAIN RowsWritten(h)
      <4>1. l \in DOMAIN newLines[h] /\ l \in DOMAIN LinesSeen(h) /\ LinesSeen(h)[l] = txLines[h][l]
        BY <1>2, <3>1, <3>2, SeenIds, SeenRow
      <4>2. Leq(txLines[h][l].vv, newLines[h][l].vv)
        BY <4>1 DEF PlansGrow, Grows
      <4>3. txLines[h][l].vv \in VV /\ newLines[h][l].vv \in VV
        BY <3>1, <4>1 DEF TypeOK, IsRows, Row
      <4>4. Leq(a.vv, tl[l].vv)
        BY <1>3, <2>1, <3>1, <3>2, <4>2, <4>3, LeqTransitive
      <4> QED
        BY <2>2, <3>1, <4>4
    <3>3. CASE l \notin DOMAIN RowsWritten(h)
      BY <1>3, <2>2, <3>1, <3>3
    <3> QED
      BY <3>2, <3>3
  <2>4. CASE AboutToStore(h, a) /\ (Unsweepable(h, l) \/ (~a.live /\ l \in born))
    <3>1. ~setsOrder[h] /\ l \in DOMAIN newLines[h] /\ Leq(a.vv, newLines[h][l].vv)
      BY <1>8, <2>4 DEF AboutToStore
    <3>2. CASE l \in DOMAIN LinesSeen(h)
      BY <1>2, <1>3, <2>2, <3>1, <3>2
    <3>3. CASE l \notin DOMAIN LinesSeen(h)
      <4>1. ~Unsweepable(h, l)
        BY <3>3, SeenIds DEF Unsweepable, Live
      <4>2. l \notin DOMAIN LinesSeen(h)'
        BY <1>2, <1>6, <3>1, <3>3
      <4> QED
        BY <1>1, <2>4, <4>1, <4>2 DEF Swept
    <3> QED
      BY <3>2, <3>3
  <2>5. CASE ~a.live /\ Swept(h, a)
    <3>1. l \in born /\ l \notin DOMAIN LinesSeen(h)
      BY <2>5 DEF Swept
    <3>2. setsOrder[h] => l \notin DOMAIN newLines[h]
      BY <3>1 DEF ReportedIsAccounted
    <3>3. l \notin DOMAIN LinesSeen(h)'
      BY <1>2, <1>6, <3>1, <3>2
    <3> QED
      BY <1>1, <2>5, <3>1, <3>3 DEF Swept
  <2> QED
    BY <1>8, <2>3, <2>4, <2>5 DEF ReportedIsAccounted
<1>9. ASSUME NEW k \in Handler \ {h}, NEW a \in applied'[k] PROVE FALSE
  BY <1>1, <1>9 DEF TypeOK, IInv, TransactionsClean, ReportedIsAccounted
<1>10. \A k \in Handler : /\ pc'[k] = "idle" => applied'[k] = {}
                          /\ setsOrder'[k] => DOMAIN newLines'[k] \cap born' = {}
  BY <1>1, <1>4, <1>9 DEF ReportedIsAccounted
<1> QED
  BY <1>1, <1>7, <1>8, <1>9, <1>10 DEF ReportedIsAccounted

(* The sweep's DELETE takes tombstones that no transaction has written. *)
LEMMA AccountedSweep ==
  ASSUME TypeOK, ReportedIsAccounted,
         NEW s \in Sweeper, NEW gone \in SUBSET Line, SweepLines(s, gone)
  PROVE  ReportedIsAccounted'
<1>1. /\ gone \subseteq Tombstones /\ \A h \in Handler : gone \cap DOMAIN txLines[h] = {}
      /\ lines' = Keep(lines, Line \ gone)
      /\ UNCHANGED <<order, born, pc, txLines, txOrder, txDirty, newLines, newOrder, setsOrder,
                     applied>>
  BY DEF SweepLines, txVars, planVars
<1>2. /\ DOMAIN lines' = DOMAIN lines \ gone
      /\ \A l \in DOMAIN lines' : lines'[l] = lines[l]
  BY <1>1 DEF Keep, TypeOK, IsRows
<1>3. Live(lines) \subseteq Live(lines')
  BY <1>1, <1>2 DEF Live, Tombstones
<1>4. ASSUME NEW h \in Handler, NEW a
      PROVE  /\ InTransaction(h, a) => InTransaction(h, a)'
             /\ AboutToStore(h, a) => AboutToStore(h, a)'
             /\ Unsweepable(h, a.on) => Unsweepable(h, a.on)'
             /\ Swept(h, a) => Swept(h, a)'
  <2>1. OrderSeen(h)' = OrderSeen(h)
    BY <1>1 DEF OrderSeen
  <2>2. DOMAIN LinesSeen(h)' \subseteq DOMAIN LinesSeen(h)
    BY <1>1, <1>2 DEF LinesSeen, Overlay
  <2> QED
    BY <1>1, <1>3, <2>1, <2>2 DEF InTransaction, AboutToStore, Unsweepable, Swept
<1> QED
  BY <1>1, <1>4 DEF ReportedIsAccounted

LEMMA AccountedStep ==
  TypeOK /\ IInv /\ PlansGrow /\ ReportedIsAccounted /\ [Next]_vars => ReportedIsAccounted'
<1> SUFFICES ASSUME TypeOK, IInv, PlansGrow, ReportedIsAccounted, [Next]_vars
             PROVE  ReportedIsAccounted'
  OBVIOUS
<1>1. ASSUME NEW h \in Handler, Commit(h) \/ Abort(h) PROVE ReportedIsAccounted'
  <2>1. pc[h] # "idle" /\ applied' = [applied EXCEPT ![h] = {}] /\ ResetTx(h)
    BY <1>1 DEF Commit, Abort, ResetTx
  <2>2. \A k \in Handler : applied'[k] = {}
    BY <2>1 DEF TypeOK, IInv, TransactionsClean, ReportedIsAccounted
  <2>3. AllIdle'
    BY <2>1, ResetLeavesIdle DEF IInv
  <2> QED
    BY <2>2, <2>3 DEF AllIdle, ReportedIsAccounted
<1>2. ASSUME NEW h \in Handler, LockNoteOrder(h) PROVE ReportedIsAccounted'
  <2>1. /\ NoteOrderFree /\ pc' = [pc EXCEPT ![h] = "open"]
        /\ UNCHANGED <<born, newLines, setsOrder, applied>>
    BY <1>2 DEF LockNoteOrder, tableVars, planVars
  <2>2. \A k \in Handler : applied'[k] = {}
    BY <2>1 DEF NoteOrderFree, ReportedIsAccounted
  <2> QED
    BY <2>1, <2>2 DEF ReportedIsAccounted
<1>3. ASSUME NEW s \in Sweeper, SweepOrder(s) PROVE ReportedIsAccounted'
  <2>1. /\ \A h \in Handler : ~txDirty[h]
        /\ UNCHANGED <<lines, born, pc, txLines, txOrder, txDirty, newLines, newOrder, setsOrder,
                       applied>>
    BY <1>3 DEF SweepOrder, txVars, planVars
  <2>2. order'.vv = order.vv
    BY <1>3 DEF SweepOrder, TypeOK, OrderRow
  <2>3. \A h \in Handler : LinesSeen(h)' = LinesSeen(h) /\ OrderSeen(h)'.vv = OrderSeen(h).vv
    BY <2>1, <2>2 DEF LinesSeen, OrderSeen
  <2>4. \A h \in Handler : \A a :
           /\ InTransaction(h, a)' <=> InTransaction(h, a)
           /\ AboutToStore(h, a)' <=> AboutToStore(h, a)
           /\ Unsweepable(h, a.on)' <=> Unsweepable(h, a.on)
           /\ Swept(h, a)' <=> Swept(h, a)
    BY <2>1, <2>3 DEF InTransaction, AboutToStore, Unsweepable, Live, Swept
  <2> QED
    BY <2>1, <2>4 DEF ReportedIsAccounted
<1>4. CASE UNCHANGED <<lines, order, born, pc, txLines, txOrder, txDirty, newLines, newOrder,
                       setsOrder, applied>>
  <2>1. \A h \in Handler : LinesSeen(h)' = LinesSeen(h) /\ OrderSeen(h)' = OrderSeen(h)
    BY <1>4 DEF LinesSeen, OrderSeen
  <2>2. \A h \in Handler : \A a :
           /\ InTransaction(h, a)' <=> InTransaction(h, a)
           /\ AboutToStore(h, a)' <=> AboutToStore(h, a)
           /\ Unsweepable(h, a.on)' <=> Unsweepable(h, a.on)
           /\ Swept(h, a)' <=> Swept(h, a)
    BY <1>4, <2>1 DEF InTransaction, AboutToStore, Unsweepable, Live, Swept
  <2> QED
    BY <1>4, <2>2 DEF ReportedIsAccounted
<1>5. ASSUME NEW h \in Handler, NEW op \in Ops, RefuseOp(h, op)
      PROVE  UNCHANGED <<lines, order, born, pc, txLines, txOrder, txDirty, newLines, newOrder,
                         setsOrder, applied>>
  BY <1>5 DEF RefuseOp, tableVars, planVars
<1>6. ASSUME NEW s \in Sweeper, SweepCrash(s)
      PROVE  UNCHANGED <<lines, order, born, pc, txLines, txOrder, txDirty, newLines, newOrder,
                         setsOrder, applied>>
  BY <1>6 DEF SweepCrash, tableVars, txVars, planVars
<1>7. ASSUME UNCHANGED vars
      PROVE  UNCHANGED <<lines, order, born, pc, txLines, txOrder, txDirty, newLines, newOrder,
                         setsOrder, applied>>
  BY <1>7 DEF vars, tableVars, txVars, planVars
<1> QED
  BY <1>1, <1>2, <1>3, <1>4, <1>5, <1>6, <1>7, AccountedRead, AccountedWrite, AccountedSweep
     DEF Next

(***************************************************************************)
(* Whatever the retention sweeps of all instances do, the only op that a   *)
(* batch reports as Applied without storing it is one on a line that was a *)
(* tombstone when apply_op read it: no edit of a live line and no order of *)
(* an Insert or a Move is broadcast to the peers and missing in the tables.*)
(***************************************************************************)
THEOREM OnlyTombstoneEditsAreLost == Spec => []OnlyTombstoneEditsLost
<1> DEFINE AInv == TypeOK /\ IInv /\ WritesGrow /\ PlansGrow /\ ReportedIsAccounted
<1>1. Init => AInv
  <2>1. Init => WritesGrow /\ PlansGrow /\ ReportedIsAccounted
    BY NoRowsProperties DEF Init, WritesGrow, PlansGrow, ReportedIsAccounted
  <2> QED
    BY <2>1, TypeInit, IInvInit
<1>2. AInv /\ [Next]_vars => AInv'
  BY TypeStep, IInvStep, GrowStep, AccountedStep
<1>3. AInv => OnlyTombstoneEditsLost
  <2> SUFFICES ASSUME AInv, NEW h \in Handler, pc[h] = "open", NEW a \in applied[h]
               PROVE  Stored(h, a) \/ (~a.live /\ Swept(h, a))
    BY DEF OnlyTombstoneEditsLost
  <2>1. InTransaction(h, a) => Stored(h, a)
    <3>1. a.on \in DOMAIN txLines[h] =>
            a.on \in DOMAIN LinesSeen(h) /\ LinesSeen(h)[a.on] = txLines[h][a.on]
      BY SeenIds, SeenRow
    <3> QED
      BY <3>1 DEF InTransaction, Stored
  <2> QED
    BY <2>1 DEF ReportedIsAccounted
<1> HIDE DEF AInv
<1> QED
  BY <1>1, <1>2, <1>3, PTL DEF Spec
=============================================================================
