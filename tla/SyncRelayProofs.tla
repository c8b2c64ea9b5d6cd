-------------------------- MODULE SyncRelayProofs --------------------------
(***************************************************************************)
(* SyncRelay for every number of devices, connections, instances and       *)
(* batches: type correctness, and that no device loses a batch while no    *)
(* two append transactions of the user overlap.                            *)
(***************************************************************************)
EXTENDS SyncRelay, TLAPS, SequenceTheorems

LEMMA TypeInit == Init => TypeOK /\ PushInHand
<1> SUFFICES ASSUME Init PROVE TypeOK /\ PushInHand
  OBVIOUS
<1>1. DbTypes
  BY TopologyAssumption, LimitAssumption DEF Init, DbTypes
<1>2. HubTypes
  <2>1. << >> \in Seq(Batch \cup {Rescan}) /\ Len(<< >>) = 0
    BY EmptySeq
  <2> QED
    BY <2>1, LimitAssumption DEF Init, HubTypes
<1>3. TaskTypes
  BY LimitAssumption DEF Init, TaskTypes, Steps
<1> QED
  BY <1>1, <1>2, <1>3 DEF Init, TypeOK, PushInHand

(* The types of the variable groups a step leaves alone. *)
LEMMA TypesUnchanged ==
  ASSUME TypeOK
  PROVE  /\ UNCHANGED <<dbVars, sent>> => DbTypes'
         /\ UNCHANGED hubVars => HubTypes'
         /\ UNCHANGED <<pc, scanVars, pushVars>> => TaskTypes'
  BY DEF TypeOK, DbTypes, HubTypes, TaskTypes, dbVars, hubVars, scanVars, pushVars

(* Publishing keeps each receiver within the capacity of its channel. *)
LEMMA PublishTypes ==
  ASSUME TypeOK, NEW i \in Instance, NEW m \in Batch \cup {Rescan}, Publish(i, m)
  PROVE  /\ queue' \in [Conn -> Seq(Batch \cup {Rescan})]
         /\ \A c \in Conn : Len(queue'[c]) <= Capacity
         /\ lagged' \in [Conn -> BOOLEAN]
<1> DEFINE M == Batch \cup {Rescan}
           New(c) == IF c \notin Receivers(i) THEN queue[c]
                     ELSE IF Len(queue[c]) < Capacity THEN Append(queue[c], m)
                     ELSE Append(Tail(queue[c]), m)
<1>1. queue' = [c \in Conn |-> New(c)]
  BY DEF Publish
<1>2. ASSUME NEW c \in Conn PROVE New(c) \in Seq(M) /\ Len(New(c)) <= Capacity
  <2>1. queue[c] \in Seq(M) /\ Len(queue[c]) \in Nat /\ Len(queue[c]) <= Capacity
    BY DEF TypeOK, HubTypes
  <2>2. CASE c \notin Receivers(i)
    BY <2>1, <2>2
  <2>3. CASE c \in Receivers(i) /\ Len(queue[c]) < Capacity
    <3>1. Append(queue[c], m) \in Seq(M) /\ Len(Append(queue[c], m)) = Len(queue[c]) + 1
      BY <2>1, AppendProperties
    <3> QED
      BY <2>1, <2>3, <3>1, LimitAssumption
  <2>4. CASE c \in Receivers(i) /\ ~(Len(queue[c]) < Capacity)
    <3>1. queue[c] # << >>
      BY <2>1, <2>4, LimitAssumption
    <3>2. Tail(queue[c]) \in Seq(M) /\ Len(Tail(queue[c])) = Len(queue[c]) - 1
      BY <2>1, <3>1, HeadTailProperties
    <3>3. /\ Append(Tail(queue[c]), m) \in Seq(M)
          /\ Len(Append(Tail(queue[c]), m)) = Len(Tail(queue[c])) + 1
      BY <3>2, AppendProperties
    <3> QED
      BY <2>1, <2>4, <3>2, <3>3, LimitAssumption
  <2> QED
    BY <2>2, <2>3, <2>4
<1> HIDE DEF New, M
<1>3. queue' \in [Conn -> Seq(M)] /\ \A c \in Conn : Len(queue'[c]) <= Capacity
  BY <1>1, <1>2
<1>4. lagged' \in [Conn -> BOOLEAN]
  BY Zenon DEF Publish
<1> QED
  BY <1>3, <1>4 DEF M

(* Dropping the head of a receiver's channel. *)
LEMMA PopTypes ==
  ASSUME TypeOK, NEW c \in Conn, queue[c] # << >>, queue' = [queue EXCEPT ![c] = Tail(@)]
  PROVE  /\ queue' \in [Conn -> Seq(Batch \cup {Rescan})]
         /\ \A e \in Conn : Len(queue'[e]) <= Capacity
         /\ Head(queue[c]) \in Batch \cup {Rescan}
<1>1. queue[c] \in Seq(Batch \cup {Rescan}) /\ Len(queue[c]) \in Nat /\ Len(queue[c]) <= Capacity
  BY DEF TypeOK, HubTypes
<1>2. /\ Tail(queue[c]) \in Seq(Batch \cup {Rescan})
      /\ Len(Tail(queue[c])) = Len(queue[c]) - 1
      /\ Head(queue[c]) \in Batch \cup {Rescan}
  BY <1>1, HeadTailProperties
<1>3. Len(Tail(queue[c])) <= Capacity
  BY <1>1, <1>2, LimitAssumption
<1> QED
  BY <1>2, <1>3 DEF TypeOK, HubTypes

(* Emptying the channels of the connections in a set. *)
LEMMA ClearTypes ==
  /\ << >> \in Seq(Batch \cup {Rescan}) /\ Len(<< >>) = 0 /\ 0 <= Capacity
  BY EmptySeq, LimitAssumption

LEMMA TypeStep == TypeOK /\ PushInHand /\ [Next]_vars => TypeOK'
<1> SUFFICES ASSUME TypeOK, PushInHand, [Next]_vars PROVE TypeOK'
  OBVIOUS
<1> USE DEF Goto, EndScan
<1>1. ASSUME NEW c \in Conn, Connect(c) PROVE TypeOK'
  <2>1. HubTypes'
    BY <1>1, TopologyAssumption DEF Connect, TypeOK, HubTypes
  <2>2. TaskTypes'
    BY <1>1 DEF Connect, TypeOK, TaskTypes, Steps, scanVars, pushVars
  <2> QED
    BY <1>1, <2>1, <2>2, TypesUnchanged DEF Connect, TypeOK
<1>2. ASSUME NEW c \in Conn, ReadCursor(c) PROVE TypeOK'
  <2>1. cursor[DeviceOf[c]] \in 0 .. MaxSeq
    BY TopologyAssumption DEF TypeOK, DbTypes
  <2>2. TaskTypes'
    BY <1>2, <2>1 DEF ReadCursor, TypeOK, TaskTypes, Steps, pushVars
  <2> QED
    BY <1>2, <2>2, TypesUnchanged DEF ReadCursor, TypeOK
<1>3. ASSUME NEW c \in Conn, ScanChunk(c) PROVE TypeOK'
  <2>1. PICK r \in Later(pos[c]) :
          /\ rows' = [rows EXCEPT ![c] = ChunkUpTo(pos[c], r.seq)]
          /\ last' = [last EXCEPT ![c] = r.seq]
    BY <1>3 DEF ScanChunk
  <2>2. r \in Row /\ ChunkUpTo(pos[c], r.seq) \subseteq Row
    BY DEF Later, ChunkUpTo, TypeOK, DbTypes
  <2>3. r.seq \in 0 .. MaxSeq
    BY <2>2, LimitAssumption DEF Row
  <2>4. TaskTypes'
    BY <1>3, <2>1, <2>2, <2>3 DEF ScanChunk, TypeOK, TaskTypes, Steps, pushVars
  <2> QED
    BY <1>3, <2>4, TypesUnchanged DEF ScanChunk, TypeOK
<1>4. ASSUME NEW c \in Conn, ScanDone(c) \/ Drop(c) PROVE TypeOK'
  <2>1. TaskTypes'
    BY <1>4, LimitAssumption DEF ScanDone, Drop, TypeOK, TaskTypes, Steps, pushVars
  <2> QED
    BY <1>4, <2>1, TypesUnchanged DEF ScanDone, Drop, TypeOK
<1>5. ASSUME NEW c \in Conn, SendChunk(c) PROVE TypeOK'
  <2>1. DbTypes'
    <3> DEFINE d == DeviceOf[c]
               new == {b \in Batch : Author[b] # d /\ \E r \in rows[c] : r.batch = b}
    <3>1. sent' = [sent EXCEPT ![d] = @ \cup new] /\ UNCHANGED dbVars
      BY <1>5 DEF SendChunk
    <3>2. new \subseteq Batch /\ d \in Device
      BY TopologyAssumption
    <3> HIDE DEF new, d
    <3> QED
      BY <3>1, <3>2 DEF TypeOK, DbTypes, dbVars
  <2>2. TaskTypes'
    BY <1>5 DEF SendChunk, TypeOK, TaskTypes, Steps, scanVars, pushVars
  <2> QED
    BY <1>5, <2>1, <2>2, TypesUnchanged DEF SendChunk, TypeOK
<1>6. ASSUME NEW c \in Conn, Advance(c) PROVE TypeOK'
  <2>1. DbTypes'
    BY <1>6, TopologyAssumption DEF Advance, Greatest, TypeOK, DbTypes, TaskTypes
  <2>2. TaskTypes'
    BY <1>6, LimitAssumption DEF Advance, TypeOK, TaskTypes, Steps, pushVars
  <2> QED
    BY <1>6, <2>1, <2>2, TypesUnchanged DEF Advance, TypeOK
<1>7. ASSUME NEW c \in Conn, RecvBatch(c) PROVE TypeOK'
  <2>1. HubTypes' /\ Head(queue[c]) \in Batch
    BY <1>7, PopTypes DEF RecvBatch, TypeOK, HubTypes
  <2>2. DbTypes'
    BY <1>7, <2>1, TopologyAssumption DEF RecvBatch, TypeOK, DbTypes, dbVars
  <2> QED
    BY <1>7, <2>1, <2>2, TypesUnchanged DEF RecvBatch, TypeOK
<1>8. ASSUME NEW c \in Conn, RecvRescan(c) \/ RecvLagged(c) PROVE TypeOK'
  <2>1. HubTypes'
    <3>1. CASE RecvRescan(c)
      BY <3>1, PopTypes DEF RecvRescan, TypeOK, HubTypes
    <3>2. CASE RecvLagged(c)
      BY <3>2 DEF RecvLagged, TypeOK, HubTypes
    <3> QED
      BY <1>8, <3>1, <3>2
  <2>2. TaskTypes'
    BY <1>8 DEF RecvRescan, RecvLagged, TypeOK, TaskTypes, Steps, scanVars, pushVars
  <2> QED
    BY <1>8, <2>1, <2>2, TypesUnchanged DEF RecvRescan, RecvLagged, TypeOK
<1>9. ASSUME NEW c \in Conn, NEW b \in Batch, PushNew(c, b) PROVE TypeOK'
  <2>1. DbTypes'
    BY <1>9, LimitAssumption DEF PushNew, TypeOK, DbTypes
  <2>2. TaskTypes'
    BY <1>9, LimitAssumption DEF PushNew, TypeOK, DbTypes, TaskTypes, Steps, scanVars
  <2> QED
    BY <1>9, <2>1, <2>2, TypesUnchanged DEF PushNew, TypeOK
<1>10. ASSUME NEW c \in Conn, NEW b \in Batch, PushDuplicate(c, b) PROVE TypeOK'
  <2>1. DbTypes'
    BY <1>10, LimitAssumption DEF PushDuplicate, TypeOK, DbTypes
  <2> QED
    BY <1>10, <2>1, TypesUnchanged DEF PushDuplicate, TypeOK
<1>11. ASSUME NEW c \in Conn, CommitAppend(c) PROVE TypeOK'
  <2>1. push[c] \in Batch /\ seq[c] \in 1 .. MaxSeq
    <3>1. push[c] \in Batch /\ seq[c] \in 1 .. issued /\ issued \in 1 .. MaxSeq
      BY <1>11 DEF CommitAppend, PushInHand, TypeOK, DbTypes
    <3> QED
      BY <3>1, LimitAssumption
  <2>2. [seq |-> seq[c], batch |-> push[c]] \in Row
    BY <2>1 DEF Row
  <2>3. DbTypes'
    BY <1>11, <2>1, <2>2 DEF CommitAppend, TypeOK, DbTypes
  <2>4. TaskTypes'
    BY <1>11 DEF CommitAppend, TypeOK, TaskTypes, Steps, scanVars, pushVars
  <2> QED
    BY <1>11, <2>3, <2>4, TypesUnchanged DEF CommitAppend, TypeOK
<1>12. ASSUME NEW c \in Conn, AppendFails(c) \/ NotifyFails(c) PROVE TypeOK'
  <2>1. TaskTypes'
    BY <1>12, LimitAssumption DEF AppendFails, NotifyFails, TypeOK, TaskTypes, Steps, scanVars
  <2> QED
    BY <1>12, <2>1, TypesUnchanged DEF AppendFails, NotifyFails, TypeOK
<1>13. ASSUME NEW c \in Conn, FanOut(c) PROVE TypeOK'
  <2>1. push[c] \in Batch /\ InstanceOf[c] \in Instance
    BY <1>13, TopologyAssumption DEF FanOut, PushInHand
  <2>2. HubTypes'
    BY <1>13, <2>1, PublishTypes DEF FanOut, TypeOK, HubTypes
  <2>3. TaskTypes'
    BY <1>13 DEF FanOut, TypeOK, TaskTypes, Steps, scanVars, pushVars
  <2> QED
    BY <1>13, <2>2, <2>3, TypesUnchanged DEF FanOut, TypeOK
<1>14. ASSUME NEW c \in Conn, Notify(c) PROVE TypeOK'
  <2>1. HubTypes'
    BY <1>14 DEF Notify, TypeOK, HubTypes
  <2>2. TaskTypes'
    BY <1>14, LimitAssumption DEF Notify, TypeOK, TaskTypes, Steps, scanVars
  <2> QED
    BY <1>14, <2>1, <2>2, TypesUnchanged DEF Notify, TypeOK
<1>15. ASSUME NEW i \in Instance, ListenerWake(i) PROVE TypeOK'
  <2>1. wakes' \in [Instance -> Nat] /\ hub' \in [Instance -> BOOLEAN]
    BY <1>15 DEF ListenerWake, TypeOK, HubTypes
  <2>2. CASE hub[i]
    BY <1>15, <2>1, <2>2, PublishTypes, TypesUnchanged DEF ListenerWake, TypeOK, HubTypes
  <2>3. CASE ~hub[i]
    BY <1>15, <2>1, <2>3, TypesUnchanged DEF ListenerWake, TypeOK, HubTypes
  <2> QED
    BY <2>2, <2>3
<1>16. ASSUME NEW i \in Instance, ListenerLose(i) PROVE TypeOK'
  <2>1. HubTypes'
    BY <1>16 DEF ListenerLose, TypeOK, HubTypes
  <2> QED
    BY <1>16, <2>1, TypesUnchanged DEF ListenerLose, TypeOK
<1>17. ASSUME NEW c \in Conn, Leave(c) PROVE TypeOK'
  <2>1. hub' \in [Instance -> BOOLEAN]
    BY <1>17, Zenon DEF Leave, TypeOK, HubTypes
  <2>2. HubTypes'
    BY <1>17, <2>1, ClearTypes DEF Leave, TypeOK, HubTypes
  <2>3. TaskTypes'
    BY <1>17 DEF Leave, TypeOK, TaskTypes, Steps, scanVars, pushVars
  <2> QED
    BY <1>17, <2>2, <2>3, TypesUnchanged DEF Leave, TypeOK
<1>18. ASSUME NEW i \in Instance, Crash(i) PROVE TypeOK'
  <2>1. hub' \in [Instance -> BOOLEAN] /\ wakes' \in [Instance -> Nat]
    BY <1>18 DEF Crash, TypeOK, HubTypes
  <2>2. lagged' \in [Conn -> BOOLEAN]
    BY <1>18, Zenon DEF Crash
  <2>3. HubTypes'
    BY <1>18, <2>1, <2>2, ClearTypes DEF Crash, TypeOK, HubTypes
  <2>4. TaskTypes'
    BY <1>18, LimitAssumption DEF Crash, TypeOK, TaskTypes, Steps
  <2> QED
    BY <1>18, <2>3, <2>4, TypesUnchanged DEF Crash, TypeOK
<1>19. ASSUME NEW b \in Batch, Project(b) PROVE TypeOK'
  <2>1. DbTypes'
    BY <1>19 DEF Project, TypeOK, DbTypes
  <2> QED
    BY <1>19, <2>1, TypesUnchanged DEF Project, TypeOK
<1>20. ASSUME NEW old \in SUBSET Prunable, Prune(old) PROVE TypeOK'
  <2>1. DbTypes'
    BY <1>20 DEF Prune, TypeOK, DbTypes
  <2> QED
    BY <1>20, <2>1, TypesUnchanged DEF Prune, TypeOK
<1>21. CASE UNCHANGED vars
  BY <1>21, TypesUnchanged DEF vars, TypeOK
<1> QED
  BY <1>1, <1>2, <1>3, <1>4, <1>5, <1>6, <1>7, <1>8, <1>9, <1>10, <1>11, <1>12, <1>13, <1>14,
     <1>15, <1>16, <1>17, <1>18, <1>19, <1>20, <1>21 DEF Next, ConnStep

(* A connection that appends has a batch and a number that was drawn. *)
LEMMA PushStep == TypeOK /\ PushInHand /\ [Next]_vars => PushInHand'
<1> SUFFICES ASSUME TypeOK, PushInHand, [Next]_vars PROVE PushInHand'
  OBVIOUS
<1> USE DEF Goto, EndScan
<1>1. issued \in Nat /\ pc \in [Conn -> Steps] /\ push \in [Conn -> Batch \cup {None}]
      /\ seq \in [Conn -> 0 .. MaxSeq]
  BY LimitAssumption DEF TypeOK, DbTypes, TaskTypes
<1>2. ASSUME NEW c \in Conn, NEW b \in Batch, PushNew(c, b) PROVE PushInHand'
  BY <1>1, <1>2 DEF PushNew, PushInHand
<1>3. ASSUME NEW c \in Conn, NEW b \in Batch, PushDuplicate(c, b) PROVE PushInHand'
  BY <1>1, <1>3 DEF PushDuplicate, PushInHand, pushVars
<1>4. ASSUME NEW c \in Conn, CommitAppend(c) \/ FanOut(c) PROVE PushInHand'
  BY <1>1, <1>4 DEF CommitAppend, FanOut, PushInHand, pushVars, dbVars
<1>5. ASSUME NEW c \in Conn, AppendFails(c) \/ Notify(c) \/ NotifyFails(c) PROVE PushInHand'
  BY <1>1, <1>5 DEF AppendFails, Notify, NotifyFails, PushInHand, dbVars
<1>6. ASSUME NEW c \in Conn, Connect(c) \/ ReadCursor(c) \/ ScanChunk(c) \/ ScanDone(c) \/ Drop(c)
      PROVE PushInHand'
  BY <1>1, <1>6 DEF Connect, ReadCursor, ScanChunk, ScanDone, Drop, PushInHand, pushVars, dbVars
<1>7. ASSUME NEW c \in Conn, SendChunk(c) \/ Advance(c) \/ RecvRescan(c) \/ RecvLagged(c) \/ Leave(c)
      PROVE PushInHand'
  BY <1>1, <1>7 DEF SendChunk, Advance, RecvRescan, RecvLagged, Leave, PushInHand, pushVars, dbVars
<1>8. ASSUME NEW c \in Conn, RecvBatch(c) PROVE PushInHand'
  BY <1>8 DEF RecvBatch, PushInHand, pushVars, dbVars
<1>9. ASSUME NEW i \in Instance, ListenerWake(i) \/ ListenerLose(i) PROVE PushInHand'
  BY <1>9 DEF ListenerWake, ListenerLose, PushInHand, pushVars, dbVars
<1>10. ASSUME NEW i \in Instance, Crash(i) PROVE PushInHand'
  BY <1>10 DEF Crash, PushInHand, dbVars
<1>11. ASSUME NEW b \in Batch, Project(b) PROVE PushInHand'
  BY <1>11 DEF Project, PushInHand, pushVars
<1>12. ASSUME NEW old \in SUBSET Prunable, Prune(old) PROVE PushInHand'
  BY <1>12 DEF Prune, PushInHand, pushVars
<1>13. CASE UNCHANGED vars
  BY <1>13 DEF vars, PushInHand, pushVars, dbVars
<1> QED
  BY <1>2, <1>3, <1>4, <1>5, <1>6, <1>7, <1>8, <1>9, <1>10, <1>11, <1>12, <1>13 DEF Next, ConnStep

(* Tables, hub and tasks keep their shape, for any number of writers; no   *)
(* receiver holds more than FANOUT_CAPACITY messages.                      *)
THEOREM TypeCorrect == Spec => []TypeOK
<1>1. TypeOK /\ PushInHand /\ [Next]_vars => (TypeOK /\ PushInHand)'
  BY TypeStep, PushStep
<1> QED
  BY <1>1, TypeInit, PTL DEF Spec

-----------------------------------------------------------------------------
(* Numbers are compared as naturals. *)
LEMMA Numbers ==
  ASSUME TypeOK
  PROVE  /\ issued \in Nat
         /\ \A r \in journal : r.seq \in Nat /\ r.batch \in Batch
         /\ \A d \in Device : cursor[d] \in Nat
         /\ \A c \in Conn : pos[c] \in Nat /\ last[c] \in Nat /\ seq[c] \in Nat
         /\ \A c \in Conn : DeviceOf[c] \in Device
  BY TopologyAssumption, LimitAssumption DEF TypeOK, DbTypes, TaskTypes, Row

(* No number in a table or a task was not drawn; and what is committed or  *)
(* read stays below the number of the append under way.                    *)
LEMMA OrderStep ==
  ASSUME OneAppend, OneAppend', TypeOK, PushInHand, SeqsIssued, CommitOrder, [Next]_vars
  PROVE  SeqsIssued' /\ CommitOrder'
<1> USE DEF Goto, EndScan
<1>1. pc \in [Conn -> Steps] /\ seq \in [Conn -> 0 .. MaxSeq] /\ pos \in [Conn -> 0 .. MaxSeq]
      /\ last \in [Conn -> 0 .. MaxSeq] /\ cursor \in [Device -> 0 .. MaxSeq]
  BY DEF TypeOK, DbTypes, TaskTypes
<1>2. ASSUME NEW c \in Conn, Connect(c) \/ SendChunk(c) \/ RecvBatch(c) \/ RecvRescan(c)
             \/ RecvLagged(c) \/ FanOut(c) \/ Leave(c)
      PROVE  SeqsIssued' /\ CommitOrder'
  <2>1. UNCHANGED <<issued, journal, cursor, pos, last, seq>>
    BY <1>2 DEF Connect, SendChunk, RecvBatch, RecvRescan, RecvLagged, FanOut, Leave, dbVars,
                scanVars, pushVars
  <2>2. \A w \in Conn : pc'[w] = "append" => pc[w] = "append"
    BY <1>1, <1>2 DEF Connect, SendChunk, RecvBatch, RecvRescan, RecvLagged, FanOut, Leave
  <2> QED
    BY <2>1, <2>2 DEF SeqsIssued, CommitOrder
<1>3. ASSUME NEW c \in Conn, ReadCursor(c) PROVE SeqsIssued' /\ CommitOrder'
  BY <1>1, <1>3, Numbers DEF ReadCursor, SeqsIssued, CommitOrder, dbVars, pushVars
<1>4. ASSUME NEW c \in Conn, ScanChunk(c) PROVE SeqsIssued' /\ CommitOrder'
  <2>1. PICK r \in journal : last' = [last EXCEPT ![c] = r.seq]
    BY <1>4 DEF ScanChunk, Later
  <2> QED
    BY <1>1, <1>4, <2>1, Numbers DEF ScanChunk, SeqsIssued, CommitOrder, dbVars, pushVars
<1>5. ASSUME NEW c \in Conn, ScanDone(c) \/ Drop(c) PROVE SeqsIssued' /\ CommitOrder'
  <2>1. /\ pos' = [pos EXCEPT ![c] = 0] /\ last' = [last EXCEPT ![c] = 0]
        /\ UNCHANGED <<issued, journal, cursor, seq>>
    BY <1>5 DEF ScanDone, Drop, dbVars, pushVars
  <2>2. \A w \in Conn : pc'[w] = "append" => pc[w] = "append"
    BY <1>1, <1>5 DEF ScanDone, Drop
  <2>3. \A w \in Conn : pc[w] = "append" => 0 < seq[w]
    BY Numbers DEF PushInHand
  <2> QED
    BY <1>1, <2>1, <2>2, <2>3, Numbers DEF SeqsIssued, CommitOrder
<1>6. ASSUME NEW c \in Conn, Advance(c) PROVE SeqsIssued' /\ CommitOrder'
  <2>1. /\ cursor' = [cursor EXCEPT ![DeviceOf[c]] = Greatest(@, last[c])]
        /\ pos' = [pos EXCEPT ![c] = last[c]] /\ last' = [last EXCEPT ![c] = 0]
        /\ UNCHANGED <<issued, journal, seq>>
    BY <1>6 DEF Advance, pushVars
  <2>2. \A w \in Conn : pc'[w] = "append" => pc[w] = "append"
    BY <1>1, <1>6 DEF Advance
  <2>3. \A w \in Conn : pc[w] = "append" => 0 < seq[w]
    BY Numbers DEF PushInHand
  <2>4. \A d \in Device : cursor'[d] \in {cursor[d], last[c]}
    BY <1>1, <2>1 DEF Greatest
  <2>5. \A e \in Conn : pos'[e] \in {pos[e], last[c]} /\ last'[e] \in {last[e], 0}
    BY <1>1, <2>1
  <2> HIDE DEF Greatest
  <2> QED
    BY <2>1, <2>2, <2>3, <2>4, <2>5, Numbers DEF SeqsIssued, CommitOrder
<1>7. ASSUME NEW c \in Conn, NEW b \in Batch, PushNew(c, b) PROVE SeqsIssued' /\ CommitOrder'
  <2>1. /\ issued' = issued + 1 /\ seq' = [seq EXCEPT ![c] = issued + 1]
        /\ UNCHANGED <<journal, cursor, pos, last>>
    BY <1>7 DEF PushNew, scanVars
  <2>2. \A w \in Conn : pc'[w] = "append" => w = c
    BY <1>1, <1>7 DEF PushNew, OneAppend
  <2>3. SeqsIssued'
    BY <2>1, Numbers DEF SeqsIssued
  <2>4. seq'[c] = issued + 1
    BY <1>1, <2>1
  <2>5. CommitOrder'
    BY <2>1, <2>2, <2>4, Numbers DEF SeqsIssued, CommitOrder
  <2> QED
    BY <2>3, <2>5
<1>8. ASSUME NEW c \in Conn, NEW b \in Batch, PushDuplicate(c, b)
      PROVE  SeqsIssued' /\ CommitOrder'
  BY <1>8, Numbers DEF PushDuplicate, SeqsIssued, CommitOrder, scanVars, pushVars
<1>9. ASSUME NEW c \in Conn, CommitAppend(c) PROVE SeqsIssued' /\ CommitOrder'
  <2>1. \A w \in Conn : ~(pc'[w] = "append")
    BY <1>1, <1>9 DEF CommitAppend, OneAppend
  <2>2. /\ journal' = journal \cup {[seq |-> seq[c], batch |-> push[c]]}
        /\ UNCHANGED <<issued, cursor, pos, last>>
    BY <1>9 DEF CommitAppend, scanVars
  <2>3. seq[c] <= issued
    BY <1>9, Numbers DEF CommitAppend, PushInHand
  <2> QED
    BY <2>1, <2>2, <2>3 DEF SeqsIssued, CommitOrder
<1>10. ASSUME NEW c \in Conn, AppendFails(c) \/ Notify(c) \/ NotifyFails(c)
       PROVE  SeqsIssued' /\ CommitOrder'
  <2>1. seq' = [seq EXCEPT ![c] = 0] /\ UNCHANGED <<issued, journal, cursor, pos, last>>
    BY <1>10 DEF AppendFails, Notify, NotifyFails, dbVars, scanVars
  <2>2. \A w \in Conn : pc'[w] = "append" => pc[w] = "append" /\ w # c
    BY <1>1, <1>10 DEF AppendFails, Notify, NotifyFails
  <2> QED
    BY <1>1, <2>1, <2>2 DEF SeqsIssued, CommitOrder
<1>11. ASSUME NEW i \in Instance, ListenerWake(i) \/ ListenerLose(i)
       PROVE  SeqsIssued' /\ CommitOrder'
  BY <1>11 DEF ListenerWake, ListenerLose, SeqsIssued, CommitOrder, dbVars, scanVars, pushVars
<1>12. ASSUME NEW i \in Instance, Crash(i) PROVE SeqsIssued' /\ CommitOrder'
  <2>1. /\ UNCHANGED <<issued, journal, cursor>>
        /\ \A e \in Conn : pos'[e] \in {pos[e], 0} /\ last'[e] \in {last[e], 0}
        /\ \A w \in Conn : pc'[w] = "append" => pc[w] = "append" /\ seq'[w] = seq[w]
    BY <1>12 DEF Crash, dbVars
  <2>2. \A w \in Conn : pc[w] = "append" => 0 < seq[w]
    BY Numbers DEF PushInHand
  <2> QED
    BY <2>1, <2>2, Numbers DEF SeqsIssued, CommitOrder
<1>13. ASSUME NEW b \in Batch, Project(b) PROVE SeqsIssued' /\ CommitOrder'
  BY <1>13 DEF Project, SeqsIssued, CommitOrder, scanVars, pushVars
<1>14. ASSUME NEW old \in SUBSET Prunable, Prune(old) PROVE SeqsIssued' /\ CommitOrder'
  BY <1>14 DEF Prune, SeqsIssued, CommitOrder, scanVars, pushVars
<1>15. CASE UNCHANGED vars
  BY <1>15 DEF vars, SeqsIssued, CommitOrder, dbVars, scanVars, pushVars
<1> QED
  BY <1>2, <1>3, <1>4, <1>5, <1>6, <1>7, <1>8, <1>9, <1>10, <1>11, <1>12, <1>13, <1>14, <1>15
     DEF Next, ConnStep

(* What a scan of a synced device relies on at each of its awaits. *)
Scanning(c) ==
  LET d == DeviceOf[c]
  IN  /\ pc[c] = "scan" => Covered(d, pos[c])
      /\ pc[c] = "advance" => Covered(d, last[c])
      /\ pc[c] = "send" =>
           \A b \in stored : Author[b] # d =>
              b \in sent[d] \/ Found(b, last[c]) \/ \E r \in rows[c] : r.batch = b

LEMMA ScanCoveredIsScanning ==
  ScanCovered <=> \A c \in Conn : DeviceOf[c] \in Synced => Scanning(c)
  BY DEF ScanCovered, Scanning

(* A step that forgets nothing: rows and deliveries stay, cursors and      *)
(* history stay.  Scans that were where they are now are still covered.    *)
Keeps ==
  /\ journal \subseteq journal' /\ UNCHANGED <<cursor, stored>>
  /\ \A d \in Device : sent[d] \subseteq sent'[d]

LEMMA KeepsNeverLost ==
  ASSUME TypeOK, CursorsStay, NeverLost, Keeps
  PROVE  NeverLost' /\ CursorsStay'
<1>1. CursorsStay'
  BY DEF CursorsStay, Keeps
<1>2. NeverLost'
  BY Numbers, TopologyAssumption DEF NeverLost, Keeps, Covered, Found
<1> QED
  BY <1>1, <1>2

(* A scan whose locals the step leaves alone. *)
LEMMA KeepsScan ==
  ASSUME TypeOK, Keeps, NEW c \in Conn, Scanning(c),
         pc'[c] = pc[c] /\ pos'[c] = pos[c] /\ last'[c] = last[c] /\ rows'[c] = rows[c]
  PROVE  Scanning(c)'
<1>1. DeviceOf[c] \in Device /\ sent[DeviceOf[c]] \subseteq sent'[DeviceOf[c]]
  BY Numbers DEF Keeps
<1> QED
  BY <1>1 DEF Scanning, Keeps, Covered, Found

(* A connection that is at none of the awaits of a scan. *)
LEMMA NotScanning ==
  ASSUME NEW c \in Conn, pc'[c] \notin {"scan", "send", "advance"}
  PROVE  Scanning(c)'
  BY DEF Scanning

(* The scan's own steps: each leaves its connection covered. *)
LEMMA ReadCursorCovers ==
  ASSUME TypeOK, NeverLost, NEW c \in Conn, DeviceOf[c] \in Synced, ReadCursor(c)
  PROVE  Scanning(c)'
<1>1. pos'[c] = cursor[DeviceOf[c]] /\ pc'[c] = "scan" /\ UNCHANGED <<journal, stored, sent>>
  BY DEF ReadCursor, Goto, TypeOK, TaskTypes, dbVars
<1>2. Covered(DeviceOf[c], cursor[DeviceOf[c]])
  BY DEF NeverLost
<1> QED
  BY <1>1, <1>2 DEF Scanning, Covered, Found

LEMMA ScanChunkCovers ==
  ASSUME TypeOK, NEW c \in Conn, Scanning(c), ScanChunk(c)
  PROVE  Scanning(c)'
<1>1. PICK top \in Later(pos[c]) :
        /\ rows' = [rows EXCEPT ![c] = ChunkUpTo(pos[c], top.seq)]
        /\ last' = [last EXCEPT ![c] = top.seq]
  BY DEF ScanChunk
<1>2. /\ rows'[c] = ChunkUpTo(pos[c], top.seq) /\ last'[c] = top.seq /\ pc'[c] = "send"
      /\ UNCHANGED <<journal, stored, sent>>
  BY <1>1 DEF ScanChunk, Goto, TypeOK, TaskTypes, dbVars
<1>3. top \in journal /\ top.seq \in Nat /\ pos[c] \in Nat
  BY <1>1, Numbers DEF Later
<1>4. ASSUME NEW b \in stored, Author[b] # DeviceOf[c]
      PROVE  \/ b \in sent[DeviceOf[c]] \/ Found(b, top.seq)
             \/ \E r \in ChunkUpTo(pos[c], top.seq) : r.batch = b
  <2>1. b \in sent[DeviceOf[c]] \/ Found(b, pos[c])
    BY <1>4 DEF Scanning, ScanChunk, Covered
  <2>2. ASSUME NEW r \in journal, r.batch = b, r.seq > pos[c]
        PROVE  r \in ChunkUpTo(pos[c], top.seq) \/ r.seq > top.seq
    BY <1>3, <2>2, Numbers DEF ChunkUpTo, Later
  <2> QED
    BY <2>1, <2>2 DEF Found
<1> QED
  BY <1>2, <1>4 DEF Scanning, Found

LEMMA SendChunkCovers ==
  ASSUME TypeOK, NEW c \in Conn, Scanning(c), SendChunk(c)
  PROVE  Scanning(c)'
<1> DEFINE d == DeviceOf[c]
           new == {b \in Batch : Author[b] # d /\ \E r \in rows[c] : r.batch = b}
<1>1. /\ sent'[d] = sent[d] \cup new /\ pc'[c] = "advance"
      /\ UNCHANGED <<journal, stored, last>>
  BY Numbers DEF SendChunk, Goto, TypeOK, TaskTypes, DbTypes, dbVars, scanVars
<1>2. ASSUME NEW b \in stored, Author[b] # d
      PROVE  b \in sent[d] \cup new \/ Found(b, last[c])
  <2>1. b \in Batch
    BY DEF TypeOK, DbTypes
  <2>2. b \in sent[d] \/ Found(b, last[c]) \/ \E r \in rows[c] : r.batch = b
    BY <1>2 DEF Scanning, SendChunk
  <2> QED
    BY <1>2, <2>1, <2>2
<1> QED
  BY <1>1, <1>2 DEF Scanning, Covered, Found

(* advance_cursor moves to a position that is covered. *)
LEMMA AdvanceCovers ==
  ASSUME TypeOK, CursorsStay, NeverLost, ScanCovered, NEW c \in Conn, Advance(c)
  PROVE  NeverLost' /\ CursorsStay' /\ ScanCovered'
<1>1. /\ cursor' = [cursor EXCEPT ![DeviceOf[c]] = Greatest(@, last[c])]
      /\ UNCHANGED <<journal, stored, sent>>
  BY DEF Advance
<1>2. /\ pc[c] = "advance" /\ pc'[c] = "scan" /\ pos'[c] = last[c]
      /\ \A e \in Conn : e # c => /\ pc'[e] = pc[e] /\ pos'[e] = pos[e]
                                   /\ last'[e] = last[e] /\ rows'[e] = rows[e]
  BY DEF Advance, Goto, TypeOK, TaskTypes
<1>3. DeviceOf[c] \in Synced => Covered(DeviceOf[c], last[c])
  BY <1>2 DEF ScanCovered
<1>4. \A d \in Device : cursor'[d] = IF d = DeviceOf[c] THEN Greatest(cursor[d], last[c]) ELSE cursor[d]
  BY <1>1 DEF TypeOK, DbTypes
<1>5. NeverLost'
  <2> SUFFICES ASSUME NEW d \in Synced PROVE Covered(d, cursor[d])'
    BY DEF NeverLost
  <2>1. d \in Device /\ Covered(d, cursor[d])
    BY TopologyAssumption DEF NeverLost
  <2>2. cursor'[d] = cursor[d] \/ (d = DeviceOf[c] /\ cursor'[d] = last[c])
    BY <1>4, <2>1 DEF Greatest
  <2>3. CASE cursor'[d] = cursor[d]
    BY <1>1, <2>1, <2>3 DEF Covered, Found
  <2>4. CASE d = DeviceOf[c] /\ cursor'[d] = last[c]
    BY <1>1, <1>3, <2>4 DEF Covered, Found
  <2> QED
    BY <2>2, <2>3, <2>4
<1>6. CursorsStay'
  BY <1>4, Numbers, TopologyAssumption DEF CursorsStay, Greatest
<1>7. ScanCovered'
  <2> SUFFICES ASSUME NEW e \in Conn, DeviceOf[e] \in Synced PROVE Scanning(e)'
    BY DEF ScanCovered, Scanning
  <2>1. CASE e = c
    BY <1>1, <1>2, <1>3, <2>1 DEF Scanning, Covered, Found
  <2>2. CASE e # c
    <3>1. Scanning(e)
      BY ScanCoveredIsScanning
    <3> QED
      BY <1>1, <1>2, <2>2, <3>1 DEF Scanning, Covered, Found
  <2> QED
    BY <2>1, <2>2
<1> QED
  BY <1>5, <1>6, <1>7

(* The row a commit adds is ahead of every cursor and every scan. *)
LEMMA CommitCovers ==
  ASSUME TypeOK, PushInHand, CommitOrder, CursorsStay, NeverLost, ScanCovered,
         NEW c \in Conn, CommitAppend(c)
  PROVE  NeverLost' /\ CursorsStay' /\ ScanCovered'
<1> DEFINE new == [seq |-> seq[c], batch |-> push[c]]
<1>1. /\ pc[c] = "append" /\ journal' = journal \cup {new} /\ stored' = stored \cup {push[c]}
      /\ UNCHANGED <<cursor, sent, pos, last, rows>>
  BY DEF CommitAppend, scanVars
<1>2. pc' = [pc EXCEPT ![c] = "fanout"]
  BY DEF CommitAppend, Goto
<1>3. /\ \A d \in Device : new.seq > cursor[d]
      /\ \A e \in Conn : new.seq > last[e] /\ new.seq > pos[e]
  BY <1>1, Numbers DEF CommitOrder
<1>4. new.batch = push[c]
  OBVIOUS
<1> HIDE DEF new
<1>5. ASSUME NEW d, NEW p, new.seq > p, Covered(d, p)
      PROVE  \A b \in stored' : Author[b] # d =>
                b \in sent[d] \/ \E r \in journal' : r.batch = b /\ r.seq > p
  BY <1>1, <1>4, <1>5 DEF Covered, Found
<1>6. NeverLost'
  <2> SUFFICES ASSUME NEW d \in Synced PROVE Covered(d, cursor[d])'
    BY DEF NeverLost
  <2>1. Covered(d, cursor[d]) /\ new.seq > cursor[d]
    BY <1>3, TopologyAssumption DEF NeverLost
  <2> QED
    BY <1>1, <1>5, <2>1 DEF Covered, Found
<1>7. CursorsStay'
  BY <1>1 DEF CursorsStay
<1>8. ScanCovered'
  <2> SUFFICES ASSUME NEW e \in Conn, DeviceOf[e] \in Synced PROVE Scanning(e)'
    BY DEF ScanCovered, Scanning
  <2>1. Scanning(e)
    BY ScanCoveredIsScanning
  <2>2. pc'[e] = pc[e] \/ pc'[e] = "fanout"
    BY <1>2 DEF TypeOK, TaskTypes
  <2>3. CASE pc'[e] = "scan"
    <3>1. Covered(DeviceOf[e], pos[e])
      BY <2>1, <2>2, <2>3 DEF Scanning
    <3>2. \A b \in stored' : Author[b] # DeviceOf[e] =>
             \/ b \in sent[DeviceOf[e]]
             \/ \E r \in journal' : r.batch = b /\ r.seq > pos[e]
      BY <1>3, <1>5, <3>1
    <3> QED
      BY <1>1, <2>3, <3>2 DEF Scanning, Covered, Found
  <2>4. CASE pc'[e] = "advance"
    <3>1. Covered(DeviceOf[e], last[e])
      BY <2>1, <2>2, <2>4 DEF Scanning
    <3>2. \A b \in stored' : Author[b] # DeviceOf[e] =>
             \/ b \in sent[DeviceOf[e]]
             \/ \E r \in journal' : r.batch = b /\ r.seq > last[e]
      BY <1>3, <1>5, <3>1
    <3> QED
      BY <1>1, <2>4, <3>2 DEF Scanning, Covered, Found
  <2>5. CASE pc'[e] = "send"
    <3>1. \A b \in stored : Author[b] # DeviceOf[e] =>
             \/ b \in sent[DeviceOf[e]] \/ Found(b, last[e])
             \/ \E r \in rows[e] : r.batch = b
      BY <2>1, <2>2, <2>5 DEF Scanning
    <3> QED
      BY <1>1, <1>3, <1>4, <2>5, <3>1 DEF Scanning, Found
  <2> QED
    BY <2>3, <2>4, <2>5, NotScanning
<1> QED
  BY <1>6, <1>7, <1>8

(* A pruned row is behind every synced cursor, hence no scan needs it.     *)
LEMMA PruneCovers ==
  ASSUME TypeOK, CursorsStay, NeverLost, ScanCovered, NEW old \in SUBSET Prunable, Prune(old)
  PROVE  NeverLost' /\ CursorsStay' /\ ScanCovered'
<1>1. /\ journal' = journal \ old
      /\ UNCHANGED <<cursor, stored, sent, pc, pos, last, rows>>
  BY DEF Prune, scanVars
<1>2. ASSUME NEW d \in Synced, NEW r \in journal, r.seq > cursor[d] PROVE r \in journal'
  <2>1. d \in Device /\ cursor[d] > 0
    BY TopologyAssumption DEF CursorsStay
  <2>2. r \in Prunable => r.seq <= cursor[d]
    BY <2>1 DEF Prunable, Passed
  <2> QED
    BY <1>1, <1>2, <2>1, <2>2, Numbers
<1>3. ASSUME NEW d \in Synced, NEW b \in stored, NEW p \in Nat, Author[b] # d, Found(b, p)
      PROVE  b \in sent[d] \/ \E r \in journal' : r.batch = b /\ r.seq > p
  <2>1. PICK r \in journal : r.batch = b /\ r.seq > p
    BY <1>3 DEF Found
  <2>2. CASE r.seq > cursor[d]
    BY <1>2, <2>1, <2>2
  <2>3. CASE ~(r.seq > cursor[d])
    <3>1. b \in sent[d] \/ Found(b, cursor[d])
      BY <1>3 DEF NeverLost, Covered
    <3>2. CASE Found(b, cursor[d])
      <4>1. PICK s \in journal : s.batch = b /\ s.seq > cursor[d]
        BY <3>2 DEF Found
      <4>2. d \in Device
        BY TopologyAssumption
      <4>3. s \in journal' /\ s.seq > p
        BY <1>2, <2>1, <2>3, <4>1, <4>2, Numbers
      <4> QED
        BY <4>1, <4>3
    <3> QED
      BY <3>1, <3>2
  <2> QED
    BY <2>2, <2>3
<1>4. ASSUME NEW d \in Synced, NEW p \in Nat, Covered(d, p)
      PROVE  \A b \in stored : Author[b] # d =>
                b \in sent[d] \/ \E r \in journal' : r.batch = b /\ r.seq > p
  BY <1>3, <1>4 DEF Covered
<1>5. NeverLost'
  <2> SUFFICES ASSUME NEW d \in Synced PROVE Covered(d, cursor[d])'
    BY DEF NeverLost
  <2>1. cursor[d] \in Nat /\ Covered(d, cursor[d])
    BY Numbers, TopologyAssumption DEF NeverLost
  <2> QED
    BY <1>1, <1>4, <2>1 DEF Covered, Found
<1>6. CursorsStay'
  BY <1>1 DEF CursorsStay
<1>7. ScanCovered'
  <2> SUFFICES ASSUME NEW e \in Conn, DeviceOf[e] \in Synced PROVE Scanning(e)'
    BY DEF ScanCovered, Scanning
  <2>1. Scanning(e) /\ pos[e] \in Nat /\ last[e] \in Nat
    BY ScanCoveredIsScanning, Numbers
  <2>2. CASE pc[e] = "scan"
    BY <1>1, <1>4, <2>1, <2>2 DEF Scanning, Covered, Found
  <2>3. CASE pc[e] = "advance"
    BY <1>1, <1>4, <2>1, <2>3 DEF Scanning, Covered, Found
  <2>4. CASE pc[e] = "send"
    <3>1. ASSUME NEW b \in stored, Author[b] # DeviceOf[e]
          PROVE  \/ b \in sent[DeviceOf[e]]
                 \/ \E r \in journal' : r.batch = b /\ r.seq > last[e]
                 \/ \E r \in rows[e] : r.batch = b
      BY <1>3, <2>1, <2>4, <3>1 DEF Scanning
    <3> QED
      BY <1>1, <2>4, <3>1 DEF Scanning, Found
  <2> QED
    BY <1>1, <2>2, <2>3, <2>4, NotScanning
<1> QED
  BY <1>5, <1>6, <1>7

(* Nothing is lost after the step, and no scan will lose it. *)
Good == NeverLost' /\ CursorsStay' /\ ScanCovered'

(* Every other step keeps what is stored and moves at most its own scan.   *)
LEMMA CoverStep ==
  ASSUME TypeOK, PushInHand, CommitOrder, CursorsStay, NeverLost, ScanCovered, [Next]_vars
  PROVE  Good
<1> DEFINE Same(e) == pc'[e] = pc[e] /\ pos'[e] = pos[e] /\ last'[e] = last[e] /\ rows'[e] = rows[e]
           Local(c) == \A e \in Conn : e # c => Same(e)
<1>1. ASSUME Keeps, \A e \in Conn : DeviceOf[e] \in Synced => Same(e) \/ Scanning(e)'
      PROVE  Good
  <2>1. NeverLost' /\ CursorsStay'
    BY <1>1, KeepsNeverLost
  <2>2. ASSUME NEW e \in Conn, DeviceOf[e] \in Synced PROVE Scanning(e)'
    <3>1. Scanning(e)
      BY <2>2, ScanCoveredIsScanning
    <3> QED
      BY <1>1, <2>2, <3>1, KeepsScan
  <2>3. ScanCovered'
    BY <2>2 DEF ScanCovered, Scanning
  <2> QED
    BY <2>1, <2>3 DEF Good
<1>2. ASSUME NEW c \in Conn, Keeps, Local(c), DeviceOf[c] \in Synced => Same(c) \/ Scanning(c)'
      PROVE  Good
  BY <1>1, <1>2
<1> USE DEF Goto, EndScan, dbVars, scanVars
<1>3. pc \in [Conn -> Steps] /\ pos \in [Conn -> 0 .. MaxSeq] /\ last \in [Conn -> 0 .. MaxSeq]
      /\ rows \in [Conn -> SUBSET Row] /\ sent \in [Device -> SUBSET Batch]
  BY DEF TypeOK, DbTypes, TaskTypes
<1>4. ASSUME NEW c \in Conn, ReadCursor(c) PROVE Good
  <2>1. Keeps /\ Local(c)
    BY <1>3, <1>4 DEF ReadCursor, Keeps
  <2> QED
    BY <1>2, <1>4, <2>1, ReadCursorCovers
<1>5. ASSUME NEW c \in Conn, ScanChunk(c) PROVE Good
  <2>1. Keeps
    BY <1>5 DEF ScanChunk, Keeps
  <2>2. Local(c)
    BY <1>3, <1>5 DEF ScanChunk
  <2>3. DeviceOf[c] \in Synced => Scanning(c)'
    BY <1>5, ScanChunkCovers, ScanCoveredIsScanning
  <2> QED
    BY <1>2, <2>1, <2>2, <2>3
<1>6. ASSUME NEW c \in Conn, SendChunk(c) PROVE Good
  <2>1. Keeps /\ Local(c)
    BY <1>3, <1>6 DEF SendChunk, Keeps
  <2>2. DeviceOf[c] \in Synced => Scanning(c)'
    BY <1>6, SendChunkCovers, ScanCoveredIsScanning
  <2> QED
    BY <1>2, <2>1, <2>2
<1>7. ASSUME NEW c \in Conn, Advance(c) PROVE Good
  BY <1>7, AdvanceCovers DEF Good
<1>8. ASSUME NEW c \in Conn, CommitAppend(c) PROVE Good
  BY <1>8, CommitCovers DEF Good
<1>9. ASSUME NEW old \in SUBSET Prunable, Prune(old) PROVE Good
  BY <1>9, PruneCovers DEF Good
<1>10. ASSUME NEW c \in Conn, Connect(c) \/ ScanDone(c) \/ Drop(c) \/ RecvRescan(c) \/ RecvLagged(c)
              \/ AppendFails(c) \/ FanOut(c) \/ Notify(c) \/ NotifyFails(c) \/ Leave(c)
       PROVE  Good
  <2>1. Keeps
    BY <1>10 DEF Keeps, Connect, ScanDone, Drop, RecvRescan, RecvLagged, AppendFails, FanOut,
                 Notify, NotifyFails, Leave
  <2>2. Local(c)
    BY <1>3, <1>10 DEF Connect, ScanDone, Drop, RecvRescan, RecvLagged, AppendFails, FanOut,
                       Notify, NotifyFails, Leave
  <2>3. pc'[c] \notin {"scan", "send", "advance"}
    BY <1>3, <1>10 DEF Connect, ScanDone, Drop, RecvRescan, RecvLagged, AppendFails, FanOut,
                       Notify, NotifyFails, Leave
  <2> QED
    BY <1>2, <2>1, <2>2, <2>3, NotScanning
<1>11. ASSUME NEW c \in Conn, RecvBatch(c) PROVE Good
  <2>1. Keeps
    BY <1>3, <1>11, Numbers DEF Keeps, RecvBatch
  <2> QED
    BY <1>1, <1>11, <2>1 DEF RecvBatch
<1>12. ASSUME NEW c \in Conn, NEW b \in Batch, PushNew(c, b) \/ PushDuplicate(c, b) PROVE Good
  <2>1. Keeps /\ Local(c)
    BY <1>3, <1>12 DEF Keeps, PushNew, PushDuplicate
  <2>2. pc'[c] \notin {"scan", "send", "advance"}
    BY <1>3, <1>12 DEF PushNew, PushDuplicate
  <2> QED
    BY <1>2, <2>1, <2>2, NotScanning
<1>13. ASSUME NEW i \in Instance, ListenerWake(i) \/ ListenerLose(i) PROVE Good
  BY <1>1, <1>13 DEF Keeps, ListenerWake, ListenerLose
<1>14. ASSUME NEW i \in Instance, Crash(i) PROVE Good
  <2>1. Keeps
    BY <1>14 DEF Keeps, Crash
  <2>2. \A e \in Conn : Same(e) \/ pc'[e] \notin {"scan", "send", "advance"}
    BY <1>14 DEF Crash
  <2> QED
    BY <1>1, <2>1, <2>2, NotScanning
<1>15. ASSUME NEW b \in Batch, Project(b) PROVE Good
  BY <1>1, <1>15 DEF Keeps, Project
<1>16. CASE UNCHANGED vars
  BY <1>1, <1>16 DEF Keeps, vars
<1> QED
  BY <1>4, <1>5, <1>6, <1>7, <1>8, <1>9, <1>10, <1>11, <1>12, <1>13, <1>14, <1>15, <1>16
     DEF Next, ConnStep

LEMMA IInvInit == Init => IInv
<1> SUFFICES ASSUME Init PROVE IInv
  OBVIOUS
<1>1. PushInHand
  BY TypeInit
<1>2. CommitOrder /\ SeqsIssued
  BY DEF Init, CommitOrder, SeqsIssued
<1>3. CursorsStay /\ ScanCovered /\ NeverLost
  BY TopologyAssumption DEF Init, CursorsStay, ScanCovered, NeverLost, Covered
<1> QED
  BY <1>1, <1>2, <1>3 DEF IInv

(***************************************************************************)
(* "duplicate delivery, never loss" for every user, any number of devices  *)
(* that push included, whatever drops, crashes, overruns, lost             *)
(* notifications, retries and prunes happen, as long as no two of the      *)
(* user's append transactions overlap: a committed batch was sent to each  *)
(* other device with a cursor, or the next scan of that device finds it.   *)
(***************************************************************************)
THEOREM NothingIsLost == Spec /\ []OneAppend => []NeverLost
<1>1. TypeOK /\ IInv /\ OneAppend /\ OneAppend' /\ [Next]_vars => (TypeOK /\ IInv)'
  BY TypeStep, PushStep, OrderStep, CoverStep DEF IInv, Good
<1>2. IInv => NeverLost
  BY DEF IInv
<1> QED
  BY <1>1, <1>2, TypeInit, IInvInit, PTL DEF Spec
=============================================================================
