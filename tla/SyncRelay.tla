----------------------------- MODULE SyncRelay -----------------------------
(***************************************************************************)
(* The sync relay of one user: devices push batches of changes, the server *)
(* journals each batch and delivers it to the user's other devices - live  *)
(* through the SyncHub of the instance, by a journal scan otherwise        *)
(* (sync.rs, bus.rs, and the journal and cursor operations of store.rs).   *)
(*                                                                         *)
(* A connection is one run_connection task; pc is the await it is at.  A   *)
(* device may have several: an old socket lingers while it reconnects.     *)
(* The sequence number of a row is drawn by INSERT (BIGSERIAL), the row is *)
(* visible from COMMIT on.                                                 *)
(*                                                                         *)
(* Abstracted: a batch is one change, hence one row; payloads; the auth    *)
(* handshake; pings; what a projection job does (it only pins its row).    *)
(* "Sent" means handed to a socket that accepted it, as in the code.       *)
(***************************************************************************)
EXTENDS Integers, Sequences, FiniteSets

CONSTANTS
  Instance,      \* server processes
  Device,        \* the user's devices
  Conn,          \* connection slots
  DeviceOf,      \* the device behind a connection
  InstanceOf,    \* the process that serves it
  Batch,         \* batch ids
  Author,        \* the device that pushes a batch
  Writers,       \* connections that push
  Synced,        \* devices that have a cursor row from an earlier connection
  Failing,       \* instances that may crash or lose a NOTIFY
  Rescan,        \* FanoutMsg::Rescan
  None,          \* "no batch"
  ChunkSize,     \* CHUNK_SIZE
  Capacity,      \* FANOUT_CAPACITY
  MaxSeq         \* bound: sequence numbers drawn

ASSUME TopologyAssumption ==
  /\ DeviceOf \in [Conn -> Device] /\ InstanceOf \in [Conn -> Instance]
  /\ Author \in [Batch -> Device]
  /\ Writers \subseteq Conn /\ Synced \subseteq Device /\ Failing \subseteq Instance
  /\ Rescan \notin Batch /\ None \notin Batch /\ Rescan # None
ASSUME LimitAssumption ==
  ChunkSize \in Nat \ {0} /\ Capacity \in Nat \ {0} /\ MaxSeq \in Nat \ {0}

VARIABLES
  issued,      \* the last sequence number drawn
  journal,     \* committed rows of `changes`
  jobs,        \* batches with a row in `projection_jobs`
  cursor,      \* device_cursors.last_seq; 0 when there is no row
  hub,         \* per instance: SyncHub.channels has an entry for the user
  queue,       \* per connection: what its broadcast receiver still holds
  lagged,      \* per connection: the receiver was overrun
  wakes,       \* per instance: NOTIFYs not yet received
  pc,          \* per connection: the await it is at
  pos,         \* deliver_backlog: the local `cursor`
  rows,        \* deliver_backlog: the chunk read
  last,        \* deliver_backlog: `last_seq` of that chunk
  push,        \* handle_incoming: the batch in hand
  seq,         \* append_changes: its sequence number
  sent,        \* history: batches handed to a socket of the device
  stored       \* history: batches ever committed

dbVars == <<issued, journal, jobs, cursor, stored>>
hubVars == <<hub, queue, lagged, wakes>>
scanVars == <<pos, rows, last>>
pushVars == <<push, seq>>
vars == <<dbVars, hubVars, pc, scanVars, pushVars, sent>>

Steps == {"off", "cursor", "scan", "send", "advance", "relay", "append", "fanout",
          "notify", "leaving"}
Row == [seq : 1 .. MaxSeq, batch : Batch]
Greatest(m, n) == IF m >= n THEN m ELSE n

(* One earlier row, delivered to every device that was there, and pruned. *)
Init ==
  /\ issued = 1
  /\ journal = {} /\ jobs = {} /\ stored = {}
  /\ cursor = [d \in Device |-> IF d \in Synced THEN 1 ELSE 0]
  /\ hub = [i \in Instance |-> FALSE]
  /\ queue = [c \in Conn |-> << >>]
  /\ lagged = [c \in Conn |-> FALSE]
  /\ wakes = [i \in Instance |-> 0]
  /\ pc = [c \in Conn |-> "off"]
  /\ pos = [c \in Conn |-> 0]
  /\ rows = [c \in Conn |-> {}]
  /\ last = [c \in Conn |-> 0]
  /\ push = [c \in Conn |-> None]
  /\ seq = [c \in Conn |-> 0]
  /\ sent = [d \in Device |-> {}]

Goto(c, step) == pc' = [pc EXCEPT ![c] = step]

(* The live broadcast receivers of the user's channel on an instance. *)
Receivers(i) == {c \in Conn : InstanceOf[c] = i /\ pc[c] # "off"}

(* Mutant: an unbounded channel. *)
PublishUnbounded(i, m) ==
  /\ queue' = [c \in Conn |-> IF c \in Receivers(i) THEN Append(queue[c], m) ELSE queue[c]]
  /\ UNCHANGED lagged

(***************************************************************************)
(* broadcast::Sender::send: every receiver gets the message; one that      *)
(* holds Capacity messages loses its oldest and will be told it lagged.    *)
(***************************************************************************)
Publish(i, m) ==
  /\ queue' = [c \in Conn |-> IF c \notin Receivers(i) THEN queue[c]
                              ELSE IF Len(queue[c]) < Capacity THEN Append(queue[c], m)
                              ELSE Append(Tail(queue[c]), m)]
  /\ lagged' = [c \in Conn |-> lagged[c] \/ (c \in Receivers(i) /\ Len(queue[c]) >= Capacity)]

-----------------------------------------------------------------------------
(* After the handshake: SyncHub::join, before the backlog is read. *)
Connect(c) ==
  /\ pc[c] = "off"
  /\ hub' = [hub EXCEPT ![InstanceOf[c]] = TRUE]
  /\ Goto(c, "cursor")
  /\ UNCHANGED <<dbVars, queue, lagged, wakes, scanVars, pushVars, sent>>

(* deliver_backlog: get_cursor. *)
ReadCursor(c) ==
  /\ pc[c] = "cursor"
  /\ pos' = [pos EXCEPT ![c] = cursor[DeviceOf[c]]]
  /\ Goto(c, "scan")
  /\ UNCHANGED <<dbVars, hubVars, rows, last, pushVars, sent>>

(* deliver_backlog returns: its locals go. *)
EndScan(c) ==
  /\ pos' = [pos EXCEPT ![c] = 0]
  /\ rows' = [rows EXCEPT ![c] = {}]
  /\ last' = [last EXCEPT ![c] = 0]

(* changes_after: the first ChunkSize rows after `pos`, up to `top`. *)
Later(p) == {r \in journal : r.seq > p}
ChunkUpTo(p, top) == {r \in Later(p) : r.seq <= top}

(* Mutant: the cursor is advanced before the chunk is sent. *)
ScanAdvancing(c) ==
  /\ pc[c] = "scan"
  /\ \E r \in Later(pos[c]) :
       /\ Cardinality(ChunkUpTo(pos[c], r.seq)) <= ChunkSize
       /\ \/ Cardinality(ChunkUpTo(pos[c], r.seq)) = ChunkSize
          \/ ChunkUpTo(pos[c], r.seq) = Later(pos[c])
       /\ rows' = [rows EXCEPT ![c] = ChunkUpTo(pos[c], r.seq)]
       /\ last' = [last EXCEPT ![c] = r.seq]
       /\ cursor' = [cursor EXCEPT ![DeviceOf[c]] = Greatest(@, r.seq)]
  /\ Goto(c, "send")
  /\ UNCHANGED <<issued, journal, jobs, stored, hubVars, pos, pushVars, sent>>

ScanChunk(c) ==
  /\ pc[c] = "scan"
  /\ \E r \in Later(pos[c]) :
       /\ Cardinality(ChunkUpTo(pos[c], r.seq)) <= ChunkSize
       /\ \/ Cardinality(ChunkUpTo(pos[c], r.seq)) = ChunkSize
          \/ ChunkUpTo(pos[c], r.seq) = Later(pos[c])
       /\ rows' = [rows EXCEPT ![c] = ChunkUpTo(pos[c], r.seq)]
       /\ last' = [last EXCEPT ![c] = r.seq]
  /\ Goto(c, "send")
  /\ UNCHANGED <<dbVars, hubVars, pos, pushVars, sent>>

ScanDone(c) ==
  /\ pc[c] = "scan" /\ Later(pos[c]) = {}
  /\ EndScan(c)
  /\ Goto(c, "relay")
  /\ UNCHANGED <<dbVars, hubVars, pushVars, sent>>

(* The frame of the chunk, without the device's own changes. *)
SendChunk(c) ==
  LET d == DeviceOf[c]
  IN  /\ pc[c] = "send"
      /\ sent' = [sent EXCEPT ![d] = @ \cup {b \in Batch : /\ Author[b] # d
                                                           /\ \E r \in rows[c] : r.batch = b}]
      /\ Goto(c, "advance")
      /\ UNCHANGED <<dbVars, hubVars, scanVars, pushVars>>

(* advance_cursor, and on to the next chunk. *)
Advance(c) ==
  /\ pc[c] = "advance"
  /\ cursor' = [cursor EXCEPT ![DeviceOf[c]] = Greatest(@, last[c])]
  /\ pos' = [pos EXCEPT ![c] = last[c]]
  /\ rows' = [rows EXCEPT ![c] = {}]
  /\ last' = [last EXCEPT ![c] = 0]
  /\ Goto(c, "scan")
  /\ UNCHANGED <<issued, journal, jobs, stored, hubVars, pushVars, sent>>

-----------------------------------------------------------------------------
(* relay_loop, rx.recv(): a live batch is forwarded, never echoed. *)
RecvBatch(c) ==
  LET d == DeviceOf[c]
      b == Head(queue[c])
  IN  /\ pc[c] = "relay" /\ ~lagged[c] /\ queue[c] # << >> /\ b # Rescan
      /\ queue' = [queue EXCEPT ![c] = Tail(@)]
      /\ sent' = IF Author[b] = d THEN sent ELSE [sent EXCEPT ![d] = @ \cup {b}]
      /\ UNCHANGED <<dbVars, hub, lagged, wakes, pc, scanVars, pushVars>>

(* Mutant: Rescan is skipped like an echo. *)
RecvRescanSkipped(c) ==
  /\ pc[c] = "relay" /\ ~lagged[c] /\ queue[c] # << >> /\ Head(queue[c]) = Rescan
  /\ queue' = [queue EXCEPT ![c] = Tail(@)]
  /\ UNCHANGED <<dbVars, hub, lagged, wakes, pc, scanVars, pushVars, sent>>

RecvRescan(c) ==
  /\ pc[c] = "relay" /\ ~lagged[c] /\ queue[c] # << >> /\ Head(queue[c]) = Rescan
  /\ queue' = [queue EXCEPT ![c] = Tail(@)]
  /\ Goto(c, "cursor")
  /\ UNCHANGED <<dbVars, hub, lagged, wakes, scanVars, pushVars, sent>>

(* Mutant: RecvError::Lagged is logged and nothing more. *)
RecvLaggedIgnored(c) ==
  /\ pc[c] = "relay" /\ lagged[c]
  /\ lagged' = [lagged EXCEPT ![c] = FALSE]
  /\ UNCHANGED <<dbVars, hub, queue, wakes, pc, scanVars, pushVars, sent>>

(* RecvError::Lagged: fall back to the journal. *)
RecvLagged(c) ==
  /\ pc[c] = "relay" /\ lagged[c]
  /\ lagged' = [lagged EXCEPT ![c] = FALSE]
  /\ Goto(c, "cursor")
  /\ UNCHANGED <<dbVars, hub, queue, wakes, scanVars, pushVars, sent>>

-----------------------------------------------------------------------------
Journaled(b) == \E r \in journal : r.batch = b
InFlight(b) == \E c \in Conn : pc[c] = "append" /\ push[c] = b

(***************************************************************************)
(* handle_incoming, append_changes: INSERT ... ON CONFLICT DO NOTHING.  An *)
(* insert of a key another transaction holds waits for its outcome.        *)
(***************************************************************************)
PushNew(c, b) ==
  /\ pc[c] = "relay" /\ c \in Writers /\ Author[b] = DeviceOf[c]
  /\ ~Journaled(b) /\ ~InFlight(b) /\ issued < MaxSeq
  /\ issued' = issued + 1
  /\ seq' = [seq EXCEPT ![c] = issued + 1]
  /\ push' = [push EXCEPT ![c] = b]
  /\ Goto(c, "append")
  /\ UNCHANGED <<journal, jobs, cursor, stored, hubVars, scanVars, sent>>

(* A retry of a journaled batch: only the sequence moves. *)
PushDuplicate(c, b) ==
  /\ pc[c] = "relay" /\ c \in Writers /\ Author[b] = DeviceOf[c]
  /\ Journaled(b) /\ issued < MaxSeq
  /\ issued' = issued + 1
  /\ UNCHANGED <<journal, jobs, cursor, stored, hubVars, pc, scanVars, pushVars, sent>>

(* COMMIT: the row and its projection job appear together. *)
CommitAppend(c) ==
  /\ pc[c] = "append"
  /\ journal' = journal \cup {[seq |-> seq[c], batch |-> push[c]]}
  /\ jobs' = jobs \cup {push[c]}
  /\ stored' = stored \cup {push[c]}
  /\ Goto(c, "fanout")
  /\ UNCHANGED <<issued, cursor, hubVars, scanVars, pushVars, sent>>

(* A statement or COMMIT fails: rolled back, the connection ends. *)
AppendFails(c) ==
  /\ pc[c] = "append"
  /\ push' = [push EXCEPT ![c] = None] /\ seq' = [seq EXCEPT ![c] = 0]
  /\ Goto(c, "leaving")
  /\ UNCHANGED <<dbVars, hubVars, scanVars, sent>>

FanOut(c) ==
  /\ pc[c] = "fanout"
  /\ Publish(InstanceOf[c], push[c])
  /\ Goto(c, "notify")
  /\ UNCHANGED <<dbVars, hub, wakes, scanVars, pushVars, sent>>

(* NOTIFY sync_batch; an instance ignores its own. *)
Notify(c) ==
  /\ pc[c] = "notify"
  /\ wakes' = [i \in Instance |-> IF i = InstanceOf[c] THEN wakes[i] ELSE wakes[i] + 1]
  /\ push' = [push EXCEPT ![c] = None] /\ seq' = [seq EXCEPT ![c] = 0]
  /\ Goto(c, "relay")
  /\ UNCHANGED <<dbVars, hub, queue, lagged, scanVars, sent>>

(* `let _ = notify(...)`: a failure is ignored. *)
NotifyFails(c) ==
  /\ pc[c] = "notify" /\ InstanceOf[c] \in Failing
  /\ push' = [push EXCEPT ![c] = None] /\ seq' = [seq EXCEPT ![c] = 0]
  /\ Goto(c, "relay")
  /\ UNCHANGED <<dbVars, hubVars, scanVars, sent>>

(* handle_sync_batch, SyncHub::wake_user. *)
ListenerWake(i) ==
  /\ wakes[i] > 0
  /\ wakes' = [wakes EXCEPT ![i] = @ - 1]
  /\ IF hub[i] THEN Publish(i, Rescan) ELSE UNCHANGED <<queue, lagged>>
  /\ UNCHANGED <<dbVars, hub, pc, scanVars, pushVars, sent>>

(* The LISTEN connection breaks. *)
ListenerLose(i) ==
  /\ i \in Failing /\ wakes[i] > 0
  /\ wakes' = [wakes EXCEPT ![i] = 0]
  /\ UNCHANGED <<dbVars, hub, queue, lagged, pc, scanVars, pushVars, sent>>

-----------------------------------------------------------------------------
(* The socket closes or fails, or a query does: the loop returns. *)
Drop(c) ==
  /\ pc[c] \in {"cursor", "scan", "send", "advance", "relay"}
  /\ EndScan(c)
  /\ Goto(c, "leaving")
  /\ UNCHANGED <<dbVars, hubVars, pushVars, sent>>

(***************************************************************************)
(* SyncHub::leave, then the return that drops `rx`: the receiver count it  *)
(* tests still includes the departing connection.                          *)
(***************************************************************************)
Leave(c) ==
  LET i == InstanceOf[c]
  IN  /\ pc[c] = "leaving"
      /\ hub' = [hub EXCEPT ![i] = @ /\ Receivers(i) # {}]
      /\ queue' = [queue EXCEPT ![c] = << >>]
      /\ lagged' = [lagged EXCEPT ![c] = FALSE]
      /\ Goto(c, "off")
      /\ UNCHANGED <<dbVars, wakes, scanVars, pushVars, sent>>

(* The process dies: its tasks and its hub; open transactions roll back. *)
Crash(i) ==
  LET gone == {c \in Conn : InstanceOf[c] = i}
  IN  /\ i \in Failing /\ Receivers(i) # {}
      /\ hub' = [hub EXCEPT ![i] = FALSE]
      /\ wakes' = [wakes EXCEPT ![i] = 0]
      /\ queue' = [c \in Conn |-> IF c \in gone THEN << >> ELSE queue[c]]
      /\ lagged' = [c \in Conn |-> c \notin gone /\ lagged[c]]
      /\ pc' = [c \in Conn |-> IF c \in gone THEN "off" ELSE pc[c]]
      /\ pos' = [c \in Conn |-> IF c \in gone THEN 0 ELSE pos[c]]
      /\ rows' = [c \in Conn |-> IF c \in gone THEN {} ELSE rows[c]]
      /\ last' = [c \in Conn |-> IF c \in gone THEN 0 ELSE last[c]]
      /\ push' = [c \in Conn |-> IF c \in gone THEN None ELSE push[c]]
      /\ seq' = [c \in Conn |-> IF c \in gone THEN 0 ELSE seq[c]]
      /\ UNCHANGED <<dbVars, sent>>

-----------------------------------------------------------------------------
(* finish_job: a projection job succeeds, on whatever task ran it. *)
Project(b) ==
  /\ b \in jobs
  /\ jobs' = jobs \ {b}
  /\ UNCHANGED <<issued, journal, cursor, stored, hubVars, pc, scanVars, pushVars, sent>>

(***************************************************************************)
(* prune_delivered_changes: rows up to COALESCE(MIN(last_seq), 0), the     *)
(* minimum over the devices that have a cursor row, without a job, and     *)
(* old enough - which any of them may be.                                  *)
(***************************************************************************)
Passed(r) ==
  /\ \E d \in Device : cursor[d] > 0
  /\ \A d \in Device : cursor[d] > 0 => r.seq <= cursor[d]

Prunable == {r \in journal : Passed(r) /\ r.batch \notin jobs}

Prune(old) ==
  /\ old # {} /\ old \subseteq Prunable
  /\ journal' = journal \ old
  /\ UNCHANGED <<issued, jobs, cursor, stored, hubVars, pc, scanVars, pushVars, sent>>

ConnStep(c) ==
  \/ ReadCursor(c) \/ ScanChunk(c) \/ ScanDone(c) \/ SendChunk(c) \/ Advance(c)
  \/ RecvBatch(c) \/ RecvRescan(c) \/ RecvLagged(c)
  \/ CommitAppend(c) \/ AppendFails(c) \/ FanOut(c) \/ Notify(c) \/ NotifyFails(c)
  \/ Leave(c)

Next ==
  \/ \E c \in Conn :
       \/ Connect(c) \/ Drop(c) \/ ConnStep(c)
       \/ \E b \in Batch : PushNew(c, b) \/ PushDuplicate(c, b)
  \/ \E i \in Instance : ListenerWake(i) \/ ListenerLose(i) \/ Crash(i)
  \/ \E b \in Batch : Project(b)
  \/ \E old \in SUBSET Prunable : Prune(old)

Spec == Init /\ [][Next]_vars

(***************************************************************************)
(* A task that can run does, and the bus listener reads its notifications. *)
(* A connected client's socket takes what is sent to it or is dropped;     *)
(* clients owe nothing else: no fairness on connecting, pushing, closing.  *)
(***************************************************************************)
Fairness ==
  /\ \A c \in Conn : WF_vars(ConnStep(c))
  /\ \A i \in Instance : WF_vars(ListenerWake(i))

FairSpec == Spec /\ Fairness

-----------------------------------------------------------------------------
(* The shape of the tables, of the hub and of the tasks' locals; a receiver *)
(* never holds more than FANOUT_CAPACITY messages.                          *)
DbTypes ==
  /\ issued \in 1 .. MaxSeq
  /\ journal \subseteq Row
  /\ jobs \subseteq Batch /\ stored \subseteq Batch
  /\ cursor \in [Device -> 0 .. MaxSeq]
  /\ sent \in [Device -> SUBSET Batch]

HubTypes ==
  /\ hub \in [Instance -> BOOLEAN]
  /\ queue \in [Conn -> Seq(Batch \cup {Rescan})]
  /\ \A c \in Conn : Len(queue[c]) <= Capacity
  /\ lagged \in [Conn -> BOOLEAN]
  /\ wakes \in [Instance -> Nat]

TaskTypes ==
  /\ pc \in [Conn -> Steps]
  /\ pos \in [Conn -> 0 .. MaxSeq]
  /\ rows \in [Conn -> SUBSET Row]
  /\ last \in [Conn -> 0 .. MaxSeq]
  /\ push \in [Conn -> Batch \cup {None}]
  /\ seq \in [Conn -> 0 .. MaxSeq]

TypeOK == DbTypes /\ HubTypes /\ TaskTypes

(***************************************************************************)
(* "duplicate delivery, never loss" (sync.md): whatever crashes, drops,    *)
(* overruns, lost notifications, retries and prunes happen, a committed    *)
(* batch was sent to each other device, or the next scan of that device    *)
(* still finds it.  It holds for devices with a cursor row, as long as no  *)
(* two appends of the user overlap (OneAppend).  The two conditions are    *)
(* necessary: pruning does not wait for a device without cursor row, and   *)
(* see CursorCovers.                                                       *)
(***************************************************************************)
Found(b, p) == \E r \in journal : r.batch = b /\ r.seq > p
Covered(d, p) == \A b \in stored : Author[b] # d => b \in sent[d] \/ Found(b, p)

NeverLost == \A d \in Synced : Covered(d, cursor[d])

(* No two connections have an append_changes transaction open at once. *)
OneAppend == \A c, d \in Conn : pc[c] = "append" /\ pc[d] = "append" => c = d

(***************************************************************************)
(* The strengthening that makes NeverLost inductive: rows are numbered in  *)
(* the order they commit, and each position a scan may hand to             *)
(* advance_cursor is covered by then.                                      *)
(***************************************************************************)
CommitOrder ==
  \A w \in Conn : pc[w] = "append" =>
     /\ \A r \in journal : r.seq < seq[w]
     /\ \A d \in Device : cursor[d] < seq[w]
     /\ \A c \in Conn : last[c] < seq[w] /\ pos[c] < seq[w]

SeqsIssued ==
  /\ \A r \in journal : r.seq <= issued
  /\ \A d \in Device : cursor[d] <= issued
  /\ \A c \in Conn : last[c] <= issued /\ pos[c] <= issued

PushInHand ==
  \A c \in Conn :
     /\ pc[c] \in {"append", "fanout", "notify"} => c \in Writers /\ push[c] \in Batch
     /\ pc[c] = "append" => seq[c] \in 1 .. issued

CursorsStay == \A d \in Synced : cursor[d] > 0

ScanCovered ==
  \A c \in Conn : DeviceOf[c] \in Synced =>
     /\ pc[c] = "scan" => Covered(DeviceOf[c], pos[c])
     /\ pc[c] = "advance" => Covered(DeviceOf[c], last[c])
     /\ pc[c] = "send" =>
          \A b \in stored : Author[b] # DeviceOf[c] =>
             \/ b \in sent[DeviceOf[c]] \/ Found(b, last[c])
             \/ \E r \in rows[c] : r.batch = b

IInv == CommitOrder /\ SeqsIssued /\ PushInHand /\ CursorsStay /\ ScanCovered /\ NeverLost

(***************************************************************************)
(* A connected device gets every batch the others commit, wherever they    *)
(* are connected, however full its channel: no batch waits for the next    *)
(* reconnect.                                                              *)
(***************************************************************************)
Online(c) == pc[c] \notin {"off", "leaving"}

LiveDelivery ==
  \A b \in Batch : \A c \in Conn : Author[b] # DeviceOf[c] =>
     (b \in stored /\ Online(c)) ~> (b \in sent[DeviceOf[c]] \/ ~Online(c))

(***************************************************************************)
(* "every change with seq <= last_seq has either been delivered to this    *)
(* device or originated from it" (0001_initial.sql) - or is on its way to  *)
(* it through the hub.                                                     *)
(***************************************************************************)
ComingLive(b, d) ==
  \E c \in Conn : DeviceOf[c] = d /\ Online(c) /\
     \/ \E k \in 1 .. Len(queue[c]) : queue[c][k] = b
     \/ \E w \in Conn : pc[w] = "fanout" /\ push[w] = b /\ InstanceOf[w] = InstanceOf[c]

CursorCovers ==
  \A d \in Synced : \A r \in journal :
     r.seq <= cursor[d] /\ Author[r.batch] # d => r.batch \in sent[d] \/ ComingLive(r.batch, d)
=============================================================================
