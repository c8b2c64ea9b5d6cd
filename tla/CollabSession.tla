--------------------------- MODULE CollabSession ---------------------------
(***************************************************************************)
(* Fan-out of one note's op batches: the registry of live sessions of each *)
(* instance, the connections that join, edit and leave, the outbox and the *)
(* bus that carry a batch to the other instances (collab.rs, bus.rs).      *)
(*                                                                         *)
(* A batch is the number of its commit: module NoteLines shows what one    *)
(* transaction does to the tables, here `log` only records which           *)
(* connection committed the n-th one.  A connection handles one message at *)
(* a time; pc is the await it is at.  Tasks of one instance interleave at  *)
(* every await, instances at every step.                                   *)
(*                                                                         *)
(* Abstracted: message contents, authorization, other notes; what presence *)
(* lists say (module Presence has the rows behind them).                   *)
(***************************************************************************)
EXTENDS Naturals, Sequences

CONSTANTS
  Instance,      \* server processes
  Conn,          \* collaborative connections, each with its conn_id
  InstanceOf,    \* the process that serves a connection
  Failing,       \* instances that may crash, lose a NOTIFY or an outbox write
  Free,          \* "no task holds the apply_lock"
  Capacity,      \* OUTBOUND_CAPACITY of a connection's queue
  MaxSessions,   \* bound: sessions created
  MaxBatches     \* bound: batches committed

ASSUME InstanceAssumption ==
  /\ InstanceOf \in [Conn -> Instance] /\ Failing \subseteq Instance
  /\ Free \notin Conn
ASSUME BoundAssumption == Capacity \in Nat /\ MaxSessions \in Nat /\ MaxBatches \in Nat

VARIABLES
  log,         \* log[n]: the connection that committed batch n
  made,        \* sessions created so far
  registered,  \* CollabRegistry.sessions per instance; 0 when absent
  subs,        \* CollabSession.subscribers
  locked,      \* who holds CollabSession.apply_lock
  pc,          \* per connection: the await its message loop is at
  joined,      \* the connection's `joined` entry for the note; 0 when absent
  at,          \* the session the current message works on
  snap,        \* batches in the order row read for the Welcome
  cur,         \* the batch being fanned out
  pending,     \* messages in the connection's outbound queue
  inbox,       \* per instance: NOTIFYs not yet received
  event,       \* per instance: the event its listener delivers; 0 when none
  target,      \* the session it delivers to
  base,        \* history: snap of the connection's last subscription
  heard,       \* history: batches queued to it, by a Welcome or an Op
  fanned,      \* history: batches broadcast in a session
  lost         \* history: batches whose event will not reach an instance

sessionVars == <<made, registered, subs, locked, fanned>>
connVars == <<pc, joined, at, snap, cur, base>>
queueVars == <<pending, heard>>
busVars == <<inbox, event, target, lost>>
vars == <<log, sessionVars, connVars, queueVars, busVars>>

Session == 1 .. MaxSessions
Batch == 1 .. MaxBatches
Steps == {"idle", "joining", "reading", "op", "locked", "committed", "publish",
          "leaving", "closing", "closed"}

Init ==
  /\ log = << >>
  /\ made = 0
  /\ registered = [i \in Instance |-> 0]
  /\ subs = [s \in Session |-> {}]
  /\ locked = [s \in Session |-> Free]
  /\ pc = [c \in Conn |-> "idle"]
  /\ joined = [c \in Conn |-> 0]
  /\ at = [c \in Conn |-> 0]
  /\ snap = [c \in Conn |-> 0]
  /\ cur = [c \in Conn |-> 0]
  /\ pending = [c \in Conn |-> 0]
  /\ inbox = [i \in Instance |-> << >>]
  /\ event = [i \in Instance |-> 0]
  /\ target = [i \in Instance |-> 0]
  /\ base = [c \in Conn |-> 0]
  /\ heard = [c \in Conn |-> {}]
  /\ fanned = [s \in Session |-> {}]
  /\ lost = [i \in Instance |-> {}]

Goto(c, step) == pc' = [pc EXCEPT ![c] = step]
Forget(c) == at' = [at EXCEPT ![c] = 0] /\ snap' = [snap EXCEPT ![c] = 0]
(* Mutant: no apply_lock. *)
LockNothing(s, task) == UNCHANGED locked
Lock(s, task) == locked[s] = Free /\ locked' = [locked EXCEPT ![s] = task]
Unlock(s) == locked' = [locked EXCEPT ![s] = Free]

(* Mutant: an unbounded channel. *)
CanSendUnbounded(c) == pc[c] # "closed"

(* try_send: the queue has room and its receiver is still there. *)
CanSend(c) == pending[c] < Capacity /\ pc[c] # "closed"

(***************************************************************************)
(* CollabSession::broadcast of batch n: every subscriber but `skip` gets   *)
(* the message; those whose queue refuses it leave the session.            *)
(***************************************************************************)
Broadcast(s, n, skip) ==
  LET reached == {c \in subs[s] \ skip : CanSend(c)}
  IN  /\ subs' = [subs EXCEPT ![s] = reached \cup (@ \cap skip)]
      /\ pending' = [c \in Conn |-> IF c \in reached THEN pending[c] + 1 ELSE pending[c]]
      /\ heard' = [c \in Conn |-> IF c \in reached THEN heard[c] \cup {n} ELSE heard[c]]
      /\ fanned' = [fanned EXCEPT ![s] = @ \cup {n}]

-----------------------------------------------------------------------------
(* Join: CollabRegistry::get_or_create, under the registry's write lock. *)
JoinCreate(c) ==
  LET i == InstanceOf[c]
      fresh == registered[i] = 0
      s == IF fresh THEN made + 1 ELSE registered[i]
  IN  /\ pc[c] = "idle"
      /\ s \in Session
      /\ made' = IF fresh THEN s ELSE made
      /\ registered' = [registered EXCEPT ![i] = s]
      /\ at' = [at EXCEPT ![c] = s]
      /\ Goto(c, "joining")
      /\ UNCHANGED <<log, subs, locked, fanned, joined, snap, cur, base, queueVars, busVars>>

(* apply_lock, then read_snapshot's first SELECT: the order row. *)
JoinLock(c) ==
  /\ pc[c] = "joining"
  /\ Lock(at[c], c)
  /\ snap' = [snap EXCEPT ![c] = Len(log)]
  /\ Goto(c, "reading")
  /\ UNCHANGED <<log, made, registered, subs, fanned, joined, at, cur, base, queueVars, busVars>>

(***************************************************************************)
(* The second SELECT, the subscription and the Welcome, which is dropped   *)
(* when the queue is full.  The order row dates from JoinLock, so that is  *)
(* what the Welcome covers.                                                *)
(***************************************************************************)
JoinSubscribe(c) ==
  /\ pc[c] = "reading"
  /\ subs' = [subs EXCEPT ![at[c]] = @ \cup {c}]
  /\ Unlock(at[c])
  /\ joined' = [joined EXCEPT ![c] = at[c]]
  /\ base' = [base EXCEPT ![c] = snap[c]]
  /\ IF CanSend(c)
     THEN /\ pending' = [pending EXCEPT ![c] = @ + 1]
          /\ heard' = [heard EXCEPT ![c] = @ \cup 1 .. snap[c]]
     ELSE UNCHANGED queueVars
  /\ Goto(c, "idle") /\ Forget(c)
  /\ UNCHANGED <<log, made, registered, fanned, cur, busVars>>

(* read_snapshot fails: the session stays registered, unsubscribed. *)
JoinFail(c) ==
  /\ pc[c] = "reading"
  /\ Unlock(at[c])
  /\ Goto(c, "idle") /\ Forget(c)
  /\ UNCHANGED <<log, made, registered, subs, fanned, joined, cur, base, queueVars, busVars>>

(* Leave, or the end of run_connection: unsubscribe ... *)
Leave(c, step) ==
  /\ pc[c] = "idle" /\ joined[c] # 0
  /\ subs' = [subs EXCEPT ![joined[c]] = @ \ {c}]
  /\ joined' = [joined EXCEPT ![c] = 0]
  /\ Goto(c, step)
  /\ UNCHANGED <<log, made, registered, locked, fanned, at, snap, cur, base, queueVars, busVars>>

(* ... and, after clear_presence, drop whatever session is registered. *)
DropIfEmpty(c) ==
  LET i == InstanceOf[c]
  IN  /\ pc[c] \in {"leaving", "closing"}
      /\ registered' = [registered EXCEPT ![i] = IF @ # 0 /\ subs[@] = {} THEN 0 ELSE @]
      /\ Goto(c, IF pc[c] = "leaving" THEN "idle" ELSE "closed")
      /\ UNCHANGED <<log, made, subs, locked, fanned, joined, at, snap, cur, base, queueVars,
                     busVars>>

(* A connection that joined nothing ends. *)
Close(c) ==
  /\ pc[c] = "idle" /\ joined[c] = 0
  /\ Goto(c, "closed")
  /\ UNCHANGED <<log, sessionVars, joined, at, snap, cur, base, queueVars, busVars>>

-----------------------------------------------------------------------------
(* An Op message: only `joined` is consulted, not the subscription. *)
OpArrive(c) ==
  /\ pc[c] = "idle" /\ joined[c] # 0
  /\ at' = [at EXCEPT ![c] = joined[c]]
  /\ Goto(c, "op")
  /\ UNCHANGED <<log, sessionVars, joined, snap, cur, base, queueVars, busVars>>

OpLock(c) ==
  /\ pc[c] = "op"
  /\ Lock(at[c], c)
  /\ Goto(c, "locked")
  /\ UNCHANGED <<log, made, registered, subs, fanned, joined, at, snap, cur, base, queueVars,
                 busVars>>

(* lock_note_order ... commit, with at least one op applied. *)
OpCommit(c) ==
  /\ pc[c] = "locked" /\ Len(log) < MaxBatches
  /\ log' = Append(log, c)
  /\ cur' = [cur EXCEPT ![c] = Len(log) + 1]
  /\ Goto(c, "committed")
  /\ UNCHANGED <<sessionVars, joined, at, snap, base, queueVars, busVars>>

(* Mutant: the early return keeps the apply_lock. *)
OpNothingKeepsLock(c) ==
  /\ pc[c] = "locked"
  /\ Goto(c, "idle") /\ Forget(c)
  /\ UNCHANGED <<log, sessionVars, joined, cur, base, queueVars, busVars>>

(* Nothing applied, or an error rolled the transaction back. *)
OpNothing(c) ==
  /\ pc[c] = "locked"
  /\ Unlock(at[c])
  /\ Goto(c, "idle") /\ Forget(c)
  /\ UNCHANGED <<log, made, registered, subs, fanned, joined, cur, base, queueVars, busVars>>

OpBroadcast(c) ==
  /\ pc[c] = "committed"
  /\ Broadcast(at[c], cur[c], {c})
  /\ Unlock(at[c])
  /\ Goto(c, "publish") /\ Forget(c)
  /\ UNCHANGED <<log, made, registered, joined, cur, base, busVars>>

(* insert_collab_event, then NOTIFY; the origin ignores its own. *)
OpPublish(c) ==
  /\ pc[c] = "publish"
  /\ inbox' = [i \in Instance |-> IF i = InstanceOf[c] THEN inbox[i]
                                  ELSE Append(inbox[i], cur[c])]
  /\ cur' = [cur EXCEPT ![c] = 0]
  /\ Goto(c, "idle")
  /\ UNCHANGED <<log, sessionVars, joined, at, snap, base, queueVars, event, target, lost>>

(* Either statement fails: logged, and the batch stays on this instance. *)
OpPublishFail(c) ==
  /\ pc[c] = "publish" /\ InstanceOf[c] \in Failing
  /\ lost' = [i \in Instance |-> IF i = InstanceOf[c] THEN lost[i] ELSE lost[i] \cup {cur[c]}]
  /\ cur' = [cur EXCEPT ![c] = 0]
  /\ Goto(c, "idle")
  /\ UNCHANGED <<log, sessionVars, joined, at, snap, base, queueVars, inbox, event, target>>

-----------------------------------------------------------------------------
(* handle_collab_op: load the event, look the session up (deliver_event). *)
ListenerGet(i) ==
  /\ event[i] = 0 /\ inbox[i] # << >>
  /\ inbox' = [inbox EXCEPT ![i] = Tail(@)]
  /\ IF registered[i] = 0
     THEN UNCHANGED <<event, target>>
     ELSE /\ event' = [event EXCEPT ![i] = Head(inbox[i])]
          /\ target' = [target EXCEPT ![i] = registered[i]]
  /\ UNCHANGED <<log, sessionVars, connVars, queueVars, lost>>

(* Mutant: deliver_event without the lock. *)
ListenerDeliverUnlocked(i) ==
  /\ event[i] # 0
  /\ Broadcast(target[i], event[i], {})
  /\ event' = [event EXCEPT ![i] = 0]
  /\ target' = [target EXCEPT ![i] = 0]
  /\ UNCHANGED <<log, made, registered, locked, connVars, inbox, lost>>

(* Mutant: the listener waits for room in every queue (send, not try_send). *)
ListenerDeliverWaits(i) ==
  /\ event[i] # 0
  /\ locked[target[i]] = Free
  /\ \A c \in subs[target[i]] : CanSend(c)
  /\ Broadcast(target[i], event[i], {})
  /\ event' = [event EXCEPT ![i] = 0]
  /\ target' = [target EXCEPT ![i] = 0]
  /\ UNCHANGED <<log, made, registered, locked, connVars, inbox, lost>>

(* The rest of deliver_event, under the session's apply_lock. *)
ListenerDeliver(i) ==
  /\ event[i] # 0
  /\ locked[target[i]] = Free
  /\ Broadcast(target[i], event[i], {})
  /\ event' = [event EXCEPT ![i] = 0]
  /\ target' = [target EXCEPT ![i] = 0]
  /\ UNCHANGED <<log, made, registered, locked, connVars, inbox, lost>>

(***************************************************************************)
(* deliver_presence, by a message loop or the listener, in a session it    *)
(* has looked up.  Broadcast takes no apply_lock here, so that anything    *)
(* may happen between the pass that finds a queue full and the pass that   *)
(* evicts its connection, a Leave and a Join of that connection included.  *)
(* Who was found full is not remembered: any subscriber may have been.     *)
(***************************************************************************)
PresenceSend(s) ==
  /\ pending' = [c \in Conn |-> IF c \in subs[s] /\ CanSend(c) THEN pending[c] + 1 ELSE pending[c]]
  /\ UNCHANGED <<log, sessionVars, connVars, heard, busVars>>

PresenceEvict(s, c) ==
  /\ c \in subs[s]
  /\ subs' = [subs EXCEPT ![s] = @ \ {c}]
  /\ UNCHANGED <<log, made, registered, locked, fanned, connVars, queueVars, busVars>>

Notified(i) == {inbox[i][k] : k \in 1 .. Len(inbox[i])}

(* The LISTEN connection breaks: what was notified meanwhile is gone. *)
ListenerLose(i) ==
  /\ i \in Failing /\ inbox[i] # << >>
  /\ inbox' = [inbox EXCEPT ![i] = << >>]
  /\ lost' = [lost EXCEPT ![i] = @ \cup Notified(i)]
  /\ UNCHANGED <<log, sessionVars, connVars, queueVars, event, target>>

(***************************************************************************)
(* The process dies: its sessions, connections and listener with it.  A    *)
(* batch it committed but had not published reaches nobody else.           *)
(***************************************************************************)
Mine(i) == {c \in Conn : InstanceOf[c] = i}
Unpublished(i) == {cur[c] : c \in {d \in Mine(i) : pc[d] \in {"committed", "publish"}}}

Crash(i) ==
  /\ i \in Failing /\ \E c \in Mine(i) : pc[c] # "closed"
  /\ registered' = [registered EXCEPT ![i] = 0]
  /\ subs' = [s \in Session |-> subs[s] \ Mine(i)]
  /\ locked' = [s \in Session |-> IF locked[s] \in Mine(i) THEN Free ELSE locked[s]]
  /\ pc' = [c \in Conn |-> IF c \in Mine(i) THEN "closed" ELSE pc[c]]
  /\ joined' = [c \in Conn |-> IF c \in Mine(i) THEN 0 ELSE joined[c]]
  /\ at' = [c \in Conn |-> IF c \in Mine(i) THEN 0 ELSE at[c]]
  /\ snap' = [c \in Conn |-> IF c \in Mine(i) THEN 0 ELSE snap[c]]
  /\ cur' = [c \in Conn |-> IF c \in Mine(i) THEN 0 ELSE cur[c]]
  /\ inbox' = [inbox EXCEPT ![i] = << >>]
  /\ event' = [event EXCEPT ![i] = 0]
  /\ target' = [target EXCEPT ![i] = 0]
  /\ lost' = [j \in Instance |-> IF j = i THEN lost[j] ELSE lost[j] \cup Unpublished(i)]
  /\ UNCHANGED <<log, made, fanned, base, queueVars>>

(* The writer task hands a message to the socket. *)
Drain(c) ==
  /\ pending[c] > 0 /\ pc[c] # "closed"
  /\ pending' = [pending EXCEPT ![c] = @ - 1]
  /\ UNCHANGED <<log, sessionVars, connVars, heard, busVars>>

Next ==
  \/ \E c \in Conn :
       \/ JoinCreate(c) \/ JoinLock(c) \/ JoinSubscribe(c) \/ JoinFail(c)
       \/ Leave(c, "leaving") \/ Leave(c, "closing") \/ DropIfEmpty(c) \/ Close(c)
       \/ OpArrive(c) \/ OpLock(c) \/ OpCommit(c) \/ OpNothing(c) \/ OpBroadcast(c)
       \/ OpPublish(c) \/ OpPublishFail(c) \/ Drain(c)
  \/ \E i \in Instance :
       \/ ListenerGet(i) \/ ListenerDeliver(i) \/ ListenerLose(i) \/ Crash(i)
  \/ \E s \in Session : PresenceSend(s) \/ \E c \in Conn : PresenceEvict(s, c)

Spec == Init /\ [][Next]_vars

(***************************************************************************)
(* A task that can run does.  Strong fairness, because tokio's Mutex is    *)
(* FIFO: a task that waits for the apply_lock gets it although others take *)
(* it in between.  Clients owe nothing: no fairness on the arrival of      *)
(* messages or on reading the socket.                                      *)
(***************************************************************************)
HandlerStep(c) ==
  \/ JoinLock(c) \/ JoinSubscribe(c) \/ JoinFail(c) \/ DropIfEmpty(c)
  \/ OpLock(c) \/ OpCommit(c) \/ OpNothing(c) \/ OpBroadcast(c)
  \/ OpPublish(c) \/ OpPublishFail(c)

ListenerStep(i) == ListenerGet(i) \/ ListenerDeliver(i)

Fairness ==
  /\ \A c \in Conn : SF_vars(HandlerStep(c))
  /\ \A i \in Instance : SF_vars(ListenerStep(i))

FairSpec == Spec /\ Fairness

-----------------------------------------------------------------------------
(***************************************************************************)
(* The shape of the registries and message loops; and no outbound queue    *)
(* ever holds more than OUTBOUND_CAPACITY messages, whoever sends to it -  *)
(* handlers, the listener and presence updates, with or without the lock.  *)
(***************************************************************************)
SessionTypes ==
  /\ made \in 0 .. MaxSessions
  /\ registered \in [Instance -> 0 .. MaxSessions]
  /\ subs \in [Session -> SUBSET Conn]
  /\ locked \in [Session -> Conn \cup {Free}]
  /\ fanned \in [Session -> SUBSET Nat]

ConnTypes ==
  /\ pc \in [Conn -> Steps]
  /\ joined \in [Conn -> 0 .. MaxSessions]
  /\ at \in [Conn -> 0 .. MaxSessions]
  /\ snap \in [Conn -> Nat] /\ cur \in [Conn -> Nat] /\ base \in [Conn -> Nat]

QueueTypes == pending \in [Conn -> 0 .. Capacity] /\ heard \in [Conn -> SUBSET Nat]

BusTypes ==
  /\ inbox \in [Instance -> Seq(Nat)]
  /\ event \in [Instance -> Nat]
  /\ target \in [Instance -> 0 .. MaxSessions]
  /\ lost \in [Instance -> SUBSET Nat]

TypeOK == log \in Seq(Conn) /\ SessionTypes /\ ConnTypes /\ QueueTypes /\ BusTypes

(***************************************************************************)
(* "a joiner can never miss an op between reading the snapshot and         *)
(* subscribing" (collab.md), within one session: every batch fanned out in *)
(* it after the snapshot was read has been queued to each subscriber that  *)
(* did not write it - whatever joins, leaves, evictions and deliveries     *)
(* from the bus interleave.                                                *)
(***************************************************************************)
SessionGapFree ==
  \A s \in Session : \A c \in subs[s] : \A n \in fanned[s] :
     n > base[c] /\ log[n] # c => n \in heard[c]

(***************************************************************************)
(* The strengthening that makes SessionGapFree inductive: who holds the    *)
(* apply_lock at which await, that batches in flight are committed ones,   *)
(* and that nothing was fanned out in a session since the snapshot a       *)
(* joiner of it is reading - which is what the lock is for.                *)
(***************************************************************************)
LockHeld ==
  \A c \in Conn :
     /\ pc[c] \in {"joining", "op", "reading", "locked", "committed"} => at[c] \in Session
     /\ pc[c] \in {"reading", "locked", "committed"} => locked[at[c]] = c

InFlightCommitted ==
  /\ \A s \in Session : fanned[s] \subseteq 1 .. Len(log)
  /\ \A c \in Conn : base[c] <= Len(log)
  /\ \A c \in Conn : pc[c] \in {"committed", "publish"} =>
                       cur[c] \in 1 .. Len(log) /\ log[cur[c]] = c

EventsCommitted ==
  \A i \in Instance :
     /\ Notified(i) \subseteq 1 .. Len(log)
     /\ event[i] # 0 => event[i] \in 1 .. Len(log) /\ target[i] \in Session

SnapshotCurrent ==
  \A c \in Conn : pc[c] = "reading" =>
     /\ base[c] <= snap[c] /\ snap[c] <= Len(log)
     /\ \A n \in fanned[at[c]] : n <= snap[c]

IInv == LockHeld /\ InFlightCommitted /\ EventsCommitted /\ SnapshotCurrent /\ SessionGapFree

(***************************************************************************)
(* Across instances: a batch another instance committed is in a            *)
(* subscriber's snapshot, or was queued to it, or is still on its way, or  *)
(* was dropped by a failure the code names (crash, failed outbox write,    *)
(* broken LISTEN).  A joiner never falls between snapshot and bus.         *)
(***************************************************************************)
OnItsWay(n, i, s) ==
  \/ pc[log[n]] \in {"committed", "publish"} /\ cur[log[n]] = n
  \/ n \in Notified(i)
  \/ event[i] = n /\ target[i] = s

CrossInstanceGapFree ==
  \A i \in Instance : registered[i] # 0 =>
     \A c \in subs[registered[i]] : \A n \in 1 .. Len(log) :
        InstanceOf[log[n]] # i =>
           \/ n <= base[c] \/ n \in heard[c]
           \/ OnItsWay(n, i, registered[i]) \/ n \in lost[i]

(***************************************************************************)
(* No message loop waits for ever: the apply_lock is released on every     *)
(* path, error paths included, so a busy handler is idle or closed again.  *)
(***************************************************************************)
HandlersFinish ==
  \A c \in Conn : []<>(pc[c] \in {"idle", "closed"})

(***************************************************************************)
(* A committed batch reaches every connection that stays subscribed on     *)
(* another instance, unless a failure dropped its event.  (A commit is     *)
(* never undone, so "infinitely often" says as much as "leads to".)        *)
(***************************************************************************)
Settled(n, c) ==
  LET i == InstanceOf[c] IN
  \/ registered[i] = 0 \/ c \notin subs[registered[i]]
  \/ n <= base[c] \/ n \in heard[c] \/ n \in lost[i]

BatchesReachSiblings ==
  \A n \in Batch : \A c \in Conn :
     []<>(n <= Len(log) /\ InstanceOf[log[n]] # InstanceOf[c] => Settled(n, c))

(***************************************************************************)
(* "One live collaborative session per note with at least one subscriber   *)
(* ... a joiner can never miss an op": two connections subscribed on one   *)
(* instance hear each other's batches.                                     *)
(***************************************************************************)
Subscribed(c) == joined[c] # 0 /\ c \in subs[joined[c]]

LocalPeersHear ==
  \A c, d \in Conn :
     InstanceOf[c] = InstanceOf[d] /\ c # d /\ Subscribed(c) /\ Subscribed(d) =>
        \A n \in fanned[joined[d]] :
           log[n] = d /\ n > base[c] => n \in heard[c]
=============================================================================
