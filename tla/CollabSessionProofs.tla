------------------------ MODULE CollabSessionProofs ------------------------
(***************************************************************************)
(* CollabSession for every number of instances, connections, sessions and  *)
(* batches: type correctness, that a subscriber of a session misses no     *)
(* batch fanned out in it, and none committed on another instance.         *)
(***************************************************************************)
EXTENDS CollabSession, TLAPS, SequenceTheorems

(* Session ids are the non-zero values of the fields that may be 0. *)
LEMMA SessionIds ==
  /\ 0 \in 0 .. MaxSessions
  /\ Session \subseteq 0 .. MaxSessions
  /\ \A s \in 0 .. MaxSessions : s # 0 => s \in Session
  BY BoundAssumption DEF Session

LEMMA TypeInit == Init => TypeOK
  BY SessionIds, BoundAssumption DEF Init, TypeOK, SessionTypes, ConnTypes, QueueTypes, BusTypes, Steps

(* The types of the variable groups a step leaves alone. *)
LEMMA TypesUnchanged ==
  ASSUME TypeOK
  PROVE  /\ UNCHANGED log => log' \in Seq(Conn)
         /\ UNCHANGED sessionVars => SessionTypes'
         /\ UNCHANGED connVars => ConnTypes'
         /\ UNCHANGED queueVars => QueueTypes'
         /\ UNCHANGED busVars => BusTypes'
  BY DEF TypeOK, SessionTypes, ConnTypes, QueueTypes, BusTypes, sessionVars, connVars,
         queueVars, busVars

(* Broadcasting keeps the types of what it changes. *)
LEMMA BroadcastTypes ==
  ASSUME TypeOK, NEW s \in Session, NEW n \in Nat, NEW skip, Broadcast(s, n, skip)
  PROVE  /\ subs' \in [Session -> SUBSET Conn]
         /\ fanned' \in [Session -> SUBSET Nat]
         /\ QueueTypes'
<1> DEFINE reached == {c \in subs[s] \ skip : CanSend(c)}
<1>1. reached \subseteq Conn /\ subs[s] \subseteq Conn
  BY DEF TypeOK, SessionTypes
<1>2. /\ subs' = [subs EXCEPT ![s] = reached \cup (@ \cap skip)]
      /\ pending' = [c \in Conn |-> IF c \in reached THEN pending[c] + 1 ELSE pending[c]]
      /\ heard' = [c \in Conn |-> IF c \in reached THEN heard[c] \cup {n} ELSE heard[c]]
      /\ fanned' = [fanned EXCEPT ![s] = @ \cup {n}]
  BY DEF Broadcast
<1> HIDE DEF reached
<1>3. subs' \in [Session -> SUBSET Conn] /\ fanned' \in [Session -> SUBSET Nat]
  BY <1>1, <1>2 DEF TypeOK, SessionTypes
<1>4. pending' \in [Conn -> 0 .. Capacity]
  <2>1. \A c \in reached : pending[c] < Capacity
    BY DEF reached, CanSend
  <2> QED
    BY <1>2, <2>1, BoundAssumption DEF TypeOK, QueueTypes
<1>5. heard' \in [Conn -> SUBSET Nat]
  BY <1>2 DEF TypeOK, QueueTypes
<1> QED
  BY <1>3, <1>4, <1>5 DEF QueueTypes

(* Every step keeps the types, given where each message loop is. *)
LEMMA TypeStep == TypeOK /\ IInv /\ [Next]_vars => TypeOK'
<1> SUFFICES ASSUME TypeOK, LockHeld, EventsCommitted, [Next]_vars PROVE TypeOK'
  BY DEF IInv
<1> USE DEF Goto, Lock, Unlock, Forget
<1>1. ASSUME NEW c \in Conn, JoinCreate(c) PROVE TypeOK'
  <2>1. ConnTypes' /\ SessionTypes'
    <3> DEFINE i == InstanceOf[c]
               s == IF registered[i] = 0 THEN made + 1 ELSE registered[i]
    <3>1. /\ s \in Session /\ s \in 0 .. MaxSessions
          /\ made' = s \/ made' = made
          /\ registered' = [registered EXCEPT ![i] = s]
          /\ at' = [at EXCEPT ![c] = s]
          /\ pc' = [pc EXCEPT ![c] = "joining"]
          /\ UNCHANGED <<subs, locked, fanned, joined, snap, cur, base>>
      BY <1>1, SessionIds DEF JoinCreate
    <3> HIDE DEF s, i
    <3> QED
      BY <3>1 DEF TypeOK, SessionTypes, ConnTypes, Steps
  <2> QED
    BY <1>1, <2>1, TypesUnchanged DEF JoinCreate, TypeOK
<1>2. ASSUME NEW c \in Conn, JoinLock(c) PROVE TypeOK'
  <2>1. Len(log) \in Nat
    BY LenProperties DEF TypeOK
  <2>2. SessionTypes'
    BY <1>2 DEF JoinLock, TypeOK, SessionTypes
  <2>3. ConnTypes'
    BY <1>2, <2>1 DEF JoinLock, TypeOK, ConnTypes, Steps
  <2> QED
    BY <1>2, <2>2, <2>3, TypesUnchanged DEF JoinLock, TypeOK
<1>3. ASSUME NEW c \in Conn, JoinSubscribe(c) PROVE TypeOK'
  <2>1. QueueTypes'
    <3>1. 1 .. snap[c] \subseteq Nat
      OBVIOUS
    <3>2. CASE CanSend(c)
      <4>1. /\ pending' = [pending EXCEPT ![c] = @ + 1]
            /\ heard' = [heard EXCEPT ![c] = @ \cup 1 .. snap[c]]
        BY <1>3, <3>2 DEF JoinSubscribe
      <4>2. heard' \in [Conn -> SUBSET Nat]
        BY <3>1, <4>1 DEF TypeOK, QueueTypes
      <4> QED
        BY <3>2, <4>1, <4>2, BoundAssumption DEF TypeOK, QueueTypes, CanSend
    <3>3. CASE ~CanSend(c)
      BY <1>3, <3>3 DEF JoinSubscribe, TypeOK, QueueTypes, queueVars
    <3> QED
      BY <3>2, <3>3
  <2>2. SessionTypes'
    BY <1>3 DEF JoinSubscribe, TypeOK, SessionTypes
  <2>3. ConnTypes'
    BY <1>3, SessionIds DEF JoinSubscribe, TypeOK, ConnTypes, Steps
  <2> QED
    BY <1>3, <2>1, <2>2, <2>3, TypesUnchanged DEF JoinSubscribe, TypeOK
<1>4. ASSUME NEW c \in Conn, JoinFail(c) \/ OpNothing(c) PROVE TypeOK'
  <2>1. SessionTypes'
    BY <1>4 DEF JoinFail, OpNothing, TypeOK, SessionTypes
  <2>2. ConnTypes'
    <3>1. /\ pc' = [pc EXCEPT ![c] = "idle"]
          /\ at' = [at EXCEPT ![c] = 0] /\ snap' = [snap EXCEPT ![c] = 0]
          /\ UNCHANGED <<joined, cur, base>>
      BY <1>4 DEF JoinFail, OpNothing
    <3> QED
      BY <3>1, SessionIds DEF TypeOK, ConnTypes, Steps
  <2> QED
    BY <1>4, <2>1, <2>2, TypesUnchanged DEF JoinFail, OpNothing, TypeOK
<1>5. ASSUME NEW c \in Conn, NEW step \in {"leaving", "closing"}, Leave(c, step) PROVE TypeOK'
  <2>1. SessionTypes'
    BY <1>5 DEF Leave, TypeOK, SessionTypes
  <2>2. ConnTypes'
    BY <1>5, SessionIds DEF Leave, TypeOK, ConnTypes, Steps
  <2> QED
    BY <1>5, <2>1, <2>2, TypesUnchanged DEF Leave, TypeOK
<1>6. ASSUME NEW c \in Conn, DropIfEmpty(c) PROVE TypeOK'
  <2>1. SessionTypes'
    BY <1>6, SessionIds DEF DropIfEmpty, TypeOK, SessionTypes
  <2>2. ConnTypes'
    BY <1>6 DEF DropIfEmpty, TypeOK, ConnTypes, Steps
  <2> QED
    BY <1>6, <2>1, <2>2, TypesUnchanged DEF DropIfEmpty, TypeOK
<1>7. ASSUME NEW c \in Conn, Close(c) \/ OpArrive(c) PROVE TypeOK'
  <2>1. ConnTypes'
    BY <1>7, ZenonT(60) DEF Close, OpArrive, TypeOK, ConnTypes, Steps
  <2> QED
    BY <1>7, <2>1, TypesUnchanged DEF Close, OpArrive, TypeOK
<1>8. ASSUME NEW c \in Conn, OpLock(c) PROVE TypeOK'
  <2>1. SessionTypes' /\ ConnTypes'
    BY <1>8 DEF OpLock, TypeOK, SessionTypes, ConnTypes, Steps
  <2> QED
    BY <1>8, <2>1, TypesUnchanged DEF OpLock, TypeOK
<1>9. ASSUME NEW c \in Conn, OpCommit(c) PROVE TypeOK'
  <2>1. log' \in Seq(Conn) /\ Len(log) + 1 \in Nat
    BY <1>9, AppendProperties, LenProperties DEF OpCommit, TypeOK
  <2>2. ConnTypes'
    BY <1>9, <2>1 DEF OpCommit, TypeOK, ConnTypes, Steps
  <2> QED
    BY <1>9, <2>1, <2>2, TypesUnchanged DEF OpCommit, TypeOK
<1>10. ASSUME NEW c \in Conn, OpBroadcast(c) PROVE TypeOK'
  <2>1. at[c] \in Session /\ cur[c] \in Nat /\ Broadcast(at[c], cur[c], {c})
    BY <1>10 DEF OpBroadcast, LockHeld, TypeOK, ConnTypes
  <2>2. SessionTypes' /\ QueueTypes'
    BY <1>10, <2>1, BroadcastTypes DEF OpBroadcast, TypeOK, SessionTypes
  <2>3. ConnTypes'
    BY <1>10, SessionIds DEF OpBroadcast, TypeOK, ConnTypes, Steps
  <2> QED
    BY <1>10, <2>2, <2>3, TypesUnchanged DEF OpBroadcast, TypeOK
<1>11. ASSUME NEW c \in Conn, OpPublish(c) PROVE TypeOK'
  <2>1. \A i \in Instance : Append(inbox[i], cur[c]) \in Seq(Nat)
    BY AppendProperties DEF TypeOK, BusTypes, ConnTypes
  <2>2. BusTypes'
    BY <1>11, <2>1 DEF OpPublish, TypeOK, BusTypes
  <2>3. ConnTypes'
    BY <1>11 DEF OpPublish, TypeOK, ConnTypes, Steps
  <2> QED
    BY <1>11, <2>2, <2>3, TypesUnchanged DEF OpPublish, TypeOK
<1>12. ASSUME NEW c \in Conn, OpPublishFail(c) PROVE TypeOK'
  <2>1. BusTypes'
    BY <1>12 DEF OpPublishFail, TypeOK, BusTypes, ConnTypes
  <2>2. ConnTypes'
    BY <1>12 DEF OpPublishFail, TypeOK, ConnTypes, Steps
  <2> QED
    BY <1>12, <2>1, <2>2, TypesUnchanged DEF OpPublishFail, TypeOK
<1>13. ASSUME NEW c \in Conn, Drain(c) PROVE TypeOK'
  <2>1. QueueTypes'
    BY <1>13, BoundAssumption DEF Drain, TypeOK, QueueTypes
  <2> QED
    BY <1>13, <2>1, TypesUnchanged DEF Drain, TypeOK
<1>14. ASSUME NEW i \in Instance, ListenerGet(i) PROVE TypeOK'
  <2>1. inbox[i] \in Seq(Nat) /\ inbox[i] # << >>
    BY <1>14 DEF ListenerGet, TypeOK, BusTypes
  <2>2. Tail(inbox[i]) \in Seq(Nat) /\ Head(inbox[i]) \in Nat
    BY <2>1, HeadTailProperties
  <2>3. BusTypes'
    BY <1>14, <2>2, ZenonT(60) DEF ListenerGet, TypeOK, BusTypes, SessionTypes
  <2> QED
    BY <1>14, <2>3, TypesUnchanged DEF ListenerGet, TypeOK
<1>15. ASSUME NEW i \in Instance, ListenerDeliver(i) PROVE TypeOK'
  <2>1. target[i] \in Session /\ event[i] \in Nat /\ Broadcast(target[i], event[i], {})
    BY <1>15 DEF ListenerDeliver, EventsCommitted, TypeOK, BusTypes
  <2>2. SessionTypes' /\ QueueTypes'
    BY <1>15, <2>1, BroadcastTypes DEF ListenerDeliver, TypeOK, SessionTypes
  <2>3. BusTypes'
    BY <1>15, SessionIds DEF ListenerDeliver, TypeOK, BusTypes
  <2> QED
    BY <1>15, <2>2, <2>3, TypesUnchanged DEF ListenerDeliver, TypeOK
<1>16. ASSUME NEW i \in Instance, ListenerLose(i) PROVE TypeOK'
  <2>1. Notified(i) \subseteq Nat
    BY DEF EventsCommitted
  <2>2. BusTypes'
    BY <1>16, <2>1 DEF ListenerLose, TypeOK, BusTypes
  <2> QED
    BY <1>16, <2>2, TypesUnchanged DEF ListenerLose, TypeOK
<1>17. ASSUME NEW i \in Instance, Crash(i) PROVE TypeOK'
  <2>1. Unpublished(i) \subseteq Nat
    BY DEF Unpublished, Mine, TypeOK, ConnTypes
  <2>2. BusTypes'
    BY <1>17, <2>1, SessionIds DEF Crash, TypeOK, BusTypes
  <2>3. SessionTypes'
    BY <1>17, SessionIds DEF Crash, TypeOK, SessionTypes
  <2>4. ConnTypes'
    BY <1>17, SessionIds DEF Crash, TypeOK, ConnTypes, Steps
  <2> QED
    BY <1>17, <2>2, <2>3, <2>4, TypesUnchanged DEF Crash, TypeOK
<1>18. CASE UNCHANGED vars
  BY <1>18, TypesUnchanged DEF vars, TypeOK
<1>19. ASSUME NEW s \in Session, PresenceSend(s) PROVE TypeOK'
  <2>1. QueueTypes'
    BY <1>19, BoundAssumption DEF PresenceSend, CanSend, TypeOK, QueueTypes
  <2> QED
    BY <1>19, <2>1, TypesUnchanged DEF PresenceSend, TypeOK
<1>20. ASSUME NEW s \in Session, NEW c \in Conn, PresenceEvict(s, c) PROVE TypeOK'
  <2>1. SessionTypes'
    BY <1>20 DEF PresenceEvict, TypeOK, SessionTypes
  <2> QED
    BY <1>20, <2>1, TypesUnchanged DEF PresenceEvict, TypeOK
<1> QED
  BY <1>1, <1>2, <1>3, <1>4, <1>5, <1>6, <1>7, <1>8, <1>9, <1>10, <1>11, <1>12, <1>13, <1>14,
     <1>15, <1>16, <1>17, <1>18, <1>19, <1>20 DEF Next

-----------------------------------------------------------------------------
(***************************************************************************)
(* IInv.  Most steps are quiet: they fan nothing out, subscribe nobody and *)
(* leave each message loop where it holds no lock, or where it was.        *)
(***************************************************************************)
LoopQuiet(c) ==
  \/ pc'[c] \in {"idle", "leaving", "closing", "closed"}
  \/ pc'[c] \in {"joining", "op"} /\ at'[c] \in Session
  \/ pc'[c] = "locked" /\ at'[c] \in Session /\ locked'[at'[c]] = c
  \/ /\ pc'[c] = pc[c] /\ at'[c] = at[c] /\ snap'[c] = snap[c] /\ cur'[c] = cur[c]
     /\ at[c] \in Session /\ locked[at[c]] = c => locked'[at[c]] = c

(* What an inbox announces: nothing when empty, one more when appended to. *)
LEMMA NothingNotified ==
  ASSUME NEW i \in Instance, inbox[i] = << >>
  PROVE  Notified(i) = {}
<1>1. Len(inbox[i]) = 0
  BY EmptySeq
<1> QED
  BY <1>1 DEF Notified

LEMMA IInvInit == Init => IInv
<1> SUFFICES ASSUME Init PROVE IInv
  OBVIOUS
<1>1. \A c \in Conn : pc[c] = "idle" /\ base[c] = 0
  BY DEF Init
<1>2. \A i \in Instance : inbox[i] = << >> /\ event[i] = 0
  BY DEF Init
<1>3. \A s \in Session : fanned[s] = {} /\ subs[s] = {}
  BY DEF Init
<1>4. Len(log) = 0
  BY DEF Init
<1>5. EventsCommitted
  <2>1. \A i \in Instance : Notified(i) = {}
    BY <1>2, NothingNotified
  <2> QED
    BY <1>2, <2>1 DEF EventsCommitted
<1> QED
  BY <1>1, <1>3, <1>4, <1>5
     DEF IInv, LockHeld, InFlightCommitted, SnapshotCurrent, SessionGapFree

LEMMA QuietStep ==
  ASSUME TypeOK, IInv, UNCHANGED <<log, fanned, base, heard>>,
         \A s \in Session : subs'[s] \subseteq subs[s],
         \A c \in Conn : LoopQuiet(c),
         EventsCommitted'
  PROVE  IInv'
<1>1. LockHeld'
  BY DEF IInv, LockHeld, LoopQuiet
<1>2. InFlightCommitted'
  BY DEF IInv, InFlightCommitted, LoopQuiet
<1>3. SnapshotCurrent'
  BY DEF IInv, SnapshotCurrent, LoopQuiet
<1>4. SessionGapFree'
  BY DEF IInv, SessionGapFree
<1> QED
  BY <1>1, <1>2, <1>3, <1>4 DEF IInv

(* Nothing happens on the bus. *)
LEMMA BusQuiet ==
  ASSUME IInv, UNCHANGED <<log, inbox, event, target>>
  PROVE  EventsCommitted'
  BY DEF IInv, EventsCommitted, Notified

(***************************************************************************)
(* Broadcasting batch n in s.  Nobody reads a snapshot of s meanwhile, and *)
(* each subscriber left in s was reached, or wrote n itself.               *)
(***************************************************************************)
LEMMA BroadcastStep ==
  ASSUME TypeOK, IInv, NEW s \in Session, NEW n \in 1 .. Len(log), NEW skip,
         \A c \in skip : log[n] = c,
         Broadcast(s, n, skip), UNCHANGED <<log, base>>,
         \A c \in Conn : LoopQuiet(c) \/ (pc'[c] = "publish" /\ cur'[c] \in 1 .. Len(log)
                                                           /\ log[cur'[c]] = c),
         \A c \in Conn : pc'[c] = "reading" => at[c] # s,
         EventsCommitted'
  PROVE  IInv'
<1> DEFINE reached == {c \in subs[s] \ skip : CanSend(c)}
<1>1. /\ subs' = [subs EXCEPT ![s] = reached \cup (@ \cap skip)]
      /\ heard' = [c \in Conn |-> IF c \in reached THEN heard[c] \cup {n} ELSE heard[c]]
      /\ fanned' = [fanned EXCEPT ![s] = @ \cup {n}]
  BY DEF Broadcast
<1>2. reached \subseteq subs[s] \ skip
  OBVIOUS
<1> HIDE DEF reached
<1>3. /\ subs'[s] = reached \cup (subs[s] \cap skip)
      /\ \A r \in Session : r # s => subs'[r] = subs[r] /\ fanned'[r] = fanned[r]
      /\ fanned'[s] = fanned[s] \cup {n}
  BY <1>1 DEF TypeOK, SessionTypes
<1>4. \A c \in Conn : heard[c] \subseteq heard'[c] /\ (c \in reached => n \in heard'[c])
  BY <1>1 DEF TypeOK, QueueTypes
<1>5. LockHeld'
  BY DEF IInv, LockHeld, LoopQuiet
<1>6. InFlightCommitted'
  BY <1>3 DEF IInv, InFlightCommitted, LoopQuiet
<1>7. SnapshotCurrent'
  <2> SUFFICES ASSUME NEW c \in Conn, pc'[c] = "reading"
               PROVE  /\ base'[c] <= snap'[c] /\ snap'[c] <= Len(log')
                      /\ \A m \in fanned'[at'[c]] : m <= snap'[c]
    BY DEF SnapshotCurrent
  <2>1. pc[c] = "reading" /\ at'[c] = at[c] /\ snap'[c] = snap[c]
    BY DEF LoopQuiet
  <2>2. at[c] \in Session /\ at[c] # s
    BY <2>1 DEF IInv, LockHeld
  <2> QED
    BY <1>3, <2>1, <2>2 DEF IInv, SnapshotCurrent
<1>8. SessionGapFree'
  <2> SUFFICES ASSUME NEW r \in Session, NEW c \in subs'[r], NEW m \in fanned'[r],
                      m > base'[c], log'[m] # c
               PROVE  m \in heard'[c]
    BY DEF SessionGapFree
  <2>1. c \in subs[r] /\ c \in Conn
    BY <1>2, <1>3 DEF TypeOK, SessionTypes
  <2>2. CASE m \in fanned[r]
    BY <1>4, <2>1, <2>2 DEF IInv, SessionGapFree
  <2>3. CASE m \notin fanned[r]
    <3>1. r = s /\ m = n
      BY <1>3, <2>3
    <3>2. c \in reached
      BY <1>3, <3>1
    <3> QED
      BY <1>4, <2>1, <3>1, <3>2
  <2> QED
    BY <2>2, <2>3
<1> QED
  BY <1>5, <1>6, <1>7, <1>8 DEF IInv

(* Join reads its snapshot: nothing in the session is newer. *)
LEMMA IInvJoinLock ==
  ASSUME TypeOK, IInv, NEW c \in Conn, JoinLock(c)
  PROVE  IInv'
<1>1. /\ pc[c] = "joining" /\ locked[at[c]] = Free
      /\ locked' = [locked EXCEPT ![at[c]] = c]
      /\ snap' = [snap EXCEPT ![c] = Len(log)]
      /\ pc' = [pc EXCEPT ![c] = "reading"]
      /\ UNCHANGED <<log, subs, fanned, at, cur, base, heard, inbox, event, target>>
  BY DEF JoinLock, Lock, Goto, queueVars, busVars
<1>2. /\ at[c] \in Session /\ pc'[c] = "reading" /\ snap'[c] = Len(log) /\ locked'[at[c]] = c
      /\ \A d \in Conn : d # c => pc'[d] = pc[d] /\ snap'[d] = snap[d]
  BY <1>1 DEF TypeOK, ConnTypes, SessionTypes, IInv, LockHeld
<1>3. \A d \in Conn : d # c /\ at[d] \in Session /\ locked[at[d]] = d => locked'[at[d]] = d
  BY <1>1, InstanceAssumption DEF TypeOK, SessionTypes
<1>4. LockHeld'
  BY <1>1, <1>2, <1>3 DEF IInv, LockHeld
<1>5. InFlightCommitted'
  BY <1>1, <1>2 DEF IInv, InFlightCommitted
<1>6. SnapshotCurrent'
  <2>1. base[c] <= Len(log) /\ \A n \in fanned[at[c]] : n <= Len(log)
    BY <1>2 DEF IInv, InFlightCommitted
  <2>2. Len(log) \in Nat
    BY LenProperties DEF TypeOK
  <2> QED
    BY <1>1, <1>2, <2>1, <2>2 DEF IInv, SnapshotCurrent
<1>7. SessionGapFree'
  BY <1>1 DEF IInv, SessionGapFree
<1>8. EventsCommitted'
  BY <1>1, BusQuiet
<1> QED
  BY <1>4, <1>5, <1>6, <1>7, <1>8 DEF IInv

(* Join subscribes: by SnapshotCurrent its snapshot covers the session. *)
LEMMA IInvJoinSubscribe ==
  ASSUME TypeOK, IInv, NEW c \in Conn, JoinSubscribe(c)
  PROVE  IInv'
<1>1. /\ pc[c] = "reading" /\ at[c] \in Session /\ locked[at[c]] = c
      /\ subs' = [subs EXCEPT ![at[c]] = @ \cup {c}]
      /\ locked' = [locked EXCEPT ![at[c]] = Free]
      /\ base' = [base EXCEPT ![c] = snap[c]]
      /\ pc' = [pc EXCEPT ![c] = "idle"]
      /\ at' = [at EXCEPT ![c] = 0] /\ snap' = [snap EXCEPT ![c] = 0]
      /\ UNCHANGED <<log, fanned, cur, inbox, event, target>>
  BY DEF JoinSubscribe, Unlock, Goto, Forget, busVars, IInv, LockHeld
<1>2. \A d \in Conn : heard[d] \subseteq heard'[d]
  <2>1. CASE CanSend(c)
    BY <2>1 DEF JoinSubscribe, TypeOK, QueueTypes
  <2>2. CASE ~CanSend(c)
    BY <2>2 DEF JoinSubscribe, queueVars
  <2> QED
    BY <2>1, <2>2
<1>3. /\ pc'[c] = "idle" /\ base'[c] = snap[c]
      /\ \A d \in Conn : d # c => /\ pc'[d] = pc[d] /\ snap'[d] = snap[d] /\ at'[d] = at[d]
                                  /\ base'[d] = base[d]
  BY <1>1 DEF TypeOK, ConnTypes
<1>4. \A d \in Conn : d # c /\ at[d] \in Session /\ locked[at[d]] = d => locked'[at[d]] = d
  BY <1>1 DEF TypeOK, SessionTypes
<1>5. /\ base[c] <= snap[c] /\ snap[c] <= Len(log)
      /\ \A n \in fanned[at[c]] : n <= snap[c]
  BY <1>1 DEF IInv, SnapshotCurrent
<1>6. LockHeld'
  BY <1>3, <1>4 DEF IInv, LockHeld
<1>7. InFlightCommitted'
  BY <1>1, <1>3, <1>5 DEF IInv, InFlightCommitted
<1>8. SnapshotCurrent'
  BY <1>1, <1>3 DEF IInv, SnapshotCurrent
<1>9. SessionGapFree'
  <2> SUFFICES ASSUME NEW r \in Session, NEW d \in subs'[r], NEW n \in fanned[r],
                      n > base'[d], log[n] # d
               PROVE  n \in heard'[d]
    BY <1>1 DEF SessionGapFree
  <2>1. d \in Conn /\ (d \in subs[r] \/ (d = c /\ r = at[c]))
    BY <1>1 DEF TypeOK, SessionTypes
  <2>2. n \in Nat /\ base[d] \in Nat /\ snap[c] \in Nat
    BY <2>1 DEF TypeOK, SessionTypes, ConnTypes
  <2>3. ~(d = c /\ r = at[c])
    BY <1>3, <1>5, <2>2
  <2>4. d \in subs[r] /\ n > base[d]
    BY <1>3, <1>5, <2>1, <2>2, <2>3
  <2> QED
    BY <1>2, <2>1, <2>4 DEF IInv, SessionGapFree
<1>10. EventsCommitted'
  BY <1>1, BusQuiet
<1> QED
  BY <1>6, <1>7, <1>8, <1>9, <1>10 DEF IInv

(* A commit only lengthens the log. *)
LEMMA IInvCommit ==
  ASSUME TypeOK, IInv, NEW c \in Conn, OpCommit(c)
  PROVE  IInv'
<1>1. /\ pc[c] = "locked"
      /\ log' = Append(log, c)
      /\ cur' = [cur EXCEPT ![c] = Len(log) + 1]
      /\ pc' = [pc EXCEPT ![c] = "committed"]
      /\ UNCHANGED <<subs, locked, fanned, at, snap, base, heard, inbox, event, target>>
  BY DEF OpCommit, Goto, sessionVars, queueVars, busVars
<1>2. /\ Len(log) \in Nat /\ Len(log') = Len(log) + 1 /\ log'[Len(log) + 1] = c
      /\ \A n \in 1 .. Len(log) : log'[n] = log[n]
  BY <1>1, AppendProperties, LenProperties DEF TypeOK
<1>3. /\ pc'[c] = "committed" /\ cur'[c] = Len(log) + 1
      /\ \A d \in Conn : d # c => pc'[d] = pc[d] /\ cur'[d] = cur[d]
  BY <1>1 DEF TypeOK, ConnTypes
<1>4. LockHeld'
  BY <1>1, <1>3 DEF IInv, LockHeld
<1>5. InFlightCommitted'
  <2>1. \A s \in Session : fanned[s] \subseteq 1 .. Len(log')
    BY <1>2 DEF IInv, InFlightCommitted
  <2>2. \A d \in Conn : base[d] <= Len(log')
    BY <1>2, SMTT(30) DEF IInv, InFlightCommitted, TypeOK, ConnTypes
  <2>3. \A d \in Conn : pc'[d] \in {"committed", "publish"} =>
                         cur'[d] \in 1 .. Len(log') /\ log'[cur'[d]] = d
    BY <1>2, <1>3 DEF IInv, InFlightCommitted
  <2> QED
    BY <1>1, <2>1, <2>2, <2>3 DEF InFlightCommitted
<1>6. SnapshotCurrent'
  BY <1>1, <1>2, <1>3, SMTT(30) DEF IInv, SnapshotCurrent, TypeOK, ConnTypes
<1>7. SessionGapFree'
  BY <1>1, <1>2 DEF IInv, SessionGapFree, InFlightCommitted
<1>8. EventsCommitted'
  <2>1. \A i \in Instance : Notified(i)' = Notified(i)
    BY <1>1 DEF Notified
  <2> QED
    BY <1>1, <1>2, <2>1 DEF IInv, EventsCommitted
<1> QED
  BY <1>4, <1>5, <1>6, <1>7, <1>8 DEF IInv

(* The writer of a batch fans it out, then gives the lock back. *)
LEMMA IInvOpBroadcast ==
  ASSUME TypeOK, IInv, NEW c \in Conn, OpBroadcast(c)
  PROVE  IInv'
<1>1. /\ pc[c] = "committed" /\ at[c] \in Session /\ locked[at[c]] = c
      /\ cur[c] \in 1 .. Len(log) /\ log[cur[c]] = c
      /\ Broadcast(at[c], cur[c], {c})
      /\ locked' = [locked EXCEPT ![at[c]] = Free]
      /\ pc' = [pc EXCEPT ![c] = "publish"]
      /\ at' = [at EXCEPT ![c] = 0] /\ snap' = [snap EXCEPT ![c] = 0]
      /\ UNCHANGED <<log, base, cur, inbox, event, target>>
  BY DEF OpBroadcast, Goto, Unlock, Forget, busVars, IInv, LockHeld, InFlightCommitted
<1>2. \A d \in Conn : d # c =>
        /\ pc'[d] = pc[d] /\ at'[d] = at[d] /\ snap'[d] = snap[d]
        /\ at[d] \in Session /\ locked[at[d]] = d => locked'[at[d]] = d
  BY <1>1 DEF TypeOK, ConnTypes, SessionTypes
<1>3. pc'[c] = "publish"
  BY <1>1 DEF TypeOK, ConnTypes
<1>4. ASSUME NEW d \in Conn
      PROVE  LoopQuiet(d) \/ (pc'[d] = "publish" /\ cur'[d] \in 1 .. Len(log) /\ log[cur'[d]] = d)
  BY <1>1, <1>2, <1>3 DEF LoopQuiet
<1>5. ASSUME NEW d \in Conn, pc'[d] = "reading" PROVE at[d] # at[c]
  <2>1. d # c /\ pc[d] = "reading"
    <3>1. d # c
      BY <1>3, <1>5
    <3>2. pc'[d] = pc[d]
      BY <1>1, <3>1 DEF TypeOK, ConnTypes
    <3> QED
      BY <1>5, <3>1, <3>2
  <2>2. locked[at[d]] = d
    BY <2>1 DEF IInv, LockHeld
  <2> QED
    BY <1>1, <2>1, <2>2
<1>6. EventsCommitted'
  BY <1>1, BusQuiet
<1> QED
  BY <1>1, <1>4, <1>5, <1>6, BroadcastStep

(* deliver_event runs only while nobody holds the session's lock. *)
LEMMA IInvDeliver ==
  ASSUME TypeOK, IInv, NEW i \in Instance, ListenerDeliver(i)
  PROVE  IInv'
<1>1. /\ event[i] # 0 /\ locked[target[i]] = Free
      /\ target[i] \in Session /\ event[i] \in 1 .. Len(log)
      /\ Broadcast(target[i], event[i], {})
      /\ event' = [event EXCEPT ![i] = 0]
      /\ target' = [target EXCEPT ![i] = 0]
      /\ UNCHANGED <<log, base, locked, pc, at, snap, cur, inbox>>
  BY DEF ListenerDeliver, connVars, IInv, EventsCommitted
<1>2. \A d \in Conn : LoopQuiet(d)
  BY <1>1 DEF LoopQuiet
<1>3. ASSUME NEW d \in Conn, pc'[d] = "reading" PROVE at[d] # target[i]
  <2>1. locked[at[d]] = d
    BY <1>1, <1>3 DEF IInv, LockHeld
  <2> QED
    BY <1>1, <2>1, InstanceAssumption
<1>4. EventsCommitted'
  <2>1. \A j \in Instance : /\ Notified(j)' = Notified(j)
                            /\ event'[j] # 0 => event'[j] = event[j] /\ target'[j] = target[j]
    BY <1>1 DEF Notified, TypeOK, BusTypes
  <2> QED
    BY <1>1, <2>1 DEF IInv, EventsCommitted
<1> QED
  BY <1>1, <1>2, <1>3, <1>4, BroadcastStep

(* The listener takes an event, or loses what it had not taken. *)
LEMMA IInvListen ==
  ASSUME TypeOK, IInv, NEW i \in Instance, ListenerGet(i) \/ ListenerLose(i)
  PROVE  IInv'
<1>1. /\ UNCHANGED <<log, fanned, base, heard, subs, locked, pc, at, snap, cur>>
      /\ inbox[i] \in Seq(Nat) /\ inbox[i] # << >>
  BY DEF ListenerGet, ListenerLose, sessionVars, connVars, queueVars, TypeOK, BusTypes
<1>2. \A c \in Conn : LoopQuiet(c)
  BY <1>1 DEF LoopQuiet
<1>3. \A j \in Instance : j # i => /\ inbox'[j] = inbox[j]
                                  /\ event'[j] = event[j] /\ target'[j] = target[j]
  BY DEF ListenerGet, ListenerLose, TypeOK, BusTypes
<1>4. \A j \in Instance : j # i => Notified(j)' = Notified(j)
  BY <1>3 DEF Notified
<1>5. CASE ListenerGet(i)
  <2>1. /\ Len(inbox[i]) \in Nat \ {0} /\ Head(inbox[i]) = inbox[i][1]
        /\ Len(Tail(inbox[i])) = Len(inbox[i]) - 1
        /\ \A k \in 1 .. Len(Tail(inbox[i])) : Tail(inbox[i])[k] = inbox[i][k + 1]
    BY <1>1, HeadTailProperties, EmptySeq, LenProperties
  <2>2. inbox'[i] = Tail(inbox[i])
    BY <1>5 DEF ListenerGet, TypeOK, BusTypes
  <2>3. Notified(i)' \subseteq Notified(i) /\ Head(inbox[i]) \in Notified(i)
    BY <2>1, <2>2 DEF Notified
  <2>4. event'[i] # 0 => event'[i] = Head(inbox[i]) /\ target'[i] \in Session
    BY <1>5, SessionIds, SMTT(30) DEF ListenerGet, TypeOK, BusTypes, SessionTypes
  <2>5. EventsCommitted'
    BY <1>1, <1>3, <1>4, <2>3, <2>4 DEF IInv, EventsCommitted
  <2> QED
    BY <1>1, <1>2, <2>5, QuietStep
<1>6. CASE ListenerLose(i)
  <2>1. inbox'[i] = << >> /\ event' = event /\ target' = target
    BY <1>6 DEF ListenerLose, TypeOK, BusTypes
  <2>2. Notified(i)' = {}
    <3>1. Len(inbox'[i]) = 0
      BY <2>1, EmptySeq
    <3> QED
      BY <3>1 DEF Notified
  <2>3. EventsCommitted'
    BY <1>1, <1>4, <2>1, <2>2 DEF IInv, EventsCommitted
  <2> QED
    BY <1>1, <1>2, <2>3, QuietStep
<1> QED
  BY <1>5, <1>6

(* The outbox announces a committed batch. *)
LEMMA IInvPublish ==
  ASSUME TypeOK, IInv, NEW c \in Conn, OpPublish(c)
  PROVE  IInv'
<1>1. /\ pc[c] = "publish" /\ cur[c] \in 1 .. Len(log) /\ cur[c] \in Nat
      /\ inbox' = [i \in Instance |-> IF i = InstanceOf[c] THEN inbox[i]
                                      ELSE Append(inbox[i], cur[c])]
      /\ pc' = [pc EXCEPT ![c] = "idle"] /\ cur' = [cur EXCEPT ![c] = 0]
      /\ UNCHANGED <<log, fanned, base, heard, subs, locked, at, snap, event, target>>
  BY DEF OpPublish, Goto, sessionVars, queueVars, IInv, InFlightCommitted, TypeOK, ConnTypes
<1>2. \A d \in Conn : LoopQuiet(d)
  BY <1>1 DEF LoopQuiet, TypeOK, ConnTypes
<1>3. ASSUME NEW i \in Instance PROVE Notified(i)' \subseteq 1 .. Len(log)
  <2> DEFINE q == inbox[i]
  <2>1. q \in Seq(Nat) /\ \A k \in 1 .. Len(q) : q[k] \in 1 .. Len(log)
    BY DEF TypeOK, BusTypes, IInv, EventsCommitted, Notified
  <2>2. inbox'[i] = q \/ inbox'[i] = Append(q, cur[c])
    BY <1>1
  <2> HIDE DEF q
  <2>3. /\ Len(q) \in Nat /\ Len(Append(q, cur[c])) = Len(q) + 1
        /\ Append(q, cur[c])[Len(q) + 1] = cur[c]
        /\ \A k \in 1 .. Len(q) : Append(q, cur[c])[k] = q[k]
    BY <1>1, <2>1, AppendProperties, LenProperties
  <2>4. \A k \in 1 .. Len(inbox'[i]) : inbox'[i][k] \in 1 .. Len(log)
    <3>1. CASE inbox'[i] = q
      BY <2>1, <3>1
    <3>2. CASE inbox'[i] = Append(q, cur[c])
      <4>1. ASSUME NEW k \in 1 .. (Len(q) + 1) PROVE Append(q, cur[c])[k] \in 1 .. Len(log)
        <5>1. k \in 1 .. Len(q) \/ k = Len(q) + 1
          BY <2>3
        <5> QED
          BY <1>1, <2>1, <2>3, <5>1
      <4> QED
        BY <2>3, <3>2, <4>1
    <3> QED
      BY <2>2, <3>1, <3>2
  <2> QED
    BY <2>4 DEF Notified
<1>4. EventsCommitted'
  BY <1>1, <1>3 DEF IInv, EventsCommitted
<1> QED
  BY <1>1, <1>2, <1>4, QuietStep

(* A crash closes the instance's connections and frees their locks. *)
LEMMA IInvCrash ==
  ASSUME TypeOK, IInv, NEW i \in Instance, Crash(i)
  PROVE  IInv'
<1>1. UNCHANGED <<log, fanned, base, heard>>
  BY DEF Crash, queueVars
<1>2. \A s \in Session : subs'[s] \subseteq subs[s]
  BY DEF Crash
<1>3. ASSUME NEW c \in Conn PROVE LoopQuiet(c)
  <2>1. CASE c \in Mine(i)
    BY <2>1 DEF Crash, LoopQuiet
  <2>2. CASE c \notin Mine(i)
    BY <2>2 DEF Crash, LoopQuiet
  <2> QED
    BY <2>1, <2>2
<1>4. EventsCommitted'
  <2>1. /\ inbox'[i] = << >> /\ event'[i] = 0
        /\ \A j \in Instance : j # i => /\ inbox'[j] = inbox[j]
                                        /\ event'[j] = event[j] /\ target'[j] = target[j]
    BY DEF Crash, TypeOK, BusTypes
  <2>2. Notified(i)' = {}
    <3>1. Len(inbox'[i]) = 0
      BY <2>1, EmptySeq
    <3> QED
      BY <3>1 DEF Notified
  <2>3. \A j \in Instance : j # i => Notified(j)' = Notified(j)
    BY <2>1 DEF Notified
  <2> QED
    BY <1>1, <2>1, <2>2, <2>3 DEF IInv, EventsCommitted
<1> QED
  BY <1>1, <1>2, <1>3, <1>4, QuietStep

(* Message-loop steps that fan nothing out and leave the bus alone. *)
LEMMA IInvLoop ==
  ASSUME TypeOK, IInv, NEW c \in Conn,
         \/ JoinCreate(c) \/ JoinFail(c) \/ Leave(c, "leaving") \/ Leave(c, "closing")
         \/ DropIfEmpty(c) \/ Close(c) \/ OpArrive(c) \/ OpLock(c) \/ OpNothing(c)
         \/ OpPublishFail(c) \/ Drain(c)
  PROVE  IInv'
<1> USE DEF Goto, Lock, Unlock, Forget, sessionVars, connVars, queueVars, busVars
<1>1. UNCHANGED <<log, fanned, base, heard, inbox, event, target>>
  BY DEF JoinCreate, JoinFail, Leave, DropIfEmpty, Close, OpArrive, OpLock, OpNothing,
         OpPublishFail, Drain
<1>2. \A s \in Session : subs'[s] \subseteq subs[s]
  BY DEF JoinCreate, JoinFail, Leave, DropIfEmpty, Close, OpArrive, OpLock, OpNothing,
         OpPublishFail, Drain, TypeOK, SessionTypes
<1>3. \A d \in Conn : LoopQuiet(d)
  <2>1. CASE JoinCreate(c)
    BY <2>1 DEF JoinCreate, LoopQuiet, TypeOK, ConnTypes
  <2>2. CASE JoinFail(c) \/ OpNothing(c)
    <3>1. /\ at[c] \in Session /\ locked[at[c]] = c
          /\ locked' = [locked EXCEPT ![at[c]] = Free]
          /\ pc' = [pc EXCEPT ![c] = "idle"]
          /\ at' = [at EXCEPT ![c] = 0] /\ snap' = [snap EXCEPT ![c] = 0] /\ cur' = cur
      BY <2>2 DEF JoinFail, OpNothing, IInv, LockHeld
    <3> QED
      BY <3>1 DEF LoopQuiet, TypeOK, ConnTypes, SessionTypes
  <2>3. CASE Leave(c, "leaving") \/ Leave(c, "closing") \/ DropIfEmpty(c) \/ Close(c)
    BY <2>3 DEF Leave, DropIfEmpty, Close, LoopQuiet, TypeOK, ConnTypes
  <2>4. CASE OpArrive(c)
    BY <2>4, SessionIds DEF OpArrive, LoopQuiet, TypeOK, ConnTypes
  <2>5. CASE OpLock(c)
    <3>1. /\ at[c] \in Session /\ locked[at[c]] = Free
          /\ locked' = [locked EXCEPT ![at[c]] = c]
          /\ pc' = [pc EXCEPT ![c] = "locked"]
          /\ UNCHANGED <<at, snap, cur>>
      BY <2>5 DEF OpLock, IInv, LockHeld
    <3> QED
      BY <3>1, InstanceAssumption, SMTT(30) DEF LoopQuiet, TypeOK, ConnTypes, SessionTypes
  <2>6. CASE OpPublishFail(c)
    BY <2>6 DEF OpPublishFail, LoopQuiet, TypeOK, ConnTypes
  <2>7. CASE Drain(c)
    BY <2>7 DEF Drain, LoopQuiet
  <2> QED
    BY <2>1, <2>2, <2>3, <2>4, <2>5, <2>6, <2>7
<1>4. EventsCommitted'
  BY <1>1, BusQuiet
<1> QED
  BY <1>1, <1>2, <1>3, <1>4, QuietStep

(* A presence broadcast puts no batch in a queue and evicts at most. *)
LEMMA IInvPresence ==
  ASSUME TypeOK, IInv, NEW s \in Session, PresenceSend(s) \/ \E c \in Conn : PresenceEvict(s, c)
  PROVE  IInv'
<1>1. UNCHANGED <<log, fanned, base, heard, locked, pc, at, snap, cur, inbox, event, target>>
  BY DEF PresenceSend, PresenceEvict, sessionVars, connVars, queueVars, busVars
<1>2. \A t \in Session : subs'[t] \subseteq subs[t]
  BY DEF PresenceSend, PresenceEvict, sessionVars, TypeOK, SessionTypes
<1>3. \A c \in Conn : LoopQuiet(c)
  BY <1>1 DEF LoopQuiet
<1> QED
  BY <1>1, <1>2, <1>3, BusQuiet, QuietStep

(* Every step keeps the strengthened invariant. *)
LEMMA IInvStep == TypeOK /\ IInv /\ [Next]_vars => IInv'
<1> SUFFICES ASSUME TypeOK, IInv, [Next]_vars PROVE IInv'
  OBVIOUS
<1>1. CASE UNCHANGED vars
  <2>1. UNCHANGED <<log, fanned, base, heard, subs, locked, pc, at, snap, cur, inbox, event,
                    target>>
    BY <1>1 DEF vars, sessionVars, connVars, queueVars, busVars
  <2>2. \A c \in Conn : LoopQuiet(c)
    BY <2>1 DEF LoopQuiet
  <2> QED
    BY <2>1, <2>2, BusQuiet, QuietStep
<1> QED
  BY <1>1, IInvLoop, IInvJoinLock, IInvJoinSubscribe, IInvCommit, IInvOpBroadcast, IInvPublish,
     IInvListen, IInvDeliver, IInvCrash, IInvPresence DEF Next

(* Type correctness; where a message loop is matters to it. *)
THEOREM TypeCorrect == Spec => []TypeOK
<1>1. Init => TypeOK /\ IInv
  BY TypeInit, IInvInit
<1>2. TypeOK /\ IInv /\ [Next]_vars => (TypeOK /\ IInv)'
  BY TypeStep, IInvStep
<1> QED
  BY <1>1, <1>2, PTL DEF Spec

(***************************************************************************)
(* A subscriber of a session misses no batch fanned out in it after its    *)
(* snapshot, for any number of connections and instances, under crashes,   *)
(* failed joins, evictions and losses on the bus.                          *)
(***************************************************************************)
THEOREM SessionsAreGapFree == Spec => []SessionGapFree
<1>1. Init => TypeOK /\ IInv
  BY TypeInit, IInvInit
<1>2. TypeOK /\ IInv /\ [Next]_vars => (TypeOK /\ IInv)'
  BY TypeStep, IInvStep
<1>3. IInv => SessionGapFree
  BY DEF IInv
<1> QED
  BY <1>1, <1>2, <1>3, PTL DEF Spec

-----------------------------------------------------------------------------
(***************************************************************************)
(* Across instances.  CrossInstanceGapFree is kept by every step together  *)
(* with two facts about what is not subscribed yet: what a joiner of the   *)
(* registered session will miss in the snapshot it holds is on its way to  *)
(* that session, and a session that was not created has neither            *)
(* subscribers nor joiners, so that a new one starts with nothing to lose. *)
(***************************************************************************)
ReadersCovered ==
  \A i \in Instance : \A c \in Conn :
     registered[i] # 0 /\ pc[c] = "reading" /\ at[c] = registered[i] =>
        \A n \in 1 .. Len(log) :
           InstanceOf[log[n]] # i =>
              n <= snap[c] \/ OnItsWay(n, i, registered[i]) \/ n \in lost[i]

NotYetMade ==
  /\ \A s \in Session : s > made => subs[s] = {}
  /\ \A c \in Conn : pc[c] \in {"joining", "reading"} => at[c] <= made
  /\ \A i \in Instance : registered[i] <= made

GapInv == CrossInstanceGapFree /\ ReadersCovered /\ NotYetMade

LEMMA GapInit == Init => GapInv
<1> SUFFICES ASSUME Init PROVE GapInv
  OBVIOUS
<1>1. made = 0 /\ \A i \in Instance : registered[i] = 0
  BY DEF Init
<1>2. \A c \in Conn : pc[c] = "idle"
  BY DEF Init
<1>3. \A s \in Session : subs[s] = {}
  BY DEF Init
<1> QED
  BY <1>1, <1>2, <1>3 DEF GapInv, CrossInstanceGapFree, ReadersCovered, NotYetMade

(* What may become of a batch that was on its way to i's session. *)
Arrives(n, i) ==
  \/ OnItsWay(n, i, registered[i])' \/ n \in lost'[i]
  \/ /\ \A c \in subs'[registered[i]] : n \in heard'[c]
     /\ \A c \in Conn : ~(pc'[c] = "reading" /\ at'[c] = registered[i])

(***************************************************************************)
(* A step that commits, creates and subscribes nothing keeps GapInv when   *)
(* it drops no batch that was on its way without saying so.                *)
(***************************************************************************)
LEMMA GapStep ==
  ASSUME TypeOK, GapInv, UNCHANGED <<log, made, base>>,
         \A i \in Instance : registered'[i] \in {0, registered[i]} /\ lost[i] \subseteq lost'[i],
         \A s \in Session : subs'[s] \subseteq subs[s],
         \A c \in Conn : heard[c] \subseteq heard'[c],
         \A c \in Conn : pc'[c] \in {"joining", "reading"} =>
                           pc'[c] = pc[c] /\ at'[c] = at[c] /\ snap'[c] = snap[c],
         \A i \in Instance : \A n \in 1 .. Len(log) :
            registered'[i] # 0 /\ InstanceOf[log[n]] # i /\ OnItsWay(n, i, registered[i])
              => Arrives(n, i)
  PROVE  GapInv'
<1>1. CrossInstanceGapFree'
  <2> SUFFICES ASSUME NEW i \in Instance, registered'[i] # 0, NEW c \in subs'[registered'[i]],
                      NEW n \in 1 .. Len(log), InstanceOf[log[n]] # i
               PROVE  \/ n <= base[c] \/ n \in heard'[c]
                      \/ OnItsWay(n, i, registered[i])' \/ n \in lost'[i]
    BY DEF CrossInstanceGapFree
  <2>1. registered'[i] = registered[i] /\ registered[i] \in Session
    BY SessionIds DEF TypeOK, SessionTypes
  <2>2. c \in subs[registered[i]] /\ c \in Conn /\ c \in subs'[registered[i]]
    BY <2>1 DEF TypeOK, SessionTypes
  <2>3. \/ n <= base[c] \/ n \in heard[c]
        \/ OnItsWay(n, i, registered[i]) \/ n \in lost[i]
    BY <2>1, <2>2 DEF GapInv, CrossInstanceGapFree
  <2> QED
    BY <2>2, <2>3 DEF Arrives
<1>2. ReadersCovered'
  <2> SUFFICES ASSUME NEW i \in Instance, NEW c \in Conn, registered'[i] # 0,
                      pc'[c] = "reading", at'[c] = registered'[i],
                      NEW n \in 1 .. Len(log), InstanceOf[log[n]] # i
               PROVE  n <= snap'[c] \/ OnItsWay(n, i, registered[i])' \/ n \in lost'[i]
    BY DEF ReadersCovered
  <2>1. registered'[i] = registered[i]
    OBVIOUS
  <2>2. pc[c] = "reading" /\ at[c] = registered[i] /\ snap'[c] = snap[c]
    BY <2>1
  <2>3. n <= snap[c] \/ OnItsWay(n, i, registered[i]) \/ n \in lost[i]
    BY <2>1, <2>2 DEF GapInv, ReadersCovered
  <2>4. ~(\A d \in Conn : ~(pc'[d] = "reading" /\ at'[d] = registered[i]))
    BY <2>1
  <2> QED
    BY <2>2, <2>3, <2>4 DEF Arrives
<1>3. NotYetMade'
  BY DEF GapInv, NotYetMade, TypeOK, SessionTypes
<1> QED
  BY <1>1, <1>2, <1>3 DEF GapInv

(* Nothing on the bus or in flight changes. *)
LEMMA StaysOnItsWay ==
  ASSUME TypeOK, UNCHANGED <<log, inbox, event, target>>,
         \A c \in Conn : pc[c] \in {"committed", "publish"} =>
                           pc'[c] \in {"committed", "publish"} /\ cur'[c] = cur[c],
         NEW i \in Instance, NEW n \in 1 .. Len(log), registered'[i] = registered[i],
         OnItsWay(n, i, registered[i])
  PROVE  OnItsWay(n, i, registered[i])'
<1>1. log[n] \in Conn
  BY ElementOfSeq DEF TypeOK
<1> QED
  BY <1>1 DEF OnItsWay, Notified

(* The message-loop steps that only move the loop, or evict. *)
LEMMA GapLoop ==
  ASSUME TypeOK, IInv, GapInv, NEW c \in Conn,
         \/ JoinFail(c) \/ Leave(c, "leaving") \/ Leave(c, "closing")
         \/ DropIfEmpty(c) \/ Close(c) \/ OpArrive(c) \/ OpLock(c) \/ OpNothing(c) \/ Drain(c)
  PROVE  GapInv'
<1> USE DEF Goto, Lock, Unlock, Forget, sessionVars, connVars, queueVars, busVars
<1>1. UNCHANGED <<log, made, base, heard, inbox, event, target, lost>>
  BY DEF JoinFail, Leave, DropIfEmpty, Close, OpArrive, OpLock, OpNothing, Drain
<1>2. \A i \in Instance : registered'[i] \in {0, registered[i]}
  BY DEF JoinFail, Leave, DropIfEmpty, Close, OpArrive, OpLock, OpNothing, Drain,
         TypeOK, SessionTypes
<1>3. \A s \in Session : subs'[s] \subseteq subs[s]
  BY DEF JoinFail, Leave, DropIfEmpty, Close, OpArrive, OpLock, OpNothing, Drain,
         TypeOK, SessionTypes
<1>4. /\ pc[c] \notin {"committed", "publish"} \/ pc' = pc
      /\ cur' = cur
      /\ pc'[c] \notin {"joining", "reading"} \/ (pc' = pc /\ at' = at /\ snap' = snap)
      /\ \A d \in Conn : d # c => pc'[d] = pc[d] /\ at'[d] = at[d] /\ snap'[d] = snap[d]
  <2>1. CASE JoinFail(c)
    BY <2>1 DEF JoinFail, TypeOK, ConnTypes
  <2>2. CASE Leave(c, "leaving")
    BY <2>2 DEF Leave, TypeOK, ConnTypes
  <2>3. CASE Leave(c, "closing")
    BY <2>3 DEF Leave, TypeOK, ConnTypes
  <2>4. CASE DropIfEmpty(c)
    BY <2>4 DEF DropIfEmpty, TypeOK, ConnTypes
  <2>5. CASE Close(c)
    BY <2>5 DEF Close, TypeOK, ConnTypes
  <2>6. CASE OpArrive(c)
    BY <2>6 DEF OpArrive, TypeOK, ConnTypes
  <2>7. CASE OpLock(c)
    BY <2>7 DEF OpLock, TypeOK, ConnTypes
  <2>8. CASE OpNothing(c)
    BY <2>8 DEF OpNothing, TypeOK, ConnTypes
  <2>9. CASE Drain(c)
    BY <2>9 DEF Drain
  <2> QED
    BY <2>1, <2>2, <2>3, <2>4, <2>5, <2>6, <2>7, <2>8, <2>9
<1>5. ASSUME NEW i \in Instance, NEW n \in 1 .. Len(log), registered'[i] # 0,
             OnItsWay(n, i, registered[i])
      PROVE  Arrives(n, i)
  <2>1. registered'[i] = registered[i]
    BY <1>2, <1>5
  <2> QED
    BY <1>1, <1>4, <1>5, <2>1, StaysOnItsWay DEF Arrives
<1>6. \A d \in Conn : pc'[d] \in {"joining", "reading"} =>
                        pc'[d] = pc[d] /\ at'[d] = at[d] /\ snap'[d] = snap[d]
  BY <1>4
<1> QED
  BY <1>1, <1>2, <1>3, <1>5, <1>6, GapStep

(* A presence broadcast, and a step that changes nothing. *)
LEMMA GapPresence ==
  ASSUME TypeOK, GapInv,
         \/ \E s \in Session : PresenceSend(s) \/ \E c \in Conn : PresenceEvict(s, c)
         \/ UNCHANGED vars
  PROVE  GapInv'
<1>1. UNCHANGED <<log, made, base, heard, registered, pc, at, snap, cur, inbox, event, target, lost>>
  BY DEF PresenceSend, PresenceEvict, vars, sessionVars, connVars, queueVars, busVars
<1>2. \A t \in Session : subs'[t] \subseteq subs[t]
  BY DEF PresenceSend, PresenceEvict, vars, sessionVars, TypeOK, SessionTypes
<1>3. \A i \in Instance : \A n \in 1 .. Len(log) :
         OnItsWay(n, i, registered[i]) => Arrives(n, i)
  BY <1>1, StaysOnItsWay DEF Arrives
<1> QED
  BY <1>1, <1>2, <1>3, GapStep

(* A new session: the registry had none, and nobody is in it. *)
LEMMA GapJoinCreate ==
  ASSUME TypeOK, IInv, GapInv, NEW c \in Conn, JoinCreate(c)
  PROVE  GapInv'
<1> DEFINE i == InstanceOf[c]
           s == IF registered[i] = 0 THEN made + 1 ELSE registered[i]
<1>1. /\ i \in Instance /\ s \in Session /\ pc[c] = "idle"
      /\ made' = IF registered[i] = 0 THEN s ELSE made
      /\ registered' = [registered EXCEPT ![i] = s]
      /\ at' = [at EXCEPT ![c] = s]
      /\ pc' = [pc EXCEPT ![c] = "joining"]
      /\ UNCHANGED <<log, subs, snap, cur, base, heard, inbox, event, target, lost>>
  BY InstanceAssumption DEF JoinCreate, Goto, queueVars, busVars
<1>2. registered[i] = 0 => s = made + 1 /\ subs[s] = {}
  BY <1>1 DEF GapInv, NotYetMade, TypeOK, SessionTypes, Session
<1>3. registered[i] # 0 => s = registered[i]
  OBVIOUS
<1> HIDE DEF s, i
<1>4. /\ pc'[c] = "joining" /\ at'[c] = s /\ registered'[i] = s
      /\ \A d \in Conn : d # c => pc'[d] = pc[d] /\ at'[d] = at[d]
      /\ \A j \in Instance : j # i => registered'[j] = registered[j]
  BY <1>1 DEF TypeOK, ConnTypes, SessionTypes
<1>5. \A j \in Instance : \A n \in 1 .. Len(log) :
         registered'[j] = registered[j] =>
           (OnItsWay(n, j, registered[j]) => OnItsWay(n, j, registered[j])')
  <2>1. \A d \in Conn : pc[d] \in {"committed", "publish"} =>
                          pc'[d] \in {"committed", "publish"} /\ cur'[d] = cur[d]
    BY <1>1, <1>4
  <2> QED
    BY <1>1, <2>1, StaysOnItsWay
<1>6. \A d \in Conn : d # c /\ registered[i] = 0 /\ pc[d] = "reading" => at[d] # s
  BY <1>1, <1>2 DEF GapInv, NotYetMade, TypeOK, SessionTypes, ConnTypes
<1>7. CrossInstanceGapFree'
  <2> SUFFICES ASSUME NEW j \in Instance, registered'[j] # 0, NEW d \in subs[registered'[j]],
                      NEW n \in 1 .. Len(log), InstanceOf[log[n]] # j
               PROVE  \/ n <= base[d] \/ n \in heard[d]
                      \/ OnItsWay(n, j, registered[j])' \/ n \in lost[j]
    BY <1>1 DEF CrossInstanceGapFree
  <2>1. registered'[j] = registered[j]
    BY <1>2, <1>3, <1>4
  <2> QED
    BY <1>5, <2>1 DEF GapInv, CrossInstanceGapFree
<1>8. ReadersCovered'
  <2> SUFFICES ASSUME NEW j \in Instance, NEW d \in Conn, registered'[j] # 0,
                      pc'[d] = "reading", at'[d] = registered'[j],
                      NEW n \in 1 .. Len(log), InstanceOf[log[n]] # j
               PROVE  n <= snap[d] \/ OnItsWay(n, j, registered[j])' \/ n \in lost[j]
    BY <1>1 DEF ReadersCovered
  <2>1. d # c /\ pc[d] = "reading" /\ at[d] = registered'[j]
    BY <1>4
  <2>2. registered'[j] = registered[j]
    BY <1>3, <1>4, <1>6, <2>1
  <2> QED
    BY <1>5, <2>1, <2>2 DEF GapInv, ReadersCovered
<1>9. NotYetMade'
  <2>1. made \in Nat /\ made' \in Nat /\ made <= made' /\ (registered[i] = 0 => made' = s)
    BY <1>1, <1>2 DEF TypeOK, SessionTypes, Session
  <2>2. \A r \in Session : r > made' => subs'[r] = {}
    BY <1>1, <2>1 DEF GapInv, NotYetMade, Session
  <2>3. s <= made'
    <3>1. CASE registered[i] = 0
      BY <1>1, <2>1, <3>1
    <3>2. CASE registered[i] # 0
      BY <1>1, <1>3, <3>2, <2>1 DEF GapInv, NotYetMade
    <3> QED
      BY <3>1, <3>2
  <2>4. \A d \in Conn : pc'[d] \in {"joining", "reading"} => at'[d] <= made'
    <3> SUFFICES ASSUME NEW d \in Conn, d # c, pc[d] \in {"joining", "reading"}
                 PROVE  at[d] <= made'
      BY <1>4, <2>3
    <3>1. at[d] \in Nat /\ at[d] <= made
      BY DEF GapInv, NotYetMade, TypeOK, ConnTypes
    <3> QED
      BY <2>1, <3>1
  <2>5. \A j \in Instance : registered'[j] <= made'
    BY <1>4, <2>1, <2>3, SMTT(30) DEF GapInv, NotYetMade, TypeOK, SessionTypes
  <2> QED
    BY <2>2, <2>4, <2>5 DEF NotYetMade
<1> QED
  BY <1>7, <1>8, <1>9 DEF GapInv

(* The snapshot a joiner reads holds every batch committed so far. *)
LEMMA GapJoinLock ==
  ASSUME TypeOK, IInv, GapInv, NEW c \in Conn, JoinLock(c)
  PROVE  GapInv'
<1>1. /\ pc[c] = "joining"
      /\ snap' = [snap EXCEPT ![c] = Len(log)]
      /\ pc' = [pc EXCEPT ![c] = "reading"]
      /\ UNCHANGED <<log, made, registered, subs, at, cur, base, heard, inbox, event, target, lost>>
  BY DEF JoinLock, Goto, queueVars, busVars
<1>2. /\ pc'[c] = "reading" /\ snap'[c] = Len(log)
      /\ \A d \in Conn : d # c => pc'[d] = pc[d] /\ snap'[d] = snap[d]
  BY <1>1 DEF TypeOK, ConnTypes
<1>3. \A i \in Instance : \A n \in 1 .. Len(log) :
         OnItsWay(n, i, registered[i]) => OnItsWay(n, i, registered[i])'
  <2>1. \A d \in Conn : pc[d] \in {"committed", "publish"} =>
                          pc'[d] \in {"committed", "publish"} /\ cur'[d] = cur[d]
    BY <1>1, <1>2
  <2> QED
    BY <1>1, <2>1, StaysOnItsWay
<1>4. CrossInstanceGapFree'
  BY <1>1, <1>3 DEF GapInv, CrossInstanceGapFree
<1>5. ReadersCovered'
  <2> SUFFICES ASSUME NEW i \in Instance, NEW d \in Conn, registered[i] # 0,
                      pc'[d] = "reading", at[d] = registered[i],
                      NEW n \in 1 .. Len(log), InstanceOf[log[n]] # i
               PROVE  n <= snap'[d] \/ OnItsWay(n, i, registered[i])' \/ n \in lost[i]
    BY <1>1 DEF ReadersCovered
  <2>1. CASE d = c
    BY <1>2, <2>1
  <2>2. CASE d # c
    BY <1>2, <1>3, <2>2 DEF GapInv, ReadersCovered
  <2> QED
    BY <2>1, <2>2
<1>6. NotYetMade'
  BY <1>1, <1>2 DEF GapInv, NotYetMade
<1> QED
  BY <1>4, <1>5, <1>6 DEF GapInv

(* Subscribing: what the snapshot lacks was covered while it was read. *)
LEMMA GapJoinSubscribe ==
  ASSUME TypeOK, IInv, GapInv, NEW c \in Conn, JoinSubscribe(c)
  PROVE  GapInv'
<1>1. /\ pc[c] = "reading" /\ at[c] \in Session
      /\ subs' = [subs EXCEPT ![at[c]] = @ \cup {c}]
      /\ base' = [base EXCEPT ![c] = snap[c]]
      /\ pc' = [pc EXCEPT ![c] = "idle"]
      /\ at' = [at EXCEPT ![c] = 0] /\ snap' = [snap EXCEPT ![c] = 0]
      /\ UNCHANGED <<log, made, registered, cur, inbox, event, target, lost>>
  BY DEF JoinSubscribe, Goto, Forget, busVars, IInv, LockHeld
<1>2. \A d \in Conn : heard[d] \subseteq heard'[d]
  <2>1. CASE CanSend(c)
    BY <2>1 DEF JoinSubscribe, TypeOK, QueueTypes
  <2>2. CASE ~CanSend(c)
    BY <2>2 DEF JoinSubscribe, queueVars
  <2> QED
    BY <2>1, <2>2
<1>3. /\ pc'[c] = "idle" /\ base'[c] = snap[c] /\ base[c] <= snap[c]
      /\ \A d \in Conn : d # c => /\ pc'[d] = pc[d] /\ snap'[d] = snap[d] /\ at'[d] = at[d]
                                  /\ base'[d] = base[d]
  BY <1>1 DEF TypeOK, ConnTypes, IInv, SnapshotCurrent
<1>4. \A i \in Instance : \A n \in 1 .. Len(log) :
         OnItsWay(n, i, registered[i]) => OnItsWay(n, i, registered[i])'
  <2>1. \A d \in Conn : pc[d] \in {"committed", "publish"} =>
                          pc'[d] \in {"committed", "publish"} /\ cur'[d] = cur[d]
    BY <1>1, <1>3
  <2> QED
    BY <1>1, <2>1, StaysOnItsWay
<1>5. CrossInstanceGapFree'
  <2> SUFFICES ASSUME NEW i \in Instance, registered[i] # 0, NEW d \in subs'[registered[i]],
                      NEW n \in 1 .. Len(log), InstanceOf[log[n]] # i
               PROVE  \/ n <= base'[d] \/ n \in heard'[d]
                      \/ OnItsWay(n, i, registered[i])' \/ n \in lost[i]
    BY <1>1 DEF CrossInstanceGapFree
  <2>1. /\ d \in Conn
        /\ d \in subs[registered[i]] \/ (d = c /\ registered[i] = at[c])
    BY <1>1, SessionIds DEF TypeOK, SessionTypes
  <2>2. CASE d \in subs[registered[i]]
    <3>1. \/ n <= base[d] \/ n \in heard[d]
          \/ OnItsWay(n, i, registered[i]) \/ n \in lost[i]
      BY <2>2 DEF GapInv, CrossInstanceGapFree
    <3>2. n <= base[d] => n <= base'[d]
      <4>1. base[d] \in Nat /\ snap[c] \in Nat
        BY <2>1 DEF TypeOK, ConnTypes
      <4>2. CASE d = c
        BY <1>3, <4>1, <4>2
      <4>3. CASE d # c
        BY <1>3, <2>1, <4>3
      <4> QED
        BY <4>2, <4>3
    <3> QED
      BY <1>2, <1>4, <2>1, <3>1, <3>2
  <2>3. CASE d = c /\ registered[i] = at[c]
    <3>1. n <= snap[c] \/ OnItsWay(n, i, registered[i]) \/ n \in lost[i]
      BY <1>1, <2>3 DEF GapInv, ReadersCovered
    <3> QED
      BY <1>3, <1>4, <2>3, <3>1
  <2> QED
    BY <2>1, <2>2, <2>3
<1>6. ReadersCovered'
  <2> SUFFICES ASSUME NEW i \in Instance, NEW d \in Conn, registered[i] # 0,
                      pc'[d] = "reading", at'[d] = registered[i],
                      NEW n \in 1 .. Len(log), InstanceOf[log[n]] # i
               PROVE  n <= snap'[d] \/ OnItsWay(n, i, registered[i])' \/ n \in lost[i]
    BY <1>1 DEF ReadersCovered
  <2>1. d # c
    BY <1>3
  <2> QED
    BY <1>3, <1>4, <2>1 DEF GapInv, ReadersCovered
<1>7. NotYetMade'
  <2>1. ASSUME NEW r \in Session, r > made' PROVE subs'[r] = {}
    <3>1. at[c] <= made
      BY <1>1 DEF GapInv, NotYetMade
    <3>2. r # at[c]
      BY <1>1, <2>1, <3>1 DEF Session, TypeOK, SessionTypes
    <3> QED
      BY <1>1, <2>1, <3>2 DEF GapInv, NotYetMade, TypeOK, SessionTypes
  <2> QED
    BY <1>1, <1>3, <2>1 DEF GapInv, NotYetMade
<1> QED
  BY <1>5, <1>6, <1>7 DEF GapInv

(* A commit: the new batch is in its writer's hands. *)
LEMMA GapCommit ==
  ASSUME TypeOK, IInv, GapInv, NEW c \in Conn, OpCommit(c)
  PROVE  GapInv'
<1>1. /\ pc[c] = "locked"
      /\ log' = Append(log, c)
      /\ cur' = [cur EXCEPT ![c] = Len(log) + 1]
      /\ pc' = [pc EXCEPT ![c] = "committed"]
      /\ UNCHANGED <<made, registered, subs, at, snap, base, heard, inbox, event, target, lost>>
  BY DEF OpCommit, Goto, sessionVars, queueVars, busVars
<1>2. /\ Len(log) \in Nat /\ Len(log') = Len(log) + 1 /\ log'[Len(log) + 1] = c
      /\ \A n \in 1 .. Len(log) : log'[n] = log[n] /\ log[n] \in Conn
  BY <1>1, AppendProperties, LenProperties DEF TypeOK
<1>3. /\ pc'[c] = "committed" /\ cur'[c] = Len(log) + 1
      /\ \A d \in Conn : d # c => pc'[d] = pc[d] /\ cur'[d] = cur[d]
  BY <1>1 DEF TypeOK, ConnTypes
<1>4. \A i \in Instance : \A n \in 1 .. Len(log) :
         OnItsWay(n, i, registered[i]) => OnItsWay(n, i, registered[i])'
  BY <1>1, <1>2, <1>3 DEF OnItsWay, Notified
<1>5. ASSUME NEW i \in Instance, NEW n \in 1 .. Len(log'), n = Len(log) + 1
      PROVE  OnItsWay(n, i, registered[i])'
  <2>1. pc'[log'[n]] = "committed" /\ cur'[log'[n]] = n
    BY <1>2, <1>3, <1>5
  <2> QED
    BY <2>1 DEF OnItsWay
<1>6. \A n \in 1 .. Len(log') : n = Len(log) + 1 \/ n \in 1 .. Len(log)
  BY <1>2
<1>7. CrossInstanceGapFree'
  <2> SUFFICES ASSUME NEW i \in Instance, registered[i] # 0, NEW d \in subs[registered[i]],
                      NEW n \in 1 .. Len(log'), InstanceOf[log'[n]] # i
               PROVE  \/ n <= base[d] \/ n \in heard[d]
                      \/ OnItsWay(n, i, registered[i])' \/ n \in lost[i]
    BY <1>1 DEF CrossInstanceGapFree
  <2>1. CASE n = Len(log) + 1
    BY <1>5, <2>1
  <2>2. CASE n \in 1 .. Len(log)
    BY <1>2, <1>4, <2>2 DEF GapInv, CrossInstanceGapFree
  <2> QED
    BY <1>6, <2>1, <2>2
<1>8. ReadersCovered'
  <2> SUFFICES ASSUME NEW i \in Instance, NEW d \in Conn, registered[i] # 0,
                      pc'[d] = "reading", at[d] = registered[i],
                      NEW n \in 1 .. Len(log'), InstanceOf[log'[n]] # i
               PROVE  n <= snap[d] \/ OnItsWay(n, i, registered[i])' \/ n \in lost[i]
    BY <1>1 DEF ReadersCovered
  <2>1. CASE n = Len(log) + 1
    BY <1>5, <2>1
  <2>2. CASE n \in 1 .. Len(log)
    <3>1. pc[d] = "reading"
      BY <1>3
    <3> QED
      BY <1>2, <1>4, <2>2, <3>1 DEF GapInv, ReadersCovered
  <2> QED
    BY <1>6, <2>1, <2>2
<1>9. NotYetMade'
  BY <1>1, <1>3 DEF GapInv, NotYetMade
<1> QED
  BY <1>7, <1>8, <1>9 DEF GapInv

(* Broadcasting evicts at most, and reaches who stays and is not skipped. *)
LEMMA BroadcastShape ==
  ASSUME TypeOK, NEW s \in Session, NEW n \in Nat, NEW skip, Broadcast(s, n, skip)
  PROVE  /\ \A r \in Session : subs'[r] \subseteq subs[r]
         /\ \A c \in Conn : heard[c] \subseteq heard'[c]
         /\ \A c \in subs'[s] : c \notin skip => n \in heard'[c]
<1> DEFINE reached == {c \in subs[s] \ skip : CanSend(c)}
<1>1. /\ subs' = [subs EXCEPT ![s] = reached \cup (@ \cap skip)]
      /\ heard' = [c \in Conn |-> IF c \in reached THEN heard[c] \cup {n} ELSE heard[c]]
  BY DEF Broadcast
<1>2. reached \subseteq subs[s] /\ reached \subseteq Conn
  BY DEF TypeOK, SessionTypes
<1> HIDE DEF reached
<1>3. /\ subs'[s] = reached \cup (subs[s] \cap skip)
      /\ \A r \in Session : r # s => subs'[r] = subs[r]
  BY <1>1 DEF TypeOK, SessionTypes
<1> QED
  BY <1>1, <1>2, <1>3

(* The writer's fan-out: the batch stays in its hands until published. *)
LEMMA GapOpBroadcast ==
  ASSUME TypeOK, IInv, GapInv, NEW c \in Conn, OpBroadcast(c)
  PROVE  GapInv'
<1>1. /\ pc[c] = "committed" /\ at[c] \in Session /\ cur[c] \in Nat
      /\ Broadcast(at[c], cur[c], {c})
      /\ pc' = [pc EXCEPT ![c] = "publish"]
      /\ at' = [at EXCEPT ![c] = 0] /\ snap' = [snap EXCEPT ![c] = 0]
      /\ UNCHANGED <<log, made, registered, base, cur, inbox, event, target, lost>>
  BY DEF OpBroadcast, Goto, Unlock, Forget, busVars, IInv, LockHeld, TypeOK, ConnTypes
<1>2. /\ pc'[c] = "publish"
      /\ \A d \in Conn : d # c => pc'[d] = pc[d] /\ at'[d] = at[d] /\ snap'[d] = snap[d]
  BY <1>1 DEF TypeOK, ConnTypes
<1>3. /\ \A s \in Session : subs'[s] \subseteq subs[s]
      /\ \A d \in Conn : heard[d] \subseteq heard'[d]
  BY <1>1, BroadcastShape
<1>4. \A i \in Instance : \A n \in 1 .. Len(log) :
         OnItsWay(n, i, registered[i]) => Arrives(n, i)
  <2>1. \A d \in Conn : pc[d] \in {"committed", "publish"} =>
                          pc'[d] \in {"committed", "publish"} /\ cur'[d] = cur[d]
    BY <1>1, <1>2
  <2> QED
    BY <1>1, <2>1, StaysOnItsWay DEF Arrives
<1>5. \A d \in Conn : pc'[d] \in {"joining", "reading"} =>
                        pc'[d] = pc[d] /\ at'[d] = at[d] /\ snap'[d] = snap[d]
  BY <1>2
<1> QED
  BY <1>1, <1>3, <1>4, <1>5, GapStep

(* Publishing hands the batch to every other instance, or loses it there. *)
LEMMA GapPublish ==
  ASSUME TypeOK, IInv, GapInv, NEW c \in Conn, OpPublish(c) \/ OpPublishFail(c)
  PROVE  GapInv'
<1>1. /\ pc[c] = "publish" /\ cur[c] \in Nat
      /\ pc' = [pc EXCEPT ![c] = "idle"] /\ cur' = [cur EXCEPT ![c] = 0]
      /\ UNCHANGED <<log, made, registered, subs, base, heard, at, snap, event, target>>
  BY DEF OpPublish, OpPublishFail, Goto, sessionVars, queueVars, TypeOK, ConnTypes
<1>2. /\ pc'[c] = "idle"
      /\ \A d \in Conn : d # c => pc'[d] = pc[d] /\ cur'[d] = cur[d]
  BY <1>1 DEF TypeOK, ConnTypes
<1>3. \A i \in Instance : lost[i] \subseteq lost'[i]
  BY DEF OpPublish, OpPublishFail
<1>4. ASSUME NEW i \in Instance
      PROVE  /\ Notified(i) \subseteq Notified(i)'
             /\ i # InstanceOf[c] => cur[c] \in Notified(i)' \cup lost'[i]
  <2>1. inbox[i] \in Seq(Nat)
    BY DEF TypeOK, BusTypes
  <2>2. /\ Len(inbox[i]) \in Nat /\ Len(Append(inbox[i], cur[c])) = Len(inbox[i]) + 1
        /\ Append(inbox[i], cur[c])[Len(inbox[i]) + 1] = cur[c]
        /\ \A k \in 1 .. Len(inbox[i]) : Append(inbox[i], cur[c])[k] = inbox[i][k]
    BY <1>1, <2>1, AppendProperties, LenProperties
  <2>3. CASE OpPublish(c) /\ i # InstanceOf[c]
    <3>1. inbox'[i] = Append(inbox[i], cur[c])
      BY <2>3 DEF OpPublish
    <3> QED
      BY <2>2, <3>1 DEF Notified
  <2>4. CASE OpPublish(c) /\ i = InstanceOf[c]
    <3>1. inbox'[i] = inbox[i]
      BY <2>4 DEF OpPublish
    <3> QED
      BY <2>4, <3>1 DEF Notified
  <2>5. CASE OpPublishFail(c)
    <3>1. inbox' = inbox /\ (i # InstanceOf[c] => cur[c] \in lost'[i])
      BY <2>5 DEF OpPublishFail
    <3> QED
      BY <3>1 DEF Notified
  <2> QED
    BY <2>3, <2>4, <2>5
<1>5. ASSUME NEW i \in Instance, NEW n \in 1 .. Len(log), InstanceOf[log[n]] # i,
             OnItsWay(n, i, registered[i])
      PROVE  Arrives(n, i)
  <2>1. log[n] \in Conn
    BY ElementOfSeq DEF TypeOK
  <2>2. CASE pc[log[n]] \in {"committed", "publish"} /\ cur[log[n]] = n
    <3>1. CASE log[n] = c
      <4>1. n \in Notified(i)' \cup lost'[i]
        BY <1>4, <1>5, <2>2, <3>1
      <4> QED
        BY <4>1 DEF Arrives, OnItsWay
    <3>2. CASE log[n] # c
      BY <1>1, <1>2, <2>1, <2>2, <3>2 DEF Arrives, OnItsWay
    <3> QED
      BY <3>1, <3>2
  <2>3. CASE n \in Notified(i)
    BY <1>4, <2>3 DEF Arrives, OnItsWay
  <2>4. CASE event[i] = n /\ target[i] = registered[i]
    BY <1>1, <2>4 DEF Arrives, OnItsWay
  <2> QED
    BY <1>5, <2>2, <2>3, <2>4 DEF OnItsWay
<1>6. \A d \in Conn : pc'[d] \in {"joining", "reading"} =>
                        pc'[d] = pc[d] /\ at'[d] = at[d] /\ snap'[d] = snap[d]
  BY <1>1, <1>2
<1> QED
  BY <1>1, <1>3, <1>5, <1>6, GapStep

(* The listener takes the oldest notification for the session it finds. *)
LEMMA GapGet ==
  ASSUME TypeOK, IInv, GapInv, NEW i \in Instance, ListenerGet(i)
  PROVE  GapInv'
<1>1. /\ UNCHANGED <<log, made, base, heard, subs, registered, lost, pc, at, snap, cur>>
      /\ inbox[i] \in Seq(Nat) /\ inbox[i] # << >> /\ event[i] = 0
  BY DEF ListenerGet, sessionVars, connVars, queueVars, TypeOK, BusTypes
<1>2. /\ inbox'[i] = Tail(inbox[i])
      /\ registered[i] # 0 => event'[i] = Head(inbox[i]) /\ target'[i] = registered[i]
  BY DEF ListenerGet, TypeOK, BusTypes
<1>3. \A j \in Instance : j # i => /\ inbox'[j] = inbox[j]
                                  /\ event'[j] = event[j] /\ target'[j] = target[j]
  BY DEF ListenerGet, TypeOK, BusTypes
<1>4. \A n \in Notified(i) : n = Head(inbox[i]) \/ n \in Notified(i)'
  <2>1. /\ Len(inbox[i]) \in Nat \ {0} /\ Head(inbox[i]) = inbox[i][1]
        /\ Len(Tail(inbox[i])) = Len(inbox[i]) - 1
        /\ \A k \in 1 .. Len(Tail(inbox[i])) : Tail(inbox[i])[k] = inbox[i][k + 1]
    BY <1>1, HeadTailProperties, EmptySeq, LenProperties
  <2> SUFFICES ASSUME NEW k \in 1 .. Len(inbox[i]), k # 1
               PROVE  inbox[i][k] \in Notified(i)'
    BY <2>1 DEF Notified
  <2>2. k - 1 \in 1 .. Len(Tail(inbox[i])) /\ Tail(inbox[i])[k - 1] = inbox[i][k]
    BY <2>1
  <2> QED
    BY <1>2, <2>2 DEF Notified
<1>5. ASSUME NEW j \in Instance, NEW n \in 1 .. Len(log), registered'[j] # 0,
             OnItsWay(n, j, registered[j])
      PROVE  OnItsWay(n, j, registered[j])'
  <2>1. CASE j = i
    <3>1. event[i] # n
      BY <1>1
    <3> QED
      BY <1>1, <1>2, <1>4, <1>5, <2>1, <3>1 DEF OnItsWay
  <2>2. CASE j # i
    BY <1>1, <1>3, <1>5, <2>2 DEF OnItsWay, Notified
  <2> QED
    BY <2>1, <2>2
<1> QED
  BY <1>1, <1>5, GapStep DEF Arrives

(***************************************************************************)
(* Delivering queues the batch to whoever stays subscribed, and the        *)
(* apply_lock is free: no joiner of that session holds a snapshot.         *)
(***************************************************************************)
LEMMA GapDeliver ==
  ASSUME TypeOK, IInv, GapInv, NEW i \in Instance, ListenerDeliver(i)
  PROVE  GapInv'
<1>1. /\ locked[target[i]] = Free /\ target[i] \in Session /\ event[i] \in Nat
      /\ Broadcast(target[i], event[i], {})
      /\ event' = [event EXCEPT ![i] = 0]
      /\ target' = [target EXCEPT ![i] = 0]
      /\ UNCHANGED <<log, made, registered, base, pc, at, snap, cur, inbox, lost>>
  BY DEF ListenerDeliver, connVars, IInv, EventsCommitted, TypeOK, BusTypes
<1>2. /\ \A s \in Session : subs'[s] \subseteq subs[s]
      /\ \A d \in Conn : heard[d] \subseteq heard'[d]
      /\ \A d \in subs'[target[i]] : event[i] \in heard'[d]
  BY <1>1, BroadcastShape
<1>3. ASSUME NEW d \in Conn, pc[d] = "reading" PROVE at[d] # target[i]
  <2>1. locked[at[d]] = d
    BY <1>3 DEF IInv, LockHeld
  <2> QED
    BY <1>1, <2>1, InstanceAssumption
<1>4. ASSUME NEW j \in Instance, NEW n \in 1 .. Len(log), OnItsWay(n, j, registered[j])
      PROVE  Arrives(n, j)
  <2>1. CASE j = i /\ event[i] = n /\ target[i] = registered[i]
    BY <1>1, <1>2, <1>3, <2>1 DEF Arrives
  <2>2. CASE ~(j = i /\ event[i] = n /\ target[i] = registered[i])
    <3>1. Notified(j)' = Notified(j) /\ (j # i => event'[j] = event[j] /\ target'[j] = target[j])
      BY <1>1 DEF Notified, TypeOK, BusTypes
    <3> QED
      BY <1>1, <1>4, <2>2, <3>1 DEF OnItsWay, Arrives
  <2> QED
    BY <2>1, <2>2
<1> QED
  BY <1>1, <1>2, <1>4, GapStep

(* A broken LISTEN: what was in the inbox is recorded as lost. *)
LEMMA GapLose ==
  ASSUME TypeOK, GapInv, NEW i \in Instance, ListenerLose(i)
  PROVE  GapInv'
<1>1. UNCHANGED <<log, made, base, heard, subs, registered, pc, at, snap, cur, event, target>>
  BY DEF ListenerLose, sessionVars, connVars, queueVars
<1>2. /\ lost'[i] = lost[i] \cup Notified(i)
      /\ \A j \in Instance : j # i => lost'[j] = lost[j] /\ inbox'[j] = inbox[j]
  BY DEF ListenerLose, TypeOK, BusTypes
<1>3. ASSUME NEW j \in Instance, NEW n \in 1 .. Len(log), OnItsWay(n, j, registered[j])
      PROVE  Arrives(n, j)
  <2>1. CASE j = i
    BY <1>1, <1>2, <1>3, <2>1 DEF OnItsWay, Arrives
  <2>2. CASE j # i
    <3>1. Notified(j)' = Notified(j)
      BY <1>2, <2>2 DEF Notified
    <3> QED
      BY <1>1, <1>3, <3>1 DEF OnItsWay, Arrives
  <2> QED
    BY <2>1, <2>2
<1>4. \A j \in Instance : lost[j] \subseteq lost'[j]
  BY <1>2
<1> QED
  BY <1>1, <1>3, <1>4, GapStep

(* A crash: its unpublished batches are lost to the others. *)
LEMMA GapCrash ==
  ASSUME TypeOK, GapInv, NEW i \in Instance, Crash(i)
  PROVE  GapInv'
<1>1. UNCHANGED <<log, made, base, heard>>
  BY DEF Crash, queueVars
<1>2. /\ \A s \in Session : subs'[s] \subseteq subs[s]
      /\ \A j \in Instance : registered'[j] = IF j = i THEN 0 ELSE registered[j]
  BY DEF Crash, TypeOK, SessionTypes
<1>3. \A j \in Instance : /\ lost[j] \subseteq lost'[j]
                          /\ j # i => Unpublished(i) \subseteq lost'[j]
  BY DEF Crash
<1>4. \A j \in Instance : j # i => /\ inbox'[j] = inbox[j]
                                  /\ event'[j] = event[j] /\ target'[j] = target[j]
  BY DEF Crash, TypeOK, BusTypes
<1>5. \A c \in Conn : IF c \in Mine(i) THEN pc'[c] = "closed"
                      ELSE /\ pc'[c] = pc[c] /\ at'[c] = at[c]
                           /\ snap'[c] = snap[c] /\ cur'[c] = cur[c]
  BY DEF Crash
<1>6. ASSUME NEW j \in Instance, NEW n \in 1 .. Len(log), registered'[j] # 0,
             OnItsWay(n, j, registered[j])
      PROVE  Arrives(n, j)
  <2>1. j # i /\ registered'[j] = registered[j]
    BY <1>2, <1>6
  <2>2. Notified(j)' = Notified(j) /\ event'[j] = event[j] /\ target'[j] = target[j]
    BY <1>4, <2>1 DEF Notified
  <2>3. log[n] \in Conn
    BY ElementOfSeq DEF TypeOK
  <2>4. CASE pc[log[n]] \in {"committed", "publish"} /\ cur[log[n]] = n
    <3>1. CASE log[n] \in Mine(i)
      <4>1. n \in Unpublished(i)
        BY <2>3, <2>4, <3>1 DEF Unpublished
      <4> QED
        BY <1>3, <2>1, <4>1 DEF Arrives
    <3>2. CASE log[n] \notin Mine(i)
      BY <1>1, <1>5, <2>3, <2>4, <3>2 DEF Arrives, OnItsWay
    <3> QED
      BY <3>1, <3>2
  <2>5. CASE n \in Notified(j) \/ (event[j] = n /\ target[j] = registered[j])
    BY <2>1, <2>2, <2>5 DEF Arrives, OnItsWay
  <2> QED
    BY <1>6, <2>4, <2>5 DEF OnItsWay
<1>7. \A c \in Conn : pc'[c] \in {"joining", "reading"} =>
                        pc'[c] = pc[c] /\ at'[c] = at[c] /\ snap'[c] = snap[c]
  BY <1>5
<1> QED
  BY <1>1, <1>2, <1>3, <1>6, <1>7, GapStep

LEMMA GapNext == TypeOK /\ IInv /\ GapInv /\ [Next]_vars => GapInv'
  BY GapLoop, GapPresence, GapJoinCreate, GapJoinLock, GapJoinSubscribe, GapCommit,
     GapOpBroadcast, GapPublish, GapGet, GapDeliver, GapLose, GapCrash DEF Next

(***************************************************************************)
(* A joiner never falls between snapshot and bus: for any number of        *)
(* instances, a batch another instance committed is in a subscriber's      *)
(* snapshot, was queued to it, is on its way to its session, or is among   *)
(* those a crash, a failed outbox write or a broken LISTEN dropped.        *)
(***************************************************************************)
THEOREM InstancesAreGapFree == Spec => []CrossInstanceGapFree
<1>1. Init => TypeOK /\ IInv /\ GapInv
  BY TypeInit, IInvInit, GapInit
<1>2. TypeOK /\ IInv /\ GapInv /\ [Next]_vars => (TypeOK /\ IInv /\ GapInv)'
  BY TypeStep, IInvStep, GapNext
<1>3. GapInv => CrossInstanceGapFree
  BY DEF GapInv
<1> QED
  BY <1>1, <1>2, <1>3, PTL DEF Spec
=============================================================================
