------------------------------ MODULE Presence ------------------------------
(***************************************************************************)
(* The rows of collab_presence of one note: who is in it, over all         *)
(* instances (touch_presence, clear_presence and the Join, Leave, Cursor   *)
(* and teardown paths of collab.rs; maintenance_loop of main.rs).          *)
(*                                                                         *)
(* A connection belongs to one instance and its task does one thing at a   *)
(* time.  Each instance has a maintenance loop that touches the rows of    *)
(* its own connections and sweeps the rows nobody touches, every           *)
(* PRESENCE_TICK; a retention pass runs in the same loop and holds it up.  *)
(* A process that starts again is another instance: instance_id is drawn   *)
(* at start-up, so the clean-up at start-up meets no row.  The instances   *)
(* run from the beginning, at any phase of their ticks; none joins later.  *)
(*                                                                         *)
(* Times are ages and countdowns in ticks of the model; a statement takes  *)
(* no time.  updated_at is PostgreSQL's now(), the cutoff of a sweep is    *)
(* the clock of the instance's host: at any sweep they are up to MaxSkew   *)
(* apart, either way.  Statements may fail, and the code goes on without   *)
(* them.                                                                   *)
(* Abstracted: cursors, names, and the lists sent to clients.              *)
(***************************************************************************)
EXTENDS Integers

CONSTANTS
  Instance,
  Connection,
  Home,           \* the instance of each connection
  PresenceTick,   \* PRESENCE_TICK
  PresenceTtl,    \* PRESENCE_TTL_SECS
  MaxRetention,   \* assumed: how long a retention pass takes
  MaxSkew,        \* assumed: between a host's clock and the database's
  MaxMissed       \* assumed: failures in a row of the heartbeat or the sweep

GhostTime == PresenceTtl + MaxSkew + PresenceTick * (1 + MaxMissed) + MaxRetention
Absent == -1

(* The loop keeps up: a row is touched before another instance sweeps it,  *)
(* be its clock ahead, and a retention pass delays one heartbeat, not two.                     *)
ASSUME PresenceAssumption ==
  /\ Home \in [Connection -> Instance]
  /\ PresenceTick \in Nat \ {0} /\ MaxRetention \in Nat /\ MaxMissed \in Nat
  /\ PresenceTtl \in Nat /\ MaxSkew \in Nat /\ MaxRetention <= PresenceTick
  /\ PresenceTick * (1 + MaxMissed) + MaxRetention + MaxSkew <= PresenceTtl

VARIABLES
  up,         \* instances that run
  down,       \* per instance: how long it has not (up to GhostTime + 1)
  inNote,     \* connections with the note in their joined map
  recorded,   \* of those, the ones whose presence was written
  age,        \* per connection: the age of its row's updated_at, or Absent
  due,        \* per instance: time to the next presence_tick
  retaining,  \* per instance: how long its retention pass runs, or Absent
  retained,   \* instances with a retention pass since the last heartbeat
  sweeping,   \* instances between heartbeat and sweep
  lostBeats,  \* per instance: heartbeats in a row that failed
  lostSweeps  \* per instance: sweeps in a row that failed

connVars == <<inNote, recorded>>
loopVars == <<due, retaining, retained, sweeping, lostBeats, lostSweeps>>
presenceVars == <<up, down, connVars, age, loopVars>>

PresenceInit ==
  /\ up = Instance /\ down = [i \in Instance |-> 0]
  /\ inNote = {} /\ recorded = {}
  /\ age = [c \in Connection |-> Absent]
  /\ due \in [Instance -> 0 .. PresenceTick]
  /\ retaining = [i \in Instance |-> Absent] /\ retained = {} /\ sweeping = {}
  /\ lostBeats = [i \in Instance |-> 0] /\ lostSweeps = [i \in Instance |-> 0]

(***************************************************************************)
(* Connections.  Join puts the note in the map before it writes the row;   *)
(* Leave and the end of the connection drop it first and ignore a failure. *)
(***************************************************************************)
UpsertPresence(c) ==
  /\ age' = [age EXCEPT ![c] = 0]
  /\ recorded' = recorded \cup {c}

Join(c) ==
  /\ Home[c] \in up /\ inNote' = inNote \cup {c}
  /\ UpsertPresence(c) \/ UNCHANGED <<age, recorded>>
  /\ UNCHANGED <<up, down, loopVars>>

MoveCursor(c) ==
  /\ c \in inNote
  /\ UpsertPresence(c)
  /\ UNCHANGED <<up, down, inNote, loopVars>>

LeaveNote(c) ==
  /\ c \in inNote
  /\ inNote' = inNote \ {c} /\ recorded' = recorded \ {c}
  /\ age' = [age EXCEPT ![c] = Absent] \/ UNCHANGED age
  /\ UNCHANGED <<up, down, loopVars>>

(***************************************************************************)
(* maintenance_loop: the heartbeat, then the sweep; or a retention pass.   *)
(***************************************************************************)
Awake(i) == i \in up /\ retaining[i] = Absent /\ i \notin sweeping

(* Mutant: UPDATE without the WHERE on the instance. *)
OwnRowsOrAny(i, c) == TRUE
OwnRows(i, c) == Home[c] = i

Heartbeat(i) ==
  /\ Awake(i) /\ due[i] <= 0
  /\ due' = [due EXCEPT ![i] = @ + PresenceTick]
  /\ sweeping' = sweeping \cup {i}
  /\ \/ /\ age' = [c \in Connection |->
                     IF age[c] # Absent /\ OwnRows(i, c) THEN 0 ELSE age[c]]
        /\ lostBeats' = [lostBeats EXCEPT ![i] = 0]
        /\ retained' = retained \ {i}
     \/ /\ lostBeats[i] < MaxMissed
        /\ lostBeats' = [lostBeats EXCEPT ![i] = @ + 1]
        /\ UNCHANGED <<age, retained>>
  /\ UNCHANGED <<up, down, connVars, retaining, lostSweeps>>

(* Mutant: the row may be no older than one heartbeat. *)
StaleAfterTick(c, skew) == age[c] > PresenceTick - skew
(* updated_at < cutoff, the host's clock being skew ahead. *)
Stale(c, skew) == age[c] > PresenceTtl - skew

SweepPresence(i) ==
  /\ i \in up /\ i \in sweeping
  /\ sweeping' = sweeping \ {i}
  /\ \/ /\ \E skew \in -MaxSkew .. MaxSkew :
             age' = [c \in Connection |-> IF Stale(c, skew) THEN Absent ELSE age[c]]
        /\ lostSweeps' = [lostSweeps EXCEPT ![i] = 0]
     \/ /\ lostSweeps[i] < MaxMissed
        /\ lostSweeps' = [lostSweeps EXCEPT ![i] = @ + 1]
        /\ UNCHANGED age
  /\ UNCHANGED <<up, down, connVars, due, retaining, retained, lostBeats>>

(* The hourly tick: never twice between two heartbeats. *)
BeginRetention(i) ==
  /\ Awake(i) /\ i \notin retained
  /\ retaining' = [retaining EXCEPT ![i] = 0]
  /\ retained' = retained \cup {i}
  /\ UNCHANGED <<up, down, connVars, age, due, sweeping, lostBeats, lostSweeps>>

EndRetention(i) ==
  /\ i \in up /\ retaining[i] # Absent
  /\ retaining' = [retaining EXCEPT ![i] = Absent]
  /\ UNCHANGED <<up, down, connVars, age, due, retained, sweeping, lostBeats, lostSweeps>>

(* The process dies: its connections are gone, its rows stay. *)
Crash(i) ==
  /\ i \in up
  /\ up' = up \ {i}
  /\ inNote' = {c \in inNote : Home[c] # i}
  /\ recorded' = {c \in recorded : Home[c] # i}
  /\ due' = [due EXCEPT ![i] = 0]
  /\ retaining' = [retaining EXCEPT ![i] = Absent]
  /\ retained' = retained \ {i} /\ sweeping' = sweeping \ {i}
  /\ lostBeats' = [lostBeats EXCEPT ![i] = 0] /\ lostSweeps' = [lostSweeps EXCEPT ![i] = 0]
  /\ UNCHANGED <<down, age>>

(* Time passes while every loop that runs waits for it to. *)
PassTime ==
  /\ up # {}
  /\ \A i \in up : \/ retaining[i] \in 0 .. MaxRetention - 1
                   \/ Awake(i) /\ due[i] > 0
  /\ age' = [c \in Connection |->
               IF age[c] \in 0 .. PresenceTtl + MaxSkew THEN age[c] + 1 ELSE age[c]]
  /\ due' = [i \in Instance |-> IF i \in up THEN due[i] - 1 ELSE due[i]]
  /\ retaining' = [i \in Instance |->
                     IF retaining[i] # Absent THEN retaining[i] + 1 ELSE Absent]
  /\ down' = [i \in Instance |->
                IF i \notin up /\ down[i] <= GhostTime THEN down[i] + 1 ELSE down[i]]
  /\ UNCHANGED <<up, connVars, retained, sweeping, lostBeats, lostSweeps>>

PresenceNext ==
  \/ \E c \in Connection : Join(c) \/ MoveCursor(c) \/ LeaveNote(c)
  \/ \E i \in Instance : \/ Heartbeat(i) \/ SweepPresence(i) \/ Crash(i)
                         \/ BeginRetention(i) \/ EndRetention(i)
  \/ PassTime

PresenceSpec == PresenceInit /\ [][PresenceNext]_presenceVars
-----------------------------------------------------------------------------
(***************************************************************************)
(* No instance sweeps a user who is there: while a connection that was     *)
(* recorded stays in the note, its row stays, although any instance sweeps *)
(* all rows by its own clock and a retention pass or a failed UPDATE       *)
(* delays the heartbeat.                                                   *)
(***************************************************************************)
JoinedArePresent == \A c \in recorded : age[c] # Absent

(***************************************************************************)
(* A crashed instance leaves no ghosts: its rows go within a TTL and a     *)
(* sweep of any instance that is left, late ones, failed ones and clocks   *)
(* that are behind included.                                               *)
(***************************************************************************)
GhostsAreBrief ==
  \A c \in Connection : age[c] # Absent /\ up # {} => down[Home[c]] <= GhostTime
=============================================================================
