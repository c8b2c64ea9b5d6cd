----------------------------- MODULE NoteQuota -----------------------------
(***************************************************************************)
(* The quota on a user's notes, under requests that run at the same time   *)
(* (create_note and import_note of http.rs, the quota part of store.rs).   *)
(*                                                                         *)
(* A creation opens a transaction, takes the user's advisory lock, counts, *)
(* inserts and commits; the lock ends with the transaction.  Others see    *)
(* only the commit, so inserting is part of it.  What does not look at the *)
(* quota runs in between: deleting a note and transferring it.             *)
(* Abstracted: what a note contains, and MAX_NOTES_PER_USER = 0, which     *)
(* turns the quota off.                                                    *)
(***************************************************************************)
EXTENDS Integers

CONSTANTS
  User,
  Creation,       \* create_note and import_note requests
  NoCreation,     \* the holder of a free lock
  NoUser,         \* the user of a request that has not begun
  NoteLimit,      \* MAX_NOTES_PER_USER
  MaxTransfers    \* bound: transfers to a user

ASSUME NoteQuotaAssumption ==
  /\ NoCreation \notin Creation /\ NoUser \notin User
  /\ NoteLimit \in Nat \ {0} /\ MaxTransfers \in Nat

VARIABLES
  liveNotes,   \* per user: rows of notes with deleted_at NULL
  received,    \* history, per user: notes transferred to it
  noteLock,    \* per user: the creation that holds its note quota lock
  creating,    \* per creation: the user whose lock it has taken
  counted      \* creations that found room and are about to insert

noteQuotaVars == <<liveNotes, received, noteLock, creating, counted>>

NoteQuotaInit ==
  /\ liveNotes = [u \in User |-> 0] /\ received = [u \in User |-> 0]
  /\ noteLock = [u \in User |-> NoCreation]
  /\ creating = [c \in Creation |-> NoUser] /\ counted = {}

(* Mutant: pg_advisory_xact_lock on a key nobody shares. *)
TakeOwnLock(c, u) == UNCHANGED noteLock
TakeNoteLock(c, u) ==
  /\ noteLock[u] = NoCreation
  /\ noteLock' = [noteLock EXCEPT ![u] = c]

LockNoteQuota(c, u) ==
  /\ creating[c] = NoUser
  /\ TakeNoteLock(c, u)
  /\ creating' = [creating EXCEPT ![c] = u]
  /\ UNCHANGED <<liveNotes, received, counted>>

(* Mutant: the note over the limit is refused one too late. *)
RoomForOneMore(u) == liveNotes[u] <= NoteLimit
RoomForNote(u) == liveNotes[u] < NoteLimit

CountNotes(c) ==
  /\ creating[c] # NoUser /\ c \notin counted
  /\ RoomForNote(creating[c])
  /\ counted' = counted \cup {c}
  /\ UNCHANGED <<liveNotes, received, noteLock, creating>>

(* The end of the transaction, which gives the lock back. *)
EndCreation(c) ==
  /\ noteLock' = [u \in User |-> IF noteLock[u] = c THEN NoCreation ELSE noteLock[u]]
  /\ creating' = [creating EXCEPT ![c] = NoUser]
  /\ counted' = counted \ {c}

CommitNote(c) ==
  /\ c \in counted
  /\ liveNotes' = [liveNotes EXCEPT ![creating[c]] = @ + 1]
  /\ EndCreation(c)
  /\ UNCHANGED received

(* Over the limit, a statement that fails, or a client that went away. *)
RollbackNote(c) ==
  /\ creating[c] # NoUser
  /\ EndCreation(c)
  /\ UNCHANGED <<liveNotes, received>>

DeleteNote(u) ==
  /\ liveNotes[u] > 0
  /\ liveNotes' = [liveNotes EXCEPT ![u] = @ - 1]
  /\ UNCHANGED <<received, noteLock, creating, counted>>

(* set_note_owner_on: one UPDATE of the owner. *)
TransferNote(u, v) ==
  /\ u # v /\ liveNotes[u] > 0 /\ received[v] < MaxTransfers
  /\ liveNotes' = [liveNotes EXCEPT ![u] = @ - 1, ![v] = @ + 1]
  /\ received' = [received EXCEPT ![v] = @ + 1]
  /\ UNCHANGED <<noteLock, creating, counted>>

NoteQuotaNext ==
  \/ \E c \in Creation, u \in User : LockNoteQuota(c, u)
  \/ \E c \in Creation : CountNotes(c) \/ CommitNote(c) \/ RollbackNote(c)
  \/ \E u \in User : DeleteNote(u)
  \/ \E u, v \in User : TransferNote(u, v)

NoteQuotaSpec == NoteQuotaInit /\ [][NoteQuotaNext]_noteQuotaVars
-----------------------------------------------------------------------------
(***************************************************************************)
(* Counting and inserting in one transaction under the user's lock amounts *)
(* to booking a note in one step: at every moment the notes of a user and  *)
(* the one being inserted stay within the limit, but for transfers.        *)
(***************************************************************************)
Booked(u) == IF \E c \in counted : creating[c] = u THEN 1 ELSE 0
InUse == [u \in User |-> liveNotes[u] + Booked(u)]

Ledger == INSTANCE QuotaLedger WITH
            Limit <- NoteLimit, used <- InUse, accepted <- received
BooksNotes == Ledger!Spec
=============================================================================
