------------------------------ MODULE Sharing ------------------------------
(***************************************************************************)
(* Who may do what with a note: ownership, shares of notes and notebooks,  *)
(* access resolution (permissions.rs) and the HTTP handlers that change    *)
(* them (http.rs).                                                         *)
(*                                                                         *)
(* Every such handler checks the request on whatever the tables hold, then *)
(* runs a SERIALIZABLE transaction that reads everything again, checks     *)
(* again and writes.  A handler is one request: an action named after the  *)
(* handler for the first check, one with suffix Tx for the transaction,    *)
(* which is atomic because all writers of these tables are serializable.   *)
(* Between the two, and between attempts after a serialization failure,    *)
(* other requests commit.                                                  *)
(*                                                                         *)
(* A capability bit mask is a set of capabilities; a share row that is not *)
(* there is the empty set (no handler stores an empty mask).  Note fields  *)
(* that no rule reads (title, todo) are left out, and so are accounts:     *)
(* users neither come nor go.                                              *)
(***************************************************************************)
EXTENDS Naturals, FiniteSets

CONSTANTS
  User, Note, Notebook,
  Inbox,                 \* the notebook_id of a note outside any notebook
  Handler,               \* slots for requests being handled, reused
  Grants,                \* bit masks requests ask for
  EjectionAllowed,       \* PERMISSION_SCHEME = ejection_allowed
  MaxNotesPerNotebook,   \* keeplin-core MAX_NOTES_PER_NOTEBOOK
  MaxAttempts,           \* SERIALIZABLE_MAX_ATTEMPTS
  MaxRequests            \* bound: requests and device changes in all

Capability == {"read", "write", "share_read", "share_write", "manage"}

ASSUME InboxAssumption == Inbox \notin Notebook
ASSUME NoteAssumption == IsFiniteSet(Note)
ASSUME GrantAssumption == Grants \subseteq SUBSET Capability
ASSUME PolicyAssumption == EjectionAllowed \in BOOLEAN
ASSUME LimitAssumption ==
  MaxNotesPerNotebook \in Nat /\ MaxAttempts \in Nat \ {0} /\ MaxRequests \in Nat

VARIABLES
  owner,       \* notes.owner_id
  live,        \* notes.deleted_at IS NULL
  place,       \* notes.notebook_id
  share,       \* note_shares: capabilities by note and user
  bookOwner,   \* notebooks.user_id
  bookLive,    \* notebooks.deleted_at IS NULL
  bookShare,   \* notebook_shares: capabilities by notebook and user
  pc,          \* per handler: "idle", "tx" (a transaction runs), "notify"
  req,         \* the request it handles
  attempt,     \* which attempt of its transaction runs
  notices,     \* whom to tell, once the transaction has committed
  served       \* how many requests and device changes there have been

noteVars == <<owner, live, place, share>>
bookVars == <<bookOwner, bookLive, bookShare>>
vars == <<noteVars, bookVars, pc, req, attempt, notices, served>>

Place == Notebook \cup {Inbox}
Request ==
       [op : {"update_note"}, user : User, note : Note, dest : Place]
  \cup [op : {"delete_note"}, user : User, note : Note]
  \cup [op : {"create_share"}, user : User, note : Note, target : User, caps : SUBSET Capability]
  \cup [op : {"delete_share", "transfer_ownership"}, user : User, note : Note, target : User]
  \cup [op : {"create_notebook_share"}, user : User, book : Notebook, target : User,
        caps : SUBSET Capability]
  \cup [op : {"delete_notebook_share", "transfer_notebook"}, user : User, book : Notebook,
        target : User]
NoRequest == [op |-> "none"]

-----------------------------------------------------------------------------
(* Capabilities and access resolution (permissions.rs). *)

(* What a capability brings with it. *)
Implied(c) ==
  CASE c = "manage" -> Capability
    [] c = "share_write" -> {"share_write", "share_read", "write", "read"}
    [] c \in {"share_read", "write"} -> {c, "read"}
    [] OTHER -> {c}
FromBits(S) == UNION {Implied(c) : c \in S \cap Capability}

NotebookInheritance == {"read", "write"}

(* What a user is on a notebook that is not deleted. *)
IsBookOwner(b, u) == b \in Notebook /\ bookLive[b] /\ bookOwner[b] = u
BookShareOf(b, u) == IF bookLive[b] THEN bookShare[b][u] ELSE {}
BookCaps(b, u) == IF IsBookOwner(b, u) THEN Capability ELSE FromBits(BookShareOf(b, u))

Inherited(p, u) == IF p = Inbox THEN {} ELSE BookCaps(p, u) \cap NotebookInheritance

(* Capabilities on a note; {} stands for Forbidden. *)
NoteCaps(n, u) ==
  IF owner[n] = u THEN Capability
  ELSE FromBits(FromBits(share[n][u]) \cup FromBits(Inherited(place[n], u)))

(* Mutant: the join on notebook_shares without its test for a deleted notebook. *)
ListedDeletedBooks(u) ==
  {n \in Note :
     /\ live[n]
     /\ \/ owner[n] = u
        \/ share[n][u] # {}
        \/ place[n] # Inbox /\ bookLive[place[n]] /\ bookOwner[place[n]] = u
        \/ place[n] # Inbox /\ bookShare[place[n]][u] # {}}

(* list_notes_for_user: one query with three outer joins. *)
Listed(u) ==
  {n \in Note :
     /\ live[n]
     /\ \/ owner[n] = u
        \/ share[n][u] # {}
        \/ place[n] # Inbox /\ bookLive[place[n]] /\ bookOwner[place[n]] = u
        \/ place[n] # Inbox /\ bookLive[place[n]] /\ bookShare[place[n]][u] # {}}

-----------------------------------------------------------------------------
(* What the handlers check, the first time and again in the transaction. *)

(* Mutant: the notebook's owner is not among the principals. *)
InheritedNotePrincipalsShares(b) ==
  {<<u, bookShare[b][u]>> : u \in {v \in User : bookLive[b] /\ bookShare[b][v] # {}}}

(* inherited_note_principals: share rows and the owner of a live notebook. *)
InheritedNotePrincipals(b) ==
  {<<u, bookShare[b][u]>> : u \in {v \in User : bookLive[b] /\ bookShare[b][v] # {}}}
    \cup {<<u, Capability>> : u \in {v \in User : IsBookOwner(b, v)}}

(* Principals other than the mover who lose bits when n goes to d. *)
Losers(n, u, d) ==
  {p \in User \ {u} :
     /\ place[n] # Inbox
     /\ \E pr \in InheritedNotePrincipals(place[n]) :
          LET before == FromBits(share[n][p] \cup (FromBits(pr[2]) \cap NotebookInheritance))
              after == FromBits(share[n][p] \cup Inherited(d, p))
          IN  pr[1] = p /\ before \ after # {}}

HasRoom(b) == Cardinality({n \in Note : live[n] /\ place[n] = b}) < MaxNotesPerNotebook

Ejection(n, u, d) == d # place[n] /\ d = Inbox /\ IsBookOwner(place[n], u)

(* A move needs the note's owner, or the notebook's where ejection is allowed; *)
(* the notebook's owner may not take inherited access from anybody.            *)
MayMove(n, u, d) ==
  /\ owner[n] = u \/ (EjectionAllowed /\ Ejection(n, u, d))
  /\ IsBookOwner(place[n], u) => Losers(n, u, d) = {}
  /\ d # Inbox => "write" \in BookCaps(d, u) /\ HasRoom(d)

MayUpdateNote(r) ==
  /\ live[r.note]
  /\ "write" \in NoteCaps(r.note, r.user)
  /\ r.dest # place[r.note] => MayMove(r.note, r.user, r.dest)

IsNoteOwner(r) == live[r.note] /\ owner[r.note] = r.user

(* Nobody grants more than they hold, and the owner needs no grant. *)
MayCreateShare(r) ==
  /\ live[r.note]
  /\ "share_write" \in NoteCaps(r.note, r.user)
  /\ r.caps \subseteq NoteCaps(r.note, r.user)
  /\ r.target # owner[r.note]

MayDeleteShare(r) ==
  /\ live[r.note]
  /\ NoteCaps(r.note, r.user) # {}
  /\ "share_write" \in NoteCaps(r.note, r.user) \/ r.target = r.user

IsNotebookOwner(r) == IsBookOwner(r.book, r.user)

MayCreateNotebookShare(r) ==
  /\ "share_write" \in BookCaps(r.book, r.user)
  /\ r.caps \subseteq BookCaps(r.book, r.user)
  /\ r.target # bookOwner[r.book]

MayDeleteNotebookShare(r) ==
  /\ BookCaps(r.book, r.user) # {}
  /\ "share_write" \in BookCaps(r.book, r.user) \/ r.target = r.user

May(r) ==
  CASE r.op = "update_note" -> MayUpdateNote(r)
    [] r.op \in {"delete_note", "transfer_ownership"} -> IsNoteOwner(r)
    [] r.op = "create_share" -> MayCreateShare(r)
    [] r.op = "delete_share" -> MayDeleteShare(r)
    [] r.op = "create_notebook_share" -> MayCreateNotebookShare(r)
    [] r.op = "delete_notebook_share" -> MayDeleteNotebookShare(r)
    [] r.op = "transfer_notebook" -> IsNotebookOwner(r)

-----------------------------------------------------------------------------
(* Notes start in any notebook (their owner may have lost the share that let *)
(* them move the note there) and without shares.                             *)
Init ==
  /\ owner \in [Note -> User] /\ live = [n \in Note |-> TRUE]
  /\ place \in [Note -> Place]
  /\ \A b \in Notebook : Cardinality({n \in Note : place[n] = b}) <= MaxNotesPerNotebook
  /\ share = [n \in Note |-> [u \in User |-> {}]]
  /\ bookOwner \in [Notebook -> User] /\ bookLive = [b \in Notebook |-> TRUE]
  /\ bookShare = [b \in Notebook |-> [u \in User |-> {}]]
  /\ pc = [h \in Handler |-> "idle"] /\ req = [h \in Handler |-> NoRequest]
  /\ attempt = [h \in Handler |-> 0] /\ notices = [h \in Handler |-> {}]
  /\ served = 0

(* The first check passed: the transaction begins. *)
Admit(h, r) ==
  /\ pc[h] = "idle" /\ served < MaxRequests /\ May(r)
  /\ pc' = [pc EXCEPT ![h] = "tx"] /\ req' = [req EXCEPT ![h] = r]
  /\ attempt' = [attempt EXCEPT ![h] = 1] /\ served' = served + 1
  /\ UNCHANGED <<noteVars, bookVars, notices>>

UpdateNote(h) == \E u \in User, n \in Note, d \in Place :
  Admit(h, [op |-> "update_note", user |-> u, note |-> n, dest |-> d])
DeleteNote(h) == \E u \in User, n \in Note :
  Admit(h, [op |-> "delete_note", user |-> u, note |-> n])
CreateShare(h) == \E u, t \in User, n \in Note, g \in Grants :
  /\ FromBits(g) # {}
  /\ Admit(h, [op |-> "create_share", user |-> u, note |-> n, target |-> t, caps |-> FromBits(g)])
DeleteShare(h) == \E u, t \in User, n \in Note :
  Admit(h, [op |-> "delete_share", user |-> u, note |-> n, target |-> t])
TransferOwnership(h) == \E u, t \in User, n \in Note :
  Admit(h, [op |-> "transfer_ownership", user |-> u, note |-> n, target |-> t])
CreateNotebookShare(h) == \E u, t \in User, b \in Notebook, g \in Grants :
  /\ FromBits(g) # {}
  /\ Admit(h, [op |-> "create_notebook_share", user |-> u, book |-> b, target |-> t,
               caps |-> FromBits(g)])
DeleteNotebookShare(h) == \E u, t \in User, b \in Notebook :
  Admit(h, [op |-> "delete_notebook_share", user |-> u, book |-> b, target |-> t])
TransferNotebook(h) == \E u, t \in User, b \in Notebook :
  Admit(h, [op |-> "transfer_notebook", user |-> u, book |-> b, target |-> t])

-----------------------------------------------------------------------------
(* The transactions: checks on their own snapshot, then the writes. *)
Serving(h, op) == pc[h] = "tx" /\ req[h].op = op
Leaves(h, next) ==
  /\ pc' = [pc EXCEPT ![h] = next]
  /\ req' = [req EXCEPT ![h] = NoRequest] /\ attempt' = [attempt EXCEPT ![h] = 0]
  /\ UNCHANGED served
Committed(h, told) ==
  /\ Leaves(h, IF told = {} THEN "idle" ELSE "notify")
  /\ notices' = [notices EXCEPT ![h] = told]

(* The store's writes. *)
UpdateNoteMeta(n, d) == place' = [place EXCEPT ![n] = d]
SoftDeleteNote(n) == live' = [live EXCEPT ![n] = FALSE]
SetNoteOwner(n, u) == owner' = [owner EXCEPT ![n] = u]
CreateOrUpdateShare(n, u, caps) == share' = [share EXCEPT ![n][u] = caps]
DropShare(n, u) == share' = [share EXCEPT ![n][u] = {}]
SetNotebookOwner(b, u) == bookOwner' = [bookOwner EXCEPT ![b] = u]
CreateOrUpdateNotebookShare(b, u, caps) == bookShare' = [bookShare EXCEPT ![b][u] = caps]
DropNotebookShare(b, u) == bookShare' = [bookShare EXCEPT ![b][u] = {}]

UpdateNoteTx(h) ==
  LET r == req[h]
      n == r.note
      moved == r.dest # place[n]
  IN  /\ Serving(h, "update_note") /\ MayUpdateNote(r)
      /\ UpdateNoteMeta(n, r.dest)
      /\ Committed(h, IF moved
                      THEN Losers(n, r.user, r.dest) \cup
                             (IF Ejection(n, r.user, r.dest) THEN {owner[n]} \ {r.user} ELSE {})
                      ELSE {})
      /\ UNCHANGED <<owner, live, share, bookVars>>

DeleteNoteTx(h) ==
  /\ Serving(h, "delete_note") /\ IsNoteOwner(req[h])
  /\ SoftDeleteNote(req[h].note)
  /\ Committed(h, {})
  /\ UNCHANGED <<owner, place, share, bookVars>>

(* Mutant: the owner is compared with the target before the transaction only. *)
CreateShareTxStale(h) ==
  LET r == req[h]
  IN  /\ Serving(h, "create_share") /\ live[r.note]
      /\ {"share_write"} \cup r.caps \subseteq NoteCaps(r.note, r.user)
      /\ CreateOrUpdateShare(r.note, r.target, r.caps)
      /\ Committed(h, {})
      /\ UNCHANGED <<owner, live, place, bookVars>>

CreateShareTx(h) ==
  LET r == req[h]
  IN  /\ Serving(h, "create_share") /\ MayCreateShare(r)
      /\ CreateOrUpdateShare(r.note, r.target, r.caps)
      /\ Committed(h, {})
      /\ UNCHANGED <<owner, live, place, bookVars>>

DeleteShareTx(h) ==
  LET r == req[h]
      had == share[r.note][r.target] # {}
  IN  /\ Serving(h, "delete_share") /\ MayDeleteShare(r)
      /\ DropShare(r.note, r.target)
      /\ Committed(h, IF had THEN {r.target} \ {r.user} ELSE {})
      /\ UNCHANGED <<owner, live, place, bookVars>>

TransferOwnershipTx(h) ==
  LET r == req[h]
  IN  /\ Serving(h, "transfer_ownership") /\ IsNoteOwner(r)
      /\ DropShare(r.note, r.target)
      /\ SetNoteOwner(r.note, r.target)
      /\ Committed(h, {})
      /\ UNCHANGED <<live, place, bookVars>>

(* Mutant: authority is checked before the transaction only. *)
CreateNotebookShareTxStale(h) ==
  LET r == req[h]
  IN  /\ Serving(h, "create_notebook_share") /\ bookLive[r.book] /\ r.target # bookOwner[r.book]
      /\ CreateOrUpdateNotebookShare(r.book, r.target, r.caps)
      /\ Committed(h, {})
      /\ UNCHANGED <<noteVars, bookOwner, bookLive>>

CreateNotebookShareTx(h) ==
  LET r == req[h]
  IN  /\ Serving(h, "create_notebook_share") /\ MayCreateNotebookShare(r)
      /\ CreateOrUpdateNotebookShare(r.book, r.target, r.caps)
      /\ Committed(h, {})
      /\ UNCHANGED <<noteVars, bookOwner, bookLive>>

DeleteNotebookShareTx(h) ==
  LET r == req[h]
      had == bookShare[r.book][r.target] # {}
  IN  /\ Serving(h, "delete_notebook_share") /\ MayDeleteNotebookShare(r)
      /\ DropNotebookShare(r.book, r.target)
      /\ Committed(h, IF had THEN {r.target} \ {r.user} ELSE {})
      /\ UNCHANGED <<noteVars, bookOwner, bookLive>>

TransferNotebookTx(h) ==
  LET r == req[h]
  IN  /\ Serving(h, "transfer_notebook") /\ IsNotebookOwner(r)
      /\ SetNotebookOwner(r.book, r.target)
      /\ DropNotebookShare(r.book, r.target)
      /\ Committed(h, {})
      /\ UNCHANGED <<noteVars, bookLive>>

(* The transaction's own check fails: the handler answers with an error. *)
Refused(h) ==
  /\ pc[h] = "tx" /\ ~May(req[h])
  /\ Leaves(h, "idle")
  /\ UNCHANGED <<noteVars, bookVars, notices>>

(* Mutant: the attempt is counted, the limit is not looked at. *)
SerializationFailureForever(h) ==
  /\ pc[h] = "tx"
  /\ attempt' = [attempt EXCEPT ![h] = @ + 1]
  /\ UNCHANGED <<noteVars, bookVars, pc, req, notices, served>>

(* 40001: everything is rolled back and tried again, three times in all. *)
SerializationFailure(h) ==
  /\ pc[h] = "tx" /\ attempt[h] < MaxAttempts
  /\ attempt' = [attempt EXCEPT ![h] = @ + 1]
  /\ UNCHANGED <<noteVars, bookVars, pc, req, notices, served>>
Exhausted(h) ==
  /\ pc[h] = "tx" /\ attempt[h] = MaxAttempts
  /\ Leaves(h, "idle")
  /\ UNCHANGED <<noteVars, bookVars, notices>>

NotifyAccessRevoked(h) ==
  /\ pc[h] = "notify"
  /\ pc' = [pc EXCEPT ![h] = "idle"] /\ notices' = [notices EXCEPT ![h] = {}]
  /\ UNCHANGED <<noteVars, bookVars, req, attempt, served>>

(* A device of its owner deletes or restores a notebook; the change reaches  *)
(* the table through the projection (delete_notebook, upsert_notebook).      *)
DeleteNotebook(b) ==
  /\ bookLive[b] /\ bookLive' = [bookLive EXCEPT ![b] = FALSE]
  /\ served < MaxRequests /\ served' = served + 1
  /\ UNCHANGED <<noteVars, bookOwner, bookShare, pc, req, attempt, notices>>
UpsertNotebook(b) ==
  /\ ~bookLive[b] /\ bookLive' = [bookLive EXCEPT ![b] = TRUE]
  /\ served < MaxRequests /\ served' = served + 1
  /\ UNCHANGED <<noteVars, bookOwner, bookShare, pc, req, attempt, notices>>

Arrives(h) ==
  \/ UpdateNote(h) \/ DeleteNote(h) \/ CreateShare(h) \/ DeleteShare(h) \/ TransferOwnership(h)
  \/ CreateNotebookShare(h) \/ DeleteNotebookShare(h) \/ TransferNotebook(h)
Commits(h) ==
  \/ UpdateNoteTx(h) \/ DeleteNoteTx(h) \/ CreateShareTx(h) \/ DeleteShareTx(h)
  \/ TransferOwnershipTx(h) \/ CreateNotebookShareTx(h) \/ DeleteNotebookShareTx(h)
  \/ TransferNotebookTx(h)
Next ==
  \/ \E h \in Handler : \/ Arrives(h) \/ Commits(h) \/ Refused(h)
                         \/ SerializationFailure(h) \/ Exhausted(h) \/ NotifyAccessRevoked(h)
  \/ \E b \in Notebook : DeleteNotebook(b) \/ UpsertNotebook(b)

Spec == Init /\ [][Next]_vars

-----------------------------------------------------------------------------
(* Tables, requests and their attempts keep their shape; a transaction is *)
(* tried at most MaxAttempts times (http.rs serializable).                *)
TypeOK ==
  /\ owner \in [Note -> User] /\ live \in [Note -> BOOLEAN] /\ place \in [Note -> Place]
  /\ share \in [Note -> [User -> SUBSET Capability]]
  /\ bookOwner \in [Notebook -> User] /\ bookLive \in [Notebook -> BOOLEAN]
  /\ bookShare \in [Notebook -> [User -> SUBSET Capability]]
  /\ pc \in [Handler -> {"idle", "tx", "notify"}]
  /\ req \in [Handler -> Request \cup {NoRequest}]
  /\ \A h \in Handler : pc[h] = "tx" => req[h] \in Request
  /\ attempt \in [Handler -> 0 .. MaxAttempts]
  /\ notices \in [Handler -> SUBSET User] /\ served \in 0 .. MaxRequests

(* An owner never holds a share row of what they own, whatever grants and    *)
(* transfers race: a row left behind would come alive again, unasked for, at *)
(* the next transfer (create_share, transfer_ownership and the notebook      *)
(* pair).                                                                    *)
OwnersHoldNoShares ==
  /\ \A n \in Note : share[n][owner[n]] = {}
  /\ \A b \in Notebook : bookShare[b][bookOwner[b]] = {}

(* Authority is passed on, never made: whatever capability a committed       *)
(* request gives anybody, its sender held on the same note or notebook at    *)
(* that very moment, although it was first checked on tables that have       *)
(* changed since (the handlers' two checks, Capabilities::normalized, the    *)
(* ceiling on inheritance).                                                  *)
DelegationNeverAmplifies ==
  [][\A h \in Handler : pc[h] = "tx" /\ pc'[h] # "tx" =>
       \A u \in User :
         /\ \A n \in Note : NoteCaps(n, u)' \ NoteCaps(n, u) \subseteq NoteCaps(n, req[h].user)
         /\ \A b \in Notebook : BookCaps(b, u)' \ BookCaps(b, u) \subseteq BookCaps(b, req[h].user)]_vars

(* A note that leaves its notebook takes access from nobody behind their      *)
(* back (update_note): if the mover owns the notebook, nobody else loses a    *)
(* capability; if not, everybody who does is told.                            *)
MovesAreGuarded ==
  [][\A n \in Note : place'[n] # place[n] =>
       \E h \in Handler :
         /\ pc[h] = "tx" /\ pc'[h] # "tx"
         /\ \A p \in User \ {req[h].user} :
              ~(NoteCaps(n, p) \subseteq NoteCaps(n, p)') =>
                p \in notices'[h] /\ ~IsBookOwner(place[n], req[h].user)]_vars

(* The listing and the check at the door agree: a user is shown a note        *)
(* (list_notes_for_user) exactly if resolve_note_access lets them read it.    *)
ListedIsReadable ==
  \A u \in User : Listed(u) = {n \in Note : live[n] /\ "read" \in NoteCaps(n, u)}
=============================================================================
