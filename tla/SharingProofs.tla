---------------------------- MODULE SharingProofs ----------------------------
(***************************************************************************)
(* Proofs about Sharing, for any users, notes, notebooks and requests.     *)
(* None of them uses the handlers' first check: what the transactions      *)
(* check is enough.                                                        *)
(***************************************************************************)
EXTENDS Sharing, TLAPS

(* Each capability brings itself, and what it brings brings nothing more. *)
LEMMA ImpliedClosed ==
  ASSUME NEW c \in Capability
  PROVE  /\ Implied(c) \subseteq Capability /\ c \in Implied(c)
         /\ \A d \in Implied(c) : Implied(d) \subseteq Implied(c)
BY DEF Implied, Capability

(* from_bits adds what is implied and stays within the five capabilities. *)
LEMMA FromBitsCaps ==
  ASSUME NEW S
  PROVE  /\ FromBits(S) \subseteq Capability
         /\ S \subseteq Capability => S \subseteq FromBits(S)
BY ImpliedClosed DEF FromBits

(* from_bits of part of a normalized mask stays inside that mask. *)
LEMMA FromBitsWithin ==
  ASSUME NEW S, NEW T, S \subseteq FromBits(T)
  PROVE  FromBits(S) \subseteq FromBits(T)
<1> SUFFICES ASSUME NEW c \in FromBits(S) PROVE c \in FromBits(T)
  OBVIOUS
<1>1. PICK d \in S \cap Capability : c \in Implied(d)
  BY DEF FromBits
<1>2. PICK e \in T \cap Capability : d \in Implied(e)
  BY <1>1 DEF FromBits
<1>3. c \in Implied(e)
  BY <1>1, <1>2, ImpliedClosed
<1> QED BY <1>2, <1>3 DEF FromBits

LEMMA FromBitsMonotone ==
  ASSUME NEW S, NEW T, S \subseteq T
  PROVE  FromBits(S) \subseteq FromBits(T)
BY DEF FromBits

(* A mask made of two normalized parts has nothing that neither part has. *)
LEMMA FromBitsOfParts ==
  ASSUME NEW S, NEW T
  PROVE  FromBits(FromBits(S) \cup FromBits(T)) = FromBits(S) \cup FromBits(T)
<1>1. FromBits(FromBits(S) \cup FromBits(T)) \subseteq FromBits(S) \cup FromBits(T)
  <2> SUFFICES ASSUME NEW c \in FromBits(FromBits(S) \cup FromBits(T))
               PROVE  c \in FromBits(S) \cup FromBits(T)
    OBVIOUS
  <2>1. PICK d \in (FromBits(S) \cup FromBits(T)) \cap Capability : c \in Implied(d)
    BY DEF FromBits
  <2>2. c \in FromBits({d})
    BY <2>1 DEF FromBits
  <2>3. CASE d \in FromBits(S)
    BY <2>2, <2>3, FromBitsWithin
  <2>4. CASE d \in FromBits(T)
    BY <2>2, <2>4, FromBitsWithin
  <2> QED BY <2>1, <2>3, <2>4
<1>2. FromBits(S) \cup FromBits(T) \subseteq Capability
  BY FromBitsCaps
<1>3. FromBits(S) \cup FromBits(T) \subseteq FromBits(FromBits(S) \cup FromBits(T))
  BY <1>2, FromBitsCaps
<1> QED BY <1>1, <1>3

(* So access to somebody else's note is the share and the inheritance, no more. *)
LEMMA NoteCapsParts ==
  ASSUME NEW n \in Note, NEW u \in User
  PROVE  NoteCaps(n, u) = IF owner[n] = u THEN Capability
                          ELSE FromBits(share[n][u]) \cup FromBits(Inherited(place[n], u))
BY FromBitsOfParts DEF NoteCaps

LEMMA NoteCapsPartsNext ==
  ASSUME NEW n \in Note, NEW u \in User
  PROVE  NoteCaps(n, u)' = IF owner'[n] = u THEN Capability
                           ELSE FromBits(share'[n][u]) \cup FromBits(Inherited(place[n], u)')
BY FromBitsOfParts DEF NoteCaps

-----------------------------------------------------------------------------
(* Every first check hands a well-formed request to its transaction. *)
LEMMA AdmitType ==
  ASSUME TypeOK, NEW h \in Handler, NEW r \in Request, Admit(h, r)
  PROVE  TypeOK'
BY LimitAssumption DEF TypeOK, Admit, noteVars, bookVars

LEMMA ArrivesType ==
  ASSUME TypeOK, NEW h \in Handler, Arrives(h)
  PROVE  \E r \in Request : Admit(h, r)
<1>1. CASE UpdateNote(h)
  BY <1>1 DEF UpdateNote, Request
<1>2. CASE DeleteNote(h)
  BY <1>2 DEF DeleteNote, Request
<1>3. CASE CreateShare(h)
  BY <1>3, FromBitsCaps DEF CreateShare, Request
<1>4. CASE DeleteShare(h)
  BY <1>4 DEF DeleteShare, Request
<1>5. CASE TransferOwnership(h)
  BY <1>5 DEF TransferOwnership, Request
<1>6. CASE CreateNotebookShare(h)
  BY <1>6, FromBitsCaps DEF CreateNotebookShare, Request
<1>7. CASE DeleteNotebookShare(h)
  BY <1>7 DEF DeleteNotebookShare, Request
<1>8. CASE TransferNotebook(h)
  BY <1>8 DEF TransferNotebook, Request
<1> QED BY <1>1, <1>2, <1>3, <1>4, <1>5, <1>6, <1>7, <1>8 DEF Arrives

(* What the fields of a request being served are. *)
LEMMA ServedFields ==
  ASSUME TypeOK, NEW h \in Handler, pc[h] = "tx"
  PROVE  LET r == req[h]
         IN  /\ r.user \in User
             /\ r.op = "update_note" => r.note \in Note /\ r.dest \in Place
             /\ r.op = "delete_note" => r.note \in Note
             /\ r.op = "create_share" =>
                  r.note \in Note /\ r.target \in User /\ r.caps \in SUBSET Capability
             /\ r.op \in {"delete_share", "transfer_ownership"} => r.note \in Note /\ r.target \in User
             /\ r.op = "create_notebook_share" =>
                  r.book \in Notebook /\ r.target \in User /\ r.caps \in SUBSET Capability
             /\ r.op \in {"delete_notebook_share", "transfer_notebook"} =>
                  r.book \in Notebook /\ r.target \in User
BY DEF TypeOK, Request

LEMMA LeavesType ==
  ASSUME TypeOK, NEW h \in Handler, NEW next \in {"idle", "notify"}, Leaves(h, next)
  PROVE  /\ pc' \in [Handler -> {"idle", "tx", "notify"}]
         /\ req' \in [Handler -> Request \cup {NoRequest}]
         /\ \A g \in Handler : pc'[g] = "tx" => req'[g] \in Request
         /\ attempt' \in [Handler -> 0 .. MaxAttempts]
         /\ served' \in 0 .. MaxRequests
BY LimitAssumption DEF TypeOK, Leaves

LEMMA CommittedType ==
  ASSUME TypeOK, NEW h \in Handler, NEW told \in SUBSET User, Committed(h, told)
  PROVE  /\ pc' \in [Handler -> {"idle", "tx", "notify"}]
         /\ req' \in [Handler -> Request \cup {NoRequest}]
         /\ \A g \in Handler : pc'[g] = "tx" => req'[g] \in Request
         /\ attempt' \in [Handler -> 0 .. MaxAttempts]
         /\ notices' \in [Handler -> SUBSET User] /\ served' \in 0 .. MaxRequests
<1>1. Leaves(h, IF told = {} THEN "idle" ELSE "notify")
  BY DEF Committed
<1>2. (IF told = {} THEN "idle" ELSE "notify") \in {"idle", "notify"}
  OBVIOUS
<1>3. notices' \in [Handler -> SUBSET User]
  BY DEF Committed, TypeOK
<1> QED BY <1>1, <1>2, <1>3, LeavesType

LEMMA CommitsType ==
  ASSUME TypeOK, NEW h \in Handler, Commits(h)
  PROVE  TypeOK'
<1>1. CASE UpdateNoteTx(h)
  <2> DEFINE r == req[h]
             told == IF r.dest # place[r.note]
                     THEN Losers(r.note, r.user, r.dest) \cup
                            (IF Ejection(r.note, r.user, r.dest) THEN {owner[r.note]} \ {r.user} ELSE {})
                     ELSE {}
  <2>1. r.note \in Note /\ r.dest \in Place
    BY <1>1, ServedFields DEF UpdateNoteTx, Serving
  <2>2. told \in SUBSET User
    BY <2>1 DEF Losers, TypeOK
  <2>3. Committed(h, told)
    BY <1>1 DEF UpdateNoteTx, UpdateNoteMeta
  <2> HIDE DEF told
  <2>4. place' \in [Note -> Place] /\ UNCHANGED <<owner, live, share, bookVars>>
    BY <1>1, <2>1 DEF UpdateNoteTx, UpdateNoteMeta, TypeOK
  <2> QED BY <2>2, <2>3, <2>4, CommittedType DEF TypeOK, bookVars
<1>2. CASE DeleteNoteTx(h)
  <2>1. Committed(h, {}) /\ live' \in [Note -> BOOLEAN] /\ UNCHANGED <<owner, place, share, bookVars>>
    BY <1>2, ServedFields DEF DeleteNoteTx, SoftDeleteNote, Serving, TypeOK
  <2> QED BY <2>1, CommittedType DEF TypeOK, bookVars
<1>3. CASE CreateShareTx(h)
  <2>1. /\ Committed(h, {}) /\ UNCHANGED <<owner, live, place, bookVars>>
        /\ share' \in [Note -> [User -> SUBSET Capability]]
    BY <1>3, ServedFields DEF CreateShareTx, CreateOrUpdateShare, Serving, TypeOK
  <2> QED BY <2>1, CommittedType DEF TypeOK, bookVars
<1>4. CASE DeleteShareTx(h)
  <2> DEFINE r == req[h]
             told == IF share[r.note][r.target] # {} THEN {r.target} \ {r.user} ELSE {}
  <2>1. r.note \in Note /\ r.target \in User
    BY <1>4, ServedFields DEF DeleteShareTx, Serving
  <2>2. told \in SUBSET User /\ Committed(h, told)
    BY <1>4, <2>1 DEF DeleteShareTx, DropShare
  <2> HIDE DEF told
  <2>3. UNCHANGED <<owner, live, place, bookVars>> /\ share' \in [Note -> [User -> SUBSET Capability]]
    BY <1>4, <2>1 DEF DeleteShareTx, DropShare, TypeOK
  <2> QED BY <2>2, <2>3, CommittedType DEF TypeOK, bookVars
<1>5. CASE TransferOwnershipTx(h)
  <2>1. /\ Committed(h, {}) /\ UNCHANGED <<live, place, bookVars>>
        /\ share' \in [Note -> [User -> SUBSET Capability]] /\ owner' \in [Note -> User]
    BY <1>5, ServedFields DEF TransferOwnershipTx, DropShare, SetNoteOwner, Serving, TypeOK
  <2> QED BY <2>1, CommittedType DEF TypeOK, bookVars
<1>6. CASE CreateNotebookShareTx(h)
  <2>1. /\ Committed(h, {}) /\ UNCHANGED <<noteVars, bookOwner, bookLive>>
        /\ bookShare' \in [Notebook -> [User -> SUBSET Capability]]
    BY <1>6, ServedFields DEF CreateNotebookShareTx, CreateOrUpdateNotebookShare, Serving, TypeOK
  <2> QED BY <2>1, CommittedType DEF TypeOK, noteVars
<1>7. CASE DeleteNotebookShareTx(h)
  <2> DEFINE r == req[h]
             told == IF bookShare[r.book][r.target] # {} THEN {r.target} \ {r.user} ELSE {}
  <2>1. r.book \in Notebook /\ r.target \in User
    BY <1>7, ServedFields DEF DeleteNotebookShareTx, Serving
  <2>2. told \in SUBSET User /\ Committed(h, told)
    BY <1>7, <2>1 DEF DeleteNotebookShareTx, DropNotebookShare
  <2> HIDE DEF told
  <2>3. /\ UNCHANGED <<noteVars, bookOwner, bookLive>>
        /\ bookShare' \in [Notebook -> [User -> SUBSET Capability]]
    BY <1>7, <2>1 DEF DeleteNotebookShareTx, DropNotebookShare, TypeOK
  <2> QED BY <2>2, <2>3, CommittedType DEF TypeOK, noteVars
<1>8. CASE TransferNotebookTx(h)
  <2>1. /\ Committed(h, {}) /\ UNCHANGED <<noteVars, bookLive>>
        /\ bookShare' \in [Notebook -> [User -> SUBSET Capability]] /\ bookOwner' \in [Notebook -> User]
    BY <1>8, ServedFields DEF TransferNotebookTx, DropNotebookShare, SetNotebookOwner, Serving, TypeOK
  <2> QED BY <2>1, CommittedType DEF TypeOK, noteVars
<1> QED BY <1>1, <1>2, <1>3, <1>4, <1>5, <1>6, <1>7, <1>8 DEF Commits

LEMMA InitType == Init => TypeOK
BY LimitAssumption DEF Init, TypeOK, Place

LEMMA NextType == TypeOK /\ [Next]_vars => TypeOK'
<1> SUFFICES ASSUME TypeOK, [Next]_vars PROVE TypeOK'
  OBVIOUS
<1>1. ASSUME NEW h \in Handler, Arrives(h) PROVE TypeOK'
  BY <1>1, ArrivesType, AdmitType
<1>2. ASSUME NEW h \in Handler, Commits(h) PROVE TypeOK'
  BY <1>2, CommitsType
<1>3. ASSUME NEW h \in Handler, Refused(h) \/ Exhausted(h) PROVE TypeOK'
  <2>1. Leaves(h, "idle") /\ UNCHANGED <<noteVars, bookVars, notices>>
    BY <1>3 DEF Refused, Exhausted
  <2> QED BY <2>1, LeavesType DEF TypeOK, noteVars, bookVars
<1>4. ASSUME NEW h \in Handler, SerializationFailure(h) PROVE TypeOK'
  BY <1>4, LimitAssumption DEF SerializationFailure, TypeOK, noteVars, bookVars
<1>5. ASSUME NEW h \in Handler, NotifyAccessRevoked(h) PROVE TypeOK'
  BY <1>5 DEF NotifyAccessRevoked, TypeOK, noteVars, bookVars
<1>6. ASSUME NEW b \in Notebook, DeleteNotebook(b) \/ UpsertNotebook(b) PROVE TypeOK'
  <2>1. bookLive' \in [Notebook -> BOOLEAN]
    BY <1>6 DEF DeleteNotebook, UpsertNotebook, TypeOK
  <2>2. served' \in 0 .. MaxRequests
    BY <1>6, LimitAssumption DEF DeleteNotebook, UpsertNotebook, TypeOK
  <2>3. UNCHANGED <<noteVars, bookOwner, bookShare, pc, req, attempt, notices>>
    BY <1>6 DEF DeleteNotebook, UpsertNotebook
  <2> QED BY <2>1, <2>2, <2>3 DEF TypeOK, noteVars
<1>7. CASE UNCHANGED vars
  BY <1>7 DEF vars, noteVars, bookVars, TypeOK
<1> QED BY <1>1, <1>2, <1>3, <1>4, <1>5, <1>6, <1>7 DEF Next

(* Tables and requests keep their shape, and no transaction is tried more     *)
(* than MaxAttempts times, for any number of users, notes and requests.       *)
THEOREM TypeCorrect == Spec => []TypeOK
BY InitType, NextType, PTL DEF Spec

-----------------------------------------------------------------------------
LEMMA InitOwners == Init => OwnersHoldNoShares
BY DEF Init, OwnersHoldNoShares

LEMMA NextOwners == TypeOK /\ OwnersHoldNoShares /\ [Next]_vars => OwnersHoldNoShares'
<1> SUFFICES ASSUME TypeOK, OwnersHoldNoShares, [Next]_vars PROVE OwnersHoldNoShares'
  OBVIOUS
<1>1. CASE UNCHANGED <<owner, share, bookOwner, bookShare>>
  BY <1>1 DEF OwnersHoldNoShares
<1>2. ASSUME NEW h \in Handler, CreateShareTx(h) PROVE OwnersHoldNoShares'
  <2>1. req[h].note \in Note /\ req[h].target \in User
    BY <1>2, ServedFields DEF CreateShareTx, Serving
  <2>2. /\ share' = [share EXCEPT ![req[h].note][req[h].target] = req[h].caps]
        /\ req[h].target # owner[req[h].note]
        /\ UNCHANGED <<owner, bookOwner, bookShare>>
    BY <1>2 DEF CreateShareTx, CreateOrUpdateShare, MayCreateShare, bookVars
  <2> QED BY <2>1, <2>2 DEF OwnersHoldNoShares, TypeOK
<1>3. ASSUME NEW h \in Handler, DeleteShareTx(h) PROVE OwnersHoldNoShares'
  <2>1. /\ share' = [share EXCEPT ![req[h].note][req[h].target] = {}]
        /\ UNCHANGED <<owner, bookOwner, bookShare>>
    BY <1>3 DEF DeleteShareTx, DropShare, bookVars
  <2>2. req[h].note \in Note /\ req[h].target \in User
    BY <1>3, ServedFields DEF DeleteShareTx, Serving
  <2> QED BY <2>1, <2>2 DEF OwnersHoldNoShares, TypeOK
<1>4. ASSUME NEW h \in Handler, TransferOwnershipTx(h) PROVE OwnersHoldNoShares'
  <2>1. /\ share' = [share EXCEPT ![req[h].note][req[h].target] = {}]
        /\ owner' = [owner EXCEPT ![req[h].note] = req[h].target]
        /\ UNCHANGED <<bookOwner, bookShare>>
    BY <1>4 DEF TransferOwnershipTx, DropShare, SetNoteOwner, bookVars
  <2>2. req[h].note \in Note /\ req[h].target \in User
    BY <1>4, ServedFields DEF TransferOwnershipTx, Serving
  <2> QED BY <2>1, <2>2 DEF OwnersHoldNoShares, TypeOK
<1>5. ASSUME NEW h \in Handler, CreateNotebookShareTx(h) PROVE OwnersHoldNoShares'
  <2>1. req[h].book \in Notebook /\ req[h].target \in User
    BY <1>5, ServedFields DEF CreateNotebookShareTx, Serving
  <2>2. /\ bookShare' = [bookShare EXCEPT ![req[h].book][req[h].target] = req[h].caps]
        /\ req[h].target # bookOwner[req[h].book]
        /\ UNCHANGED <<owner, share, bookOwner>>
    BY <1>5 DEF CreateNotebookShareTx, CreateOrUpdateNotebookShare, MayCreateNotebookShare, noteVars
  <2> QED BY <2>1, <2>2 DEF OwnersHoldNoShares, TypeOK
<1>6. ASSUME NEW h \in Handler, DeleteNotebookShareTx(h) PROVE OwnersHoldNoShares'
  <2>1. /\ bookShare' = [bookShare EXCEPT ![req[h].book][req[h].target] = {}]
        /\ UNCHANGED <<owner, share, bookOwner>>
    BY <1>6 DEF DeleteNotebookShareTx, DropNotebookShare, noteVars
  <2>2. req[h].book \in Notebook /\ req[h].target \in User
    BY <1>6, ServedFields DEF DeleteNotebookShareTx, Serving
  <2> QED BY <2>1, <2>2 DEF OwnersHoldNoShares, TypeOK
<1>7. ASSUME NEW h \in Handler, TransferNotebookTx(h) PROVE OwnersHoldNoShares'
  <2>1. /\ bookShare' = [bookShare EXCEPT ![req[h].book][req[h].target] = {}]
        /\ bookOwner' = [bookOwner EXCEPT ![req[h].book] = req[h].target]
        /\ UNCHANGED <<owner, share>>
    BY <1>7 DEF TransferNotebookTx, DropNotebookShare, SetNotebookOwner, noteVars
  <2>2. req[h].book \in Notebook /\ req[h].target \in User
    BY <1>7, ServedFields DEF TransferNotebookTx, Serving
  <2> QED BY <2>1, <2>2 DEF OwnersHoldNoShares, TypeOK
<1>8. ASSUME NEW h \in Handler,
             Arrives(h) \/ UpdateNoteTx(h) \/ DeleteNoteTx(h) \/ Refused(h)
               \/ SerializationFailure(h) \/ Exhausted(h) \/ NotifyAccessRevoked(h)
      PROVE  UNCHANGED <<owner, share, bookOwner, bookShare>>
  <2>1. CASE Arrives(h)
    <3>1. PICK r \in Request : Admit(h, r)
      BY <2>1, ArrivesType
    <3> QED BY <3>1 DEF Admit, noteVars, bookVars
  <2> QED BY <1>8, <2>1 DEF UpdateNoteTx, DeleteNoteTx, Refused, SerializationFailure, Exhausted,
                            NotifyAccessRevoked, noteVars, bookVars
<1>9. ASSUME NEW b \in Notebook, DeleteNotebook(b) \/ UpsertNotebook(b)
      PROVE  UNCHANGED <<owner, share, bookOwner, bookShare>>
  BY <1>9 DEF DeleteNotebook, UpsertNotebook, noteVars
<1>10. CASE UNCHANGED vars
  BY <1>1, <1>10 DEF vars, noteVars, bookVars
<1> QED BY <1>1, <1>2, <1>3, <1>4, <1>5, <1>6, <1>7, <1>8, <1>9, <1>10 DEF Next, Commits

(* create_share, transfer_ownership and their notebook twins never leave an  *)
(* owner with a share row, in whatever order their transactions commit.      *)
THEOREM OwnersNeverHoldShares == Spec => []OwnersHoldNoShares
BY InitType, NextType, InitOwners, NextOwners, PTL DEF Spec

-----------------------------------------------------------------------------
(* What DelegationNeverAmplifies says of one step of one handler. *)
Passes(h) ==
  \A u \in User :
    /\ \A n \in Note : NoteCaps(n, u)' \ NoteCaps(n, u) \subseteq NoteCaps(n, req[h].user)
    /\ \A b \in Notebook : BookCaps(b, u)' \ BookCaps(b, u) \subseteq BookCaps(b, req[h].user)

(* Nobody has more than the five capabilities. *)
LEMMA CapsBounded ==
  ASSUME NEW u \in User
  PROVE  /\ \A n \in Note : NoteCaps(n, u) \subseteq Capability /\ NoteCaps(n, u)' \subseteq Capability
         /\ \A b \in Notebook : BookCaps(b, u) \subseteq Capability /\ BookCaps(b, u)' \subseteq Capability
<1>1. \A n \in Note : NoteCaps(n, u) \subseteq Capability /\ NoteCaps(n, u)' \subseteq Capability
  BY FromBitsCaps DEF NoteCaps
<1>2. \A b \in Notebook : BookCaps(b, u) \subseteq Capability /\ BookCaps(b, u)' \subseteq Capability
  BY FromBitsCaps DEF BookCaps
<1> QED BY <1>1, <1>2

(* With the notebooks untouched, so is access to them and what notes inherit. *)
LEMMA BooksUntouched ==
  ASSUME UNCHANGED bookVars, NEW u \in User
  PROVE  /\ \A b \in Notebook : BookCaps(b, u)' = BookCaps(b, u)
         /\ \A p \in Place : Inherited(p, u)' = Inherited(p, u)
<1>1. \A b \in Notebook : BookCaps(b, u)' = BookCaps(b, u)
  BY DEF bookVars, BookCaps, IsBookOwner, BookShareOf
<1> QED BY <1>1 DEF Inherited, Place

(* A step that touches at most one note's owner, place or shares. *)
LEMMA OneNote ==
  ASSUME TypeOK, NEW h \in Handler, NEW m \in Note, UNCHANGED bookVars,
         \A n \in Note \ {m} :
           owner'[n] = owner[n] /\ place'[n] = place[n] /\ share'[n] = share[n],
         \A u \in User : NoteCaps(m, u)' \ NoteCaps(m, u) \subseteq NoteCaps(m, req[h].user)
  PROVE  Passes(h)
<1> SUFFICES ASSUME NEW u \in User
             PROVE  /\ \A n \in Note : NoteCaps(n, u)' \ NoteCaps(n, u) \subseteq NoteCaps(n, req[h].user)
                    /\ \A b \in Notebook : BookCaps(b, u)' = BookCaps(b, u)
  BY DEF Passes
<1>1. \A b \in Notebook : BookCaps(b, u)' = BookCaps(b, u)
  BY BooksUntouched
<1>2. ASSUME NEW n \in Note, n # m PROVE NoteCaps(n, u)' = NoteCaps(n, u)
  <2>1. Inherited(place[n], u)' = Inherited(place[n], u)
    <3>1. place[n] \in Place /\ place'[n] = place[n]
      BY <1>2 DEF TypeOK
    <3>2. ASSUME NEW p \in Place PROVE Inherited(p, u)' = Inherited(p, u)
      BY <3>2, BooksUntouched
    <3> QED BY <3>1, <3>2 DEF Inherited, bookVars, BookCaps, IsBookOwner, BookShareOf
  <2> QED BY <1>2, <2>1 DEF NoteCaps
<1> QED BY <1>1, <1>2

(* A note changes only by its owner, or loses what it passed on. *)
LEMMA UpdateNotePasses ==
  ASSUME TypeOK, NEW h \in Handler, UpdateNoteTx(h)
  PROVE  Passes(h)
<1> DEFINE r == req[h]
<1>0. PICK m \in Note : m = r.note
  BY ServedFields DEF UpdateNoteTx, Serving
<1>1. r.dest \in Place /\ r.user \in User
  BY ServedFields DEF UpdateNoteTx, Serving
<1>2. place' = [place EXCEPT ![m] = r.dest] /\ UNCHANGED <<owner, live, share, bookVars>>
  BY <1>0 DEF UpdateNoteTx, UpdateNoteMeta
<1>3. MayUpdateNote(r)
  BY DEF UpdateNoteTx, UpdateNoteMeta
<1>4. ASSUME NEW u \in User PROVE NoteCaps(m, u)' \ NoteCaps(m, u) \subseteq NoteCaps(m, r.user)
  <2>1. CASE owner[m] = r.user
    BY <1>1, <2>1, CapsBounded DEF NoteCaps
  <2>2. CASE r.dest = place[m]
    <3>1. place' = place
      BY <1>1, <1>2, <2>2 DEF TypeOK
    <3> QED BY <3>1, <1>2 DEF NoteCaps, Inherited, BookCaps, IsBookOwner, BookShareOf, bookVars
  <2>3. CASE owner[m] # r.user /\ r.dest # place[m]
    <3>1. r.dest = Inbox
      BY <1>0, <1>3, <2>3 DEF MayUpdateNote, MayMove, Ejection
    <3>2. Inherited(place[m], u)' = {}
      BY <1>1, <1>2, <3>1 DEF Inherited, TypeOK
    <3>3. FromBits({}) = {}
      BY DEF FromBits
    <3>4. NoteCaps(m, u)' = IF owner[m] = u THEN Capability ELSE FromBits(share[m][u])
      <4>1. NoteCaps(m, u)' = IF owner'[m] = u THEN Capability
                              ELSE FromBits(share'[m][u]) \cup FromBits(Inherited(place[m], u)')
        BY NoteCapsPartsNext
      <4>2. FromBits(Inherited(place[m], u)') = {}
        BY <3>2, <3>3
      <4>3. owner'[m] = owner[m] /\ share'[m][u] = share[m][u]
        BY <1>2
      <4> QED BY <4>1, <4>2, <4>3
    <3> QED BY <3>4, NoteCapsParts
  <2> QED BY <2>1, <2>2, <2>3
<1>5. \A n \in Note \ {m} : owner'[n] = owner[n] /\ place'[n] = place[n] /\ share'[n] = share[n]
  BY <1>1, <1>2 DEF TypeOK
<1> QED BY <1>1, <1>2, <1>4, <1>5, OneNote

LEMMA CreateSharePasses ==
  ASSUME TypeOK, NEW h \in Handler, CreateShareTx(h)
  PROVE  Passes(h)
<1> DEFINE r == req[h]
<1>0. PICK m \in Note : m = r.note
  BY ServedFields DEF CreateShareTx, Serving
<1>1. r.target \in User /\ r.caps \in SUBSET Capability /\ r.user \in User
  BY ServedFields DEF CreateShareTx, Serving
<1>2. /\ share' = [share EXCEPT ![m][r.target] = r.caps]
      /\ UNCHANGED <<owner, live, place, bookVars>>
  BY <1>0 DEF CreateShareTx, CreateOrUpdateShare
<1>3. r.caps \subseteq NoteCaps(m, r.user)
  BY <1>0 DEF CreateShareTx, CreateOrUpdateShare, MayCreateShare
<1>4. ASSUME NEW u \in User PROVE NoteCaps(m, u)' \ NoteCaps(m, u) \subseteq NoteCaps(m, r.user)
  <2>1. Inherited(place[m], u)' = Inherited(place[m], u)
    BY <1>2 DEF Inherited, BookCaps, IsBookOwner, BookShareOf, bookVars
  <2>2. CASE u # r.target
    <3>1. share'[m][u] = share[m][u]
      BY <1>1, <1>2, <2>2 DEF TypeOK
    <3> QED BY <1>2, <2>1, <3>1 DEF NoteCaps
  <2>3. CASE u = r.target
    <3>1. share'[m][u] = r.caps
      BY <1>1, <1>2, <2>3 DEF TypeOK
    <3>2. NoteCaps(m, u)' = IF owner[m] = u THEN Capability
                            ELSE FromBits(r.caps) \cup FromBits(Inherited(place[m], u))
      BY <1>2, <2>1, <3>1, NoteCapsPartsNext
    <3>3. FromBits(r.caps) \subseteq NoteCaps(m, r.user)
      <4>1. CASE owner[m] = r.user
        BY <4>1, FromBitsCaps DEF NoteCaps
      <4>2. CASE owner[m] # r.user
        BY <1>3, <4>2, FromBitsWithin DEF NoteCaps
      <4> QED BY <4>1, <4>2
    <3>4. CASE owner[m] = u
      BY <3>2, <3>4 DEF NoteCaps
    <3>5. CASE owner[m] # u
      BY <1>1, <3>2, <3>3, <3>5, NoteCapsParts
    <3> QED BY <3>4, <3>5
  <2> QED BY <2>2, <2>3
<1>5. \A n \in Note \ {m} : owner'[n] = owner[n] /\ place'[n] = place[n] /\ share'[n] = share[n]
  BY <1>1, <1>2 DEF TypeOK
<1> QED BY <1>1, <1>2, <1>4, <1>5, OneNote

LEMMA DeleteSharePasses ==
  ASSUME TypeOK, NEW h \in Handler, DeleteShareTx(h)
  PROVE  Passes(h)
<1> DEFINE r == req[h]
<1>0. PICK m \in Note : m = r.note
  BY ServedFields DEF DeleteShareTx, Serving
<1>1. r.target \in User
  BY ServedFields DEF DeleteShareTx, Serving
<1>2. /\ share' = [share EXCEPT ![m][r.target] = {}]
      /\ UNCHANGED <<owner, live, place, bookVars>>
  BY <1>0 DEF DeleteShareTx, DropShare
<1>3. ASSUME NEW u \in User PROVE NoteCaps(m, u)' \subseteq NoteCaps(m, u)
  <2>1. Inherited(place[m], u)' = Inherited(place[m], u)
    BY <1>2 DEF Inherited, BookCaps, IsBookOwner, BookShareOf, bookVars
  <2>2. share'[m][u] \subseteq share[m][u]
    BY <1>1, <1>2 DEF TypeOK
  <2>3. FromBits(share'[m][u]) \subseteq FromBits(share[m][u])
    BY <2>2, FromBitsMonotone
  <2> QED BY <1>2, <2>1, <2>3, NoteCapsParts, NoteCapsPartsNext
<1>4. \A n \in Note \ {m} : owner'[n] = owner[n] /\ place'[n] = place[n] /\ share'[n] = share[n]
  BY <1>1, <1>2 DEF TypeOK
<1> QED BY <1>1, <1>2, <1>3, <1>4, OneNote

LEMMA TransferOwnershipPasses ==
  ASSUME TypeOK, NEW h \in Handler, TransferOwnershipTx(h)
  PROVE  Passes(h)
<1> DEFINE r == req[h]
<1>0. PICK m \in Note : m = r.note
  BY ServedFields DEF TransferOwnershipTx, Serving
<1>1. r.target \in User /\ r.user \in User
  BY ServedFields DEF TransferOwnershipTx, Serving
<1>2. /\ share' = [share EXCEPT ![m][r.target] = {}]
      /\ owner' = [owner EXCEPT ![m] = r.target]
      /\ UNCHANGED <<live, place, bookVars>>
  BY <1>0 DEF TransferOwnershipTx, DropShare, SetNoteOwner
<1>3. owner[m] = r.user
  BY <1>0 DEF TransferOwnershipTx, DropShare, SetNoteOwner, IsNoteOwner
<1>4. ASSUME NEW u \in User PROVE NoteCaps(m, u)' \ NoteCaps(m, u) \subseteq NoteCaps(m, r.user)
  <2>1. NoteCaps(m, r.user) = Capability
    BY <1>3 DEF NoteCaps
  <2>2. NoteCaps(m, u)' \subseteq Capability
    BY <1>1, CapsBounded
  <2> QED BY <2>1, <2>2
<1>5. \A n \in Note \ {m} : owner'[n] = owner[n] /\ place'[n] = place[n] /\ share'[n] = share[n]
  BY <1>1, <1>2 DEF TypeOK
<1> QED BY <1>1, <1>2, <1>4, <1>5, OneNote

(* What a notebook passes on is at most read and write, which everybody who   *)
(* may share the notebook has on its notes already.                           *)
LEMMA InheritedPasses ==
  ASSUME TypeOK, NEW h \in Handler, req[h].user \in User, NEW c \in Notebook, UNCHANGED noteVars,
         \A u \in User, b \in Notebook \ {c} : BookCaps(b, u)' = BookCaps(b, u),
         "share_write" \in BookCaps(c, req[h].user),
         \A u \in User : BookCaps(c, u)' \ BookCaps(c, u) \subseteq BookCaps(c, req[h].user)
  PROVE  Passes(h)
<1> DEFINE s == req[h].user
<1> SUFFICES ASSUME NEW u \in User, NEW n \in Note
             PROVE  NoteCaps(n, u)' \ NoteCaps(n, u) \subseteq NoteCaps(n, s)
  BY DEF Passes
<1>1. place[n] \in Place /\ place'[n] = place[n] /\ owner'[n] = owner[n] /\ share'[n] = share[n]
  BY DEF TypeOK, noteVars
<1>2. CASE place[n] # c
  <2>1. Inherited(place[n], u)' = Inherited(place[n], u)
    <3>1. CASE place[n] = Inbox
      BY <1>1, <3>1 DEF Inherited
    <3>2. CASE place[n] # Inbox
      <4>1. PICK b \in Notebook \ {c} : b = place[n]
        BY <1>1, <1>2, <3>2 DEF Place
      <4>2. Inherited(place[n], u)' = BookCaps(b, u)' \cap NotebookInheritance
        BY <1>1, <3>2, <4>1 DEF Inherited, BookCaps, IsBookOwner, BookShareOf, NotebookInheritance
      <4> QED BY <3>2, <4>1, <4>2 DEF Inherited
    <3> QED BY <3>1, <3>2
  <2> QED BY <1>1, <2>1, NoteCapsParts, NoteCapsPartsNext
<1>3. CASE place[n] = c
  <2>1. {"read", "write"} \subseteq BookCaps(c, s)
    <3>1. CASE IsBookOwner(c, s)
      BY <3>1 DEF BookCaps, Capability
    <3>2. CASE ~IsBookOwner(c, s)
      <4>1. {"share_write"} \subseteq FromBits(BookShareOf(c, s))
        BY <3>2 DEF BookCaps
      <4>2. {"read", "write"} \subseteq FromBits({"share_write"})
        BY DEF FromBits, Implied, Capability
      <4> QED BY <3>2, <4>1, <4>2, FromBitsWithin DEF BookCaps
    <3> QED BY <3>1, <3>2
  <2>2. c # Inbox
    BY InboxAssumption
  <2>3. Inherited(place[n], s) = {"read", "write"}
    BY <1>3, <2>1, <2>2 DEF Inherited, NotebookInheritance
  <2>4. FromBits({"read", "write"}) = {"read", "write"}
    BY DEF FromBits, Implied, Capability
  <2>5. {"read", "write"} \subseteq NoteCaps(n, s)
    BY <2>3, <2>4, NoteCapsParts DEF Capability
  <2>6. Inherited(place[n], u)' \subseteq {"read", "write"}
    BY <1>1, <1>3, <2>2 DEF Inherited, NotebookInheritance
  <2>7. FromBits(Inherited(place[n], u)') \subseteq {"read", "write"}
    BY <2>4, <2>6, FromBitsMonotone
  <2> QED BY <1>1, <2>5, <2>7, NoteCapsParts, NoteCapsPartsNext
<1> QED BY <1>2, <1>3

LEMMA InheritedShrinks ==
  ASSUME TypeOK, NEW h \in Handler, UNCHANGED noteVars,
         \A u \in User, b \in Notebook : BookCaps(b, u)' \subseteq BookCaps(b, u)
  PROVE  Passes(h)
<1> SUFFICES ASSUME NEW u \in User, NEW n \in Note PROVE NoteCaps(n, u)' \subseteq NoteCaps(n, u)
  BY DEF Passes
<1>1. place[n] \in Place /\ place'[n] = place[n] /\ owner'[n] = owner[n] /\ share'[n] = share[n]
  BY DEF TypeOK, noteVars
<1>2. Inherited(place[n], u)' \subseteq Inherited(place[n], u)
  <2>1. CASE place[n] = Inbox
    BY <1>1, <2>1 DEF Inherited
  <2>2. CASE place[n] # Inbox
    <3>1. PICK b \in Notebook : b = place[n]
      BY <1>1, <2>2 DEF Place
    <3>2. Inherited(place[n], u)' = BookCaps(b, u)' \cap NotebookInheritance
      BY <1>1, <2>2, <3>1 DEF Inherited, BookCaps, IsBookOwner, BookShareOf, NotebookInheritance
    <3> QED BY <2>2, <3>1, <3>2 DEF Inherited
  <2> QED BY <2>1, <2>2
<1>3. FromBits(Inherited(place[n], u)') \subseteq FromBits(Inherited(place[n], u))
  BY <1>2, FromBitsMonotone
<1> QED BY <1>1, <1>3, NoteCapsParts, NoteCapsPartsNext

LEMMA CreateNotebookSharePasses ==
  ASSUME TypeOK, NEW h \in Handler, CreateNotebookShareTx(h)
  PROVE  Passes(h)
<1> DEFINE r == req[h]
<1>0. PICK c \in Notebook : c = r.book
  BY ServedFields DEF CreateNotebookShareTx, Serving
<1>1. r.target \in User /\ r.caps \in SUBSET Capability /\ r.user \in User
  BY ServedFields DEF CreateNotebookShareTx, Serving
<1>2. /\ bookShare' = [bookShare EXCEPT ![c][r.target] = r.caps]
      /\ UNCHANGED <<noteVars, bookOwner, bookLive>>
  BY <1>0 DEF CreateNotebookShareTx, CreateOrUpdateNotebookShare
<1>3. "share_write" \in BookCaps(c, r.user) /\ r.caps \subseteq BookCaps(c, r.user)
  BY <1>0 DEF CreateNotebookShareTx, CreateOrUpdateNotebookShare, MayCreateNotebookShare
<1>4. ASSUME NEW u \in User, NEW b \in Notebook, b # c \/ u # r.target
      PROVE  BookCaps(b, u)' = BookCaps(b, u)
  <2>1. bookShare'[b][u] = bookShare[b][u]
    BY <1>1, <1>2, <1>4 DEF TypeOK
  <2> QED BY <1>2, <2>1 DEF BookCaps, IsBookOwner, BookShareOf
<1>5. FromBits(r.caps) \subseteq BookCaps(c, r.user)
  <2>1. CASE IsBookOwner(c, r.user)
    BY <2>1, FromBitsCaps DEF BookCaps
  <2>2. CASE ~IsBookOwner(c, r.user)
    BY <1>3, <2>2, FromBitsWithin DEF BookCaps
  <2> QED BY <2>1, <2>2
<1>6. ASSUME NEW u \in User, u = r.target
      PROVE  BookCaps(c, u)' \ BookCaps(c, u) \subseteq BookCaps(c, r.user)
  <2>1. bookShare'[c][u] = r.caps
    BY <1>1, <1>2, <1>6 DEF TypeOK
  <2>2. CASE bookLive[c] /\ bookOwner[c] # u
    <3>1. BookCaps(c, u)' = FromBits(r.caps)
      BY <1>2, <2>1, <2>2 DEF BookCaps, IsBookOwner, BookShareOf
    <3> QED BY <1>5, <3>1
  <2>3. CASE ~bookLive[c] \/ bookOwner[c] = u
    BY <1>2, <2>3 DEF BookCaps, IsBookOwner, BookShareOf
  <2> QED BY <2>2, <2>3
<1>7. \A u \in User : BookCaps(c, u)' \ BookCaps(c, u) \subseteq BookCaps(c, r.user)
  BY <1>4, <1>6
<1> QED BY <1>1, <1>2, <1>3, <1>4, <1>7, InheritedPasses

LEMMA DeleteNotebookSharePasses ==
  ASSUME TypeOK, NEW h \in Handler, DeleteNotebookShareTx(h)
  PROVE  Passes(h)
<1> DEFINE r == req[h]
<1>0. PICK c \in Notebook : c = r.book
  BY ServedFields DEF DeleteNotebookShareTx, Serving
<1>1. r.target \in User
  BY ServedFields DEF DeleteNotebookShareTx, Serving
<1>2. /\ bookShare' = [bookShare EXCEPT ![c][r.target] = {}]
      /\ UNCHANGED <<noteVars, bookOwner, bookLive>>
  BY <1>0 DEF DeleteNotebookShareTx, DropNotebookShare
<1>3. ASSUME NEW u \in User, NEW b \in Notebook
      PROVE  BookCaps(b, u)' \subseteq BookCaps(b, u)
  <2>1. bookShare'[b][u] \subseteq bookShare[b][u]
    BY <1>1, <1>2 DEF TypeOK
  <2>2. FromBits(bookShare'[b][u]) \subseteq FromBits(bookShare[b][u])
    BY <2>1, FromBitsMonotone
  <2> QED BY <1>2, <2>2 DEF BookCaps, IsBookOwner, BookShareOf
<1> QED BY <1>2, <1>3, InheritedShrinks

LEMMA TransferNotebookPasses ==
  ASSUME TypeOK, NEW h \in Handler, TransferNotebookTx(h)
  PROVE  Passes(h)
<1> DEFINE r == req[h]
<1>0. PICK c \in Notebook : c = r.book
  BY ServedFields DEF TransferNotebookTx, Serving
<1>1. r.target \in User /\ r.user \in User
  BY ServedFields DEF TransferNotebookTx, Serving
<1>2. /\ bookOwner' = [bookOwner EXCEPT ![c] = r.target]
      /\ bookShare' = [bookShare EXCEPT ![c][r.target] = {}]
      /\ UNCHANGED <<noteVars, bookLive>>
  BY <1>0 DEF TransferNotebookTx, DropNotebookShare, SetNotebookOwner
<1>3. BookCaps(c, r.user) = Capability
  BY <1>0 DEF TransferNotebookTx, DropNotebookShare, SetNotebookOwner, IsNotebookOwner, BookCaps
<1>4. ASSUME NEW u \in User, NEW b \in Notebook \ {c} PROVE BookCaps(b, u)' = BookCaps(b, u)
  <2>1. bookShare'[b] = bookShare[b] /\ bookOwner'[b] = bookOwner[b]
    BY <1>1, <1>2, <1>4 DEF TypeOK
  <2> QED BY <1>2, <2>1 DEF BookCaps, IsBookOwner, BookShareOf
<1>5. \A u \in User : BookCaps(c, u)' \subseteq Capability
  BY CapsBounded
<1>6. "share_write" \in Capability
  BY DEF Capability
<1> QED BY <1>1, <1>2, <1>3, <1>4, <1>5, <1>6, InheritedPasses

(* Commits are the only steps that take a handler out of its transaction and   *)
(* touch the tables.                                                           *)
LEMMA StepPasses ==
  ASSUME TypeOK, [Next]_vars, NEW h \in Handler, pc[h] = "tx", pc'[h] # "tx"
  PROVE  Passes(h)
<1>1. PICK g \in Handler :
        Arrives(g) \/ Commits(g) \/ Refused(g) \/ SerializationFailure(g) \/ Exhausted(g)
          \/ NotifyAccessRevoked(g)
  BY DEF Next, DeleteNotebook, UpsertNotebook, vars
<1>2. CASE Commits(g)
  <2>1. PICK told : Committed(g, told)
    BY <1>2 DEF Commits, UpdateNoteTx, DeleteNoteTx, CreateShareTx, DeleteShareTx, TransferOwnershipTx,
                CreateNotebookShareTx, DeleteNotebookShareTx, TransferNotebookTx
  <2>2. g = h
    BY <2>1 DEF Committed, Leaves, TypeOK
  <2>3. CASE DeleteNoteTx(h)
    <3>1. UNCHANGED <<owner, place, share, bookVars>>
      BY <2>3 DEF DeleteNoteTx, SoftDeleteNote
    <3> QED BY <3>1 DEF Passes, NoteCaps, Inherited, BookCaps, IsBookOwner, BookShareOf, bookVars
  <2> QED BY <1>2, <2>2, <2>3, UpdateNotePasses, CreateSharePasses, DeleteSharePasses,
             TransferOwnershipPasses, CreateNotebookSharePasses, DeleteNotebookSharePasses,
             TransferNotebookPasses DEF Commits
<1>3. CASE Refused(g) \/ SerializationFailure(g) \/ Exhausted(g) \/ NotifyAccessRevoked(g)
  <2>1. UNCHANGED <<noteVars, bookVars>>
    BY <1>3 DEF Refused, SerializationFailure, Exhausted, NotifyAccessRevoked
  <2> QED BY <2>1 DEF Passes, NoteCaps, Inherited, BookCaps, IsBookOwner, BookShareOf, noteVars, bookVars
<1>4. CASE Arrives(g)
  <2>1. PICK r \in Request : Admit(g, r)
    BY <1>4, ArrivesType
  <2> QED BY <2>1 DEF Admit, TypeOK
<1> QED BY <1>1, <1>2, <1>3, <1>4

(* Whatever requests race, a committed one gives nobody a capability its      *)
(* sender did not hold when it committed (the second check of create_share,   *)
(* create_notebook_share, transfer_ownership, transfer_notebook, update_note).*)
THEOREM AuthorityIsNeverMade == Spec => DelegationNeverAmplifies
<1>1. TypeOK /\ [Next]_vars =>
        [\A h \in Handler : pc[h] = "tx" /\ pc'[h] # "tx" =>
           \A u \in User :
             /\ \A n \in Note : NoteCaps(n, u)' \ NoteCaps(n, u) \subseteq NoteCaps(n, req[h].user)
             /\ \A b \in Notebook :
                  BookCaps(b, u)' \ BookCaps(b, u) \subseteq BookCaps(b, req[h].user)]_vars
  BY StepPasses DEF Passes
<1> QED BY <1>1, TypeCorrect, PTL DEF Spec, DelegationNeverAmplifies

-----------------------------------------------------------------------------
(* Every capability brings read access. *)
LEMMA ReadIffAny ==
  ASSUME NEW S \in SUBSET Capability
  PROVE  "read" \in FromBits(S) <=> S # {}
<1>1. \A c \in Capability : "read" \in Implied(c)
  BY DEF Implied, Capability
<1> QED BY <1>1 DEF FromBits

LEMMA ListingAgrees == TypeOK => ListedIsReadable
<1> SUFFICES ASSUME TypeOK, NEW u \in User, NEW n \in Note, live[n]
             PROVE  n \in Listed(u) <=> "read" \in NoteCaps(n, u)
  BY DEF ListedIsReadable, Listed
<1>1. "read" \in Capability
  BY DEF Capability
<1>2. CASE owner[n] = u
  BY <1>1, <1>2 DEF Listed, NoteCaps
<1>3. CASE owner[n] # u
  <2>1. "read" \in NoteCaps(n, u) <=>
          share[n][u] # {} \/ "read" \in FromBits(Inherited(place[n], u))
    <3>1. share[n][u] \in SUBSET Capability
      BY DEF TypeOK
    <3> QED BY <1>3, <3>1, ReadIffAny, NoteCapsParts
  <2>2. CASE place[n] = Inbox
    <3>1. Inherited(place[n], u) = {} /\ FromBits({}) = {}
      BY <2>2 DEF Inherited, FromBits
    <3> QED BY <1>3, <2>1, <2>2, <3>1 DEF Listed
  <2>3. CASE place[n] # Inbox
    <3>1. PICK b \in Notebook : b = place[n]
      BY <2>3 DEF TypeOK, Place
    <3>2. Inherited(b, u) = BookCaps(b, u) \cap {"read", "write"}
      BY <2>3, <3>1 DEF Inherited, NotebookInheritance
    <3>3. FromBits({"read", "write"}) = {"read", "write"}
      BY DEF FromBits, Implied, Capability
    <3>4. BookCaps(b, u) \subseteq Capability /\ ("read" \notin BookCaps(b, u) => BookCaps(b, u) = {})
      <4>1. CASE IsBookOwner(b, u)
        BY <1>1, <4>1 DEF BookCaps
      <4>2. CASE ~IsBookOwner(b, u)
        <5>1. BookShareOf(b, u) \in SUBSET Capability /\ FromBits({}) = {}
          BY DEF BookShareOf, TypeOK, FromBits
        <5> QED BY <4>2, <5>1, ReadIffAny, FromBitsCaps DEF BookCaps
      <4> QED BY <4>1, <4>2
    <3>5. "read" \in FromBits(Inherited(b, u)) <=> BookCaps(b, u) # {}
      <4>1. Inherited(b, u) \in SUBSET Capability /\ (Inherited(b, u) # {} <=> BookCaps(b, u) # {})
        BY <3>2, <3>4
      <4> QED BY <4>1, ReadIffAny
    <3>6. BookCaps(b, u) # {} <=> bookLive[b] /\ (bookOwner[b] = u \/ bookShare[b][u] # {})
      <4>1. CASE IsBookOwner(b, u)
        BY <1>1, <4>1 DEF BookCaps, IsBookOwner
      <4>2. CASE ~IsBookOwner(b, u)
        <5>1. BookShareOf(b, u) \in SUBSET Capability /\ FromBits({}) = {}
          BY DEF BookShareOf, TypeOK, FromBits
        <5>2. BookCaps(b, u) # {} <=> BookShareOf(b, u) # {}
          BY <3>4, <4>2, <5>1, ReadIffAny DEF BookCaps
        <5> QED BY <4>2, <5>2 DEF BookShareOf, IsBookOwner
      <4> QED BY <4>1, <4>2
    <3> QED BY <1>3, <2>1, <2>3, <3>1, <3>5, <3>6 DEF Listed
  <2> QED BY <2>2, <2>3
<1> QED BY <1>2, <1>3

(* list_notes_for_user shows a note exactly to those resolve_note_access lets *)
(* read it.                                                                   *)
THEOREM ListingMatchesAccess == Spec => []ListedIsReadable
BY TypeCorrect, ListingAgrees, PTL

-----------------------------------------------------------------------------
(* The capabilities of two masks together. *)
LEMMA FromBitsUnion ==
  ASSUME NEW S, NEW T
  PROVE  FromBits(S \cup T) = FromBits(S) \cup FromBits(T)
BY DEF FromBits

(* Whatever a note passes on to a user, inherited_note_principals names. *)
LEMMA InheritedHasPrincipal ==
  ASSUME TypeOK, NEW b \in Notebook, NEW p \in User, Inherited(b, p) # {}
  PROVE  \E pr \in InheritedNotePrincipals(b) :
            pr[1] = p /\ FromBits(pr[2]) \cap NotebookInheritance = Inherited(b, p)
<1>1. Inherited(b, p) = BookCaps(b, p) \cap NotebookInheritance
  BY InboxAssumption DEF Inherited
<1>2. CASE IsBookOwner(b, p)
  <2>1. <<p, Capability>> \in InheritedNotePrincipals(b)
    BY <1>2 DEF InheritedNotePrincipals
  <2>2. FromBits(Capability) = Capability
    BY FromBitsCaps
  <2>3. BookCaps(b, p) = Capability
    BY <1>2 DEF BookCaps
  <2> QED BY <1>1, <2>1, <2>2, <2>3
<1>3. CASE ~IsBookOwner(b, p)
  <2>1. BookCaps(b, p) = FromBits(BookShareOf(b, p)) /\ FromBits({}) = {}
    BY <1>3 DEF BookCaps, FromBits
  <2>2. BookShareOf(b, p) # {}
    BY <1>1, <2>1
  <2>3. bookLive[b] /\ BookShareOf(b, p) = bookShare[b][p]
    BY <2>2 DEF BookShareOf
  <2>4. <<p, bookShare[b][p]>> \in InheritedNotePrincipals(b)
    BY <2>2, <2>3 DEF InheritedNotePrincipals
  <2> QED BY <1>1, <2>1, <2>3, <2>4
<1> QED BY <1>2, <1>3

(* Who loses a capability by a move is among the losers update_note computes. *)
LEMMA LosersAreFound ==
  ASSUME TypeOK, NEW n \in Note, NEW u \in User, NEW d \in Place, NEW p \in User \ {u},
         owner[n] # p, ~(NoteCaps(n, p) \subseteq FromBits(share[n][p]) \cup FromBits(Inherited(d, p)))
  PROVE  p \in Losers(n, u, d)
<1>1. NoteCaps(n, p) = FromBits(share[n][p]) \cup FromBits(Inherited(place[n], p))
  BY NoteCapsParts
<1>2. FromBits({}) = {}
  BY DEF FromBits
<1>3. Inherited(place[n], p) # {}
  BY <1>1, <1>2
<1>4. place[n] # Inbox /\ place[n] \in Notebook
  BY <1>3 DEF Inherited, TypeOK, Place
<1>5. PICK pr \in InheritedNotePrincipals(place[n]) :
         pr[1] = p /\ FromBits(pr[2]) \cap NotebookInheritance = Inherited(place[n], p)
  BY <1>3, <1>4, InheritedHasPrincipal
<1>6. FromBits(share[n][p] \cup (FromBits(pr[2]) \cap NotebookInheritance))
        \ FromBits(share[n][p] \cup Inherited(d, p)) # {}
  <2>1. FromBits(share[n][p] \cup Inherited(place[n], p)) = NoteCaps(n, p)
    BY <1>1, FromBitsUnion
  <2>2. FromBits(share[n][p] \cup Inherited(d, p)) = FromBits(share[n][p]) \cup FromBits(Inherited(d, p))
    BY FromBitsUnion
  <2> QED BY <1>5, <2>1, <2>2
<1> QED BY <1>4, <1>5, <1>6 DEF Losers

(* A move by update_note, seen from everybody but the mover. *)
LEMMA UpdateNoteTells ==
  ASSUME TypeOK, NEW h \in Handler, UpdateNoteTx(h), NEW n \in Note, place'[n] # place[n]
  PROVE  /\ pc[h] = "tx" /\ pc'[h] # "tx"
         /\ \A p \in User \ {req[h].user} :
              ~(NoteCaps(n, p) \subseteq NoteCaps(n, p)') =>
                p \in notices'[h] /\ ~IsBookOwner(place[n], req[h].user)
<1> DEFINE u == req[h].user
           d == req[h].dest
           told == IF d # place[n]
                   THEN Losers(n, u, d) \cup (IF Ejection(n, u, d) THEN {owner[n]} \ {u} ELSE {})
                   ELSE {}
<1>1. pc[h] = "tx" /\ u \in User /\ d \in Place /\ req[h].note \in Note
  BY ServedFields DEF UpdateNoteTx, Serving
<1>2. /\ place' = [place EXCEPT ![req[h].note] = d] /\ MayUpdateNote(req[h])
      /\ UNCHANGED <<owner, share, bookVars>>
  BY DEF UpdateNoteTx, UpdateNoteMeta
<1>3. req[h].note = n /\ d # place[n] /\ place'[n] = d
  BY <1>1, <1>2 DEF TypeOK
<1>4. Committed(h, told)
  BY <1>3 DEF UpdateNoteTx
<1>5. notices'[h] = told /\ pc'[h] # "tx"
  BY <1>4 DEF Committed, Leaves, TypeOK
<1>6. MayMove(n, u, d)
  BY <1>2, <1>3 DEF MayUpdateNote
<1>7. ASSUME NEW p \in User \ {u}, ~(NoteCaps(n, p) \subseteq NoteCaps(n, p)')
      PROVE  p \in notices'[h] /\ ~IsBookOwner(place[n], u)
  <2>1. NoteCaps(n, p) \subseteq Capability
    BY CapsBounded
  <2>2. Inherited(place[n], p)' = Inherited(d, p)
    BY <1>2, <1>3 DEF Inherited, bookVars, BookCaps, IsBookOwner, BookShareOf
  <2>3. NoteCaps(n, p)' = IF owner[n] = p THEN Capability
                          ELSE FromBits(share[n][p]) \cup FromBits(Inherited(d, p))
    <3>1. NoteCaps(n, p)' = IF owner'[n] = p THEN Capability
                            ELSE FromBits(share'[n][p]) \cup FromBits(Inherited(place[n], p)')
      BY NoteCapsPartsNext
    <3> QED BY <1>2, <2>2, <3>1
  <2>4. owner[n] # p
    BY <1>7, <2>1, <2>3
  <2>5. p \in Losers(n, u, d)
    BY <1>1, <1>7, <2>3, <2>4, LosersAreFound
  <2> QED BY <1>3, <1>5, <1>6, <2>5 DEF MayMove
<1> QED BY <1>1, <1>5, <1>7

(* A note changes its place in update_note's transaction only. *)
LEMMA OnlyUpdateMoves ==
  ASSUME TypeOK, [Next]_vars, NEW n \in Note, place'[n] # place[n]
  PROVE  \E h \in Handler : UpdateNoteTx(h)
<1>1. ASSUME NEW h \in Handler, Arrives(h) PROVE place' = place
  <2>1. PICK r \in Request : Admit(h, r)
    BY <1>1, ArrivesType
  <2> QED BY <2>1 DEF Admit, noteVars
<1>2. ASSUME NEW h \in Handler, Commits(h), ~UpdateNoteTx(h) PROVE place' = place
  BY <1>2 DEF Commits, DeleteNoteTx, CreateShareTx, DeleteShareTx, TransferOwnershipTx,
              CreateNotebookShareTx, DeleteNotebookShareTx, TransferNotebookTx, noteVars
<1>3. ASSUME NEW h \in Handler, Refused(h) \/ SerializationFailure(h) \/ Exhausted(h)
                                  \/ NotifyAccessRevoked(h)
      PROVE  place' = place
  BY <1>3 DEF Refused, SerializationFailure, Exhausted, NotifyAccessRevoked, noteVars
<1>4. ASSUME NEW b \in Notebook, DeleteNotebook(b) \/ UpsertNotebook(b) PROVE place' = place
  BY <1>4 DEF DeleteNotebook, UpsertNotebook, noteVars
<1>5. ASSUME UNCHANGED vars PROVE place' = place
  BY <1>5 DEF vars, noteVars
<1> QED BY <1>1, <1>2, <1>3, <1>4, <1>5 DEF Next

(* However moves race with grants, transfers and deletes, a committed move    *)
(* takes access from nobody behind their back (update_note and its second     *)
(* look at inherited_note_principals).                                        *)
THEOREM MovesStayGuarded == Spec => MovesAreGuarded
<1>1. TypeOK /\ [Next]_vars =>
        [\A n \in Note : place'[n] # place[n] =>
           \E h \in Handler :
             /\ pc[h] = "tx" /\ pc'[h] # "tx"
             /\ \A p \in User \ {req[h].user} :
                  ~(NoteCaps(n, p) \subseteq NoteCaps(n, p)') =>
                    p \in notices'[h] /\ ~IsBookOwner(place[n], req[h].user)]_vars
  BY OnlyUpdateMoves, UpdateNoteTells
<1> QED BY <1>1, TypeCorrect, PTL DEF Spec, MovesAreGuarded
=============================================================================
