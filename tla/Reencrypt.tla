----------------------------- MODULE Reencrypt -----------------------------
(***************************************************************************)
(* The at-rest re-encryption pass over one column (reencrypt.rs), beside   *)
(* servers that write the same rows through the cipher of crypto.rs.       *)
(*                                                                         *)
(* A stored value is its text and whether it is still plaintext: encrypt   *)
(* turns any text into a tagged value that decrypt turns back, and a       *)
(* server without AT_REST_KEY stores the text as it is.  The pass reads a  *)
(* batch, then compares and updates row by row in a transaction that locks *)
(* the rows it has updated until it commits.  It may be killed anywhere    *)
(* and started again.  run does the same to notes.title and then to        *)
(* lines.content.  Abstracted: --dry-run, which updates nothing, texts     *)
(* that themselves begin with the tag, and the wrong key.                  *)
(***************************************************************************)
EXTENDS Naturals, FiniteSets, FiniteSetsExt

CONSTANTS
  Rows,        \* ids are 1 .. Rows, in the order of the keyset scan
  Text,
  NoText,      \* the text of a row that does not exist
  BatchSize    \* Options::batch_size

ASSUME ReencryptAssumption ==
  Rows \in Nat \ {0} /\ BatchSize \in Nat \ {0} /\ NoText \notin Text

Row == 1 .. Rows

VARIABLES
  text,      \* per row: what its value decrypts to
  plain,     \* rows whose value lacks the enc:v1: tag
  written,   \* history: what the servers last wrote to each row
  rollout,   \* some server still runs without the key
  phase,     \* of the pass: off, scan, update or done
  lastId,    \* last_id
  batch,     \* rows of the batch that are still to be updated
  read,      \* what the batch read
  staged,    \* rows updated in the open transaction
  clean      \* history: every server had the key when the pass began

passVars == <<phase, lastId, batch, read, staged, clean>>
reencryptVars == <<text, plain, written, rollout, passVars>>

ReencryptInit ==
  /\ text = [r \in Row |-> NoText] /\ plain = {}
  /\ written = [r \in Row |-> NoText] /\ rollout = TRUE
  /\ phase = "off" /\ lastId = 0 /\ batch = {} /\ staged = {} /\ clean = FALSE
  /\ read = [r \in Row |-> NoText]

(***************************************************************************)
(* Servers: a row is inserted or updated, or deleted.                      *)
(***************************************************************************)
ServerWrite(r, t, keyed) ==
  /\ r \notin staged
  /\ ~keyed => rollout
  /\ text' = [text EXCEPT ![r] = t]
  /\ plain' = IF keyed THEN plain \ {r} ELSE plain \cup {r}
  /\ written' = [written EXCEPT ![r] = t]
  /\ UNCHANGED <<rollout, passVars>>

ServerDelete(r) ==
  /\ r \notin staged /\ text[r] # NoText
  /\ text' = [text EXCEPT ![r] = NoText]
  /\ plain' = plain \ {r}
  /\ written' = [written EXCEPT ![r] = NoText]
  /\ UNCHANGED <<rollout, passVars>>

(* The last server without the key is replaced. *)
EndRollout ==
  /\ rollout /\ rollout' = FALSE
  /\ UNCHANGED <<text, plain, written, passVars>>

(***************************************************************************)
(* The pass.                                                               *)
(***************************************************************************)
StartPass ==
  /\ phase \in {"off", "done"}
  /\ phase' = "scan" /\ lastId' = 0 /\ clean' = ~rollout
  /\ UNCHANGED <<text, plain, written, rollout, batch, read, staged>>

(* WHERE ... NOT LIKE $1 AND id > $2 ORDER BY id LIMIT $3 *)
Candidates == {r \in plain : r > lastId}
UpTo(r) == {q \in Candidates : q <= r}
(* Mutant: ORDER BY id DESC. *)
SelectedNewest == {r \in Candidates : Cardinality({q \in Candidates : q >= r}) <= BatchSize}
Selected == {r \in Candidates : Cardinality(UpTo(r)) <= BatchSize}

(* last_id: the id of the last row of the batch. *)
AfterBatch(rows) == Max(rows)

SelectBatch ==
  /\ phase = "scan"
  /\ IF Selected = {}
     THEN phase' = "done" /\ UNCHANGED <<lastId, batch, read>>
     ELSE /\ phase' = "update" /\ batch' = Selected
          /\ lastId' = AfterBatch(Selected)
          /\ read' = [r \in Row |-> IF r \in Selected THEN text[r] ELSE NoText]
  /\ UNCHANGED <<text, plain, written, rollout, staged, clean>>

(* Mutant: WHERE id = $2 alone. *)
SameRow(r) == text[r] # NoText
(* WHERE id = $2 AND column = $3: the very plaintext that was read. *)
SameValue(r) == r \in plain /\ text[r] = read[r]

UpdateRow(r) ==
  /\ phase = "update" /\ r \in batch /\ \A q \in batch : r <= q
  /\ batch' = batch \ {r}
  /\ staged' = IF SameValue(r) THEN staged \cup {r} ELSE staged
  /\ UNCHANGED <<text, plain, written, rollout, phase, lastId, read, clean>>

NoBatch == staged' = {} /\ batch' = {} /\ read' = [r \in Row |-> NoText]

CommitBatch ==
  /\ phase = "update" /\ batch = {}
  /\ text' = [r \in Row |-> IF r \in staged THEN read[r] ELSE text[r]]
  /\ plain' = plain \ staged
  /\ phase' = "scan" /\ NoBatch
  /\ UNCHANGED <<written, rollout, lastId, clean>>

(* Killed, or a statement failed: the open transaction is lost. *)
StopPass ==
  /\ phase \in {"scan", "update"}
  /\ phase' = "off" /\ lastId' = 0 /\ clean' = FALSE /\ NoBatch
  /\ UNCHANGED <<text, plain, written, rollout>>

ReencryptNext ==
  \/ \E r \in Row, t \in Text, keyed \in BOOLEAN : ServerWrite(r, t, keyed)
  \/ \E r \in Row : ServerDelete(r) \/ UpdateRow(r)
  \/ EndRollout \/ StartPass \/ SelectBatch \/ CommitBatch \/ StopPass

ReencryptSpec == ReencryptInit /\ [][ReencryptNext]_reencryptVars
-----------------------------------------------------------------------------
(***************************************************************************)
(* The pass is safe against a live server: every row decrypts to what a    *)
(* server wrote last, whenever the write came between the pass's read of   *)
(* the row and its update.                                                 *)
(***************************************************************************)
PassClobbersNothing == \A r \in Row : text[r] = written[r]

(***************************************************************************)
(* A pass that began with every server keyed and ran to its end leaves no  *)
(* plaintext, although it skips rows that changed, pages by id while rows  *)
(* come and go, and may have been killed and started again before.         *)
(***************************************************************************)
PassEncryptsAll == phase = "done" /\ clean => plain = {}
=============================================================================
