----------------------------- MODULE Projection -----------------------------
(***************************************************************************)
(* How a journaled change reaches the tables clients query: the queue      *)
(* projection_jobs and its workers (projection.rs), and the store's        *)
(* versioned writes of one notebook, tag, note tag or resource.            *)
(*                                                                         *)
(* A worker is any task that drains the queue: the loop every instance     *)
(* runs, a sync handler after its append or on a duplicate batch, the      *)
(* reconcile command.  It claims a job in a transaction that stays open    *)
(* (FOR UPDATE SKIP LOCKED), applies the change in a second transaction on *)
(* a second connection, and removes or reschedules the job when it commits *)
(* the first.  Reading the entity's row and writing it are two statements, *)
(* hence two steps; a write includes its COMMIT.                           *)
(*                                                                         *)
(* All changes concern one entity.  Its row is named by the change whose   *)
(* version it carries.  available_at is left out: a job that is to be      *)
(* retried may be claimed at any later time.                               *)
(***************************************************************************)
EXTENDS Versions, FiniteSets

CONSTANTS
  Change,        \* changes devices may push
  Stamp,         \* their versions: vv, ts, writer
  Op,            \* "upsert" or "delete"
  HasData,       \* the upserts that carry a resource's bytes
  Kinds,         \* what the changes may concern: a "note" is not projected,
                 \* an "unknown" payload does not parse
  Worker, Instance, InstanceOf,
  PoolSizes,     \* DB_MAX_CONNECTIONS may be any of these
  Absent, Foreign,   \* no row; a row of another user under the same id
  None,
  MaxAttempts,   \* failures before a job is parked (5)
  MaxTries,      \* tries of a notebook's transaction on 40001 (3)
  MaxAppends,    \* bound: appends, reconciliations
  MaxFailures    \* bound: failures and crashes

ASSUME StampAssumption == Stamp \in [Change -> [vv : VV, ts : Nat, writer : Device]]
ASSUME OpAssumption == Op \in [Change -> {"upsert", "delete"}]
ASSUME HasDataAssumption == HasData \subseteq Change
ASSUME RowAssumption == {Absent, Foreign, None} \cap Change = {} /\ Absent # Foreign
ASSUME KindAssumption == Kinds \subseteq {"notebook", "tag", "note_tag", "resource", "note", "unknown"}
ASSUME WorkerAssumption == IsFiniteSet(Worker) /\ InstanceOf \in [Worker -> Instance]
ASSUME PoolAssumption == \A p \in PoolSizes : p \in Nat /\ p >= 2
ASSUME LimitAssumption ==
  MaxAttempts \in Nat \ {0} /\ MaxTries \in Nat \ {0} /\ MaxAppends \in Nat /\ MaxFailures \in Nat

Later(s, t) == t.ts > s.ts \/ (t.ts = s.ts /\ t.writer > s.writer)

(* An edit made on top of another carries a later time; versions are unique. *)
ASSUME ClockAssumption ==
  \A a, b \in Change : a # b =>
    /\ Stamp[a].vv # Stamp[b].vv
    /\ Leq(Stamp[a].vv, Stamp[b].vv) => Later(Stamp[a], Stamp[b])
    /\ Later(Stamp[a], Stamp[b]) \/ Later(Stamp[b], Stamp[a])

VARIABLES
  kind,       \* what the entity is
  pool,       \* connections an instance may have open
  journal,    \* rows of `changes`
  job,        \* rows of projection_jobs
  row,        \* the entity's row
  created,    \* a resource: the change whose created_at its row has
  blob,       \* resource_blobs: the change whose bytes are stored
  pc,         \* per worker: "idle", "claimed", "begun", "write", "finish"
  claim,      \* the job whose row lock it holds
  seen,       \* the entity's row as its transaction read it
  tries,      \* how often it has tried the transaction
  result,     \* what apply_change returned
  accepted,   \* history: changes that were ever journaled
  appends, failures

jobVars == <<journal, job, accepted>>
rowVars == <<row, created, blob>>
taskVars == <<pc, claim, seen, tries, result>>
vars == <<kind, pool, jobVars, rowVars, taskVars, appends, failures>>

NoJob == [state |-> "none", attempts |-> 0]
Pending == [state |-> "pending", attempts |-> 0]
JobStates == {"none", "pending", "retry", "dead_letter"}
Results == {"none", "ok", "40001", "transient", "permanent"}

(* store.rs incoming_wins, on the changes that wrote the two versions. *)
Wins(stored, incoming) == IncomingWins(Stamp[stored], Stamp[incoming])

(***************************************************************************)
(* The same, on the row as it is stored.  The time of a resource's row is  *)
(* COALESCE(deleted_at, created_at), and no conflicting insert overwrites  *)
(* created_at.                                                             *)
(***************************************************************************)
StoredStamp ==
  IF kind = "resource" /\ Op[row] = "upsert"
  THEN [Stamp[row] EXCEPT !.ts = Stamp[created].ts] ELSE Stamp[row]
Beats(incoming) == IncomingWins(StoredStamp, Stamp[incoming])

-----------------------------------------------------------------------------
(* Connections and locks. *)
Open(i) ==
  Cardinality({w \in Worker : InstanceOf[w] = i /\ pc[w] # "idle"})
    + Cardinality({w \in Worker : InstanceOf[w] = i /\ pc[w] \in {"begun", "write"}})
HasConnection(w) == Open(InstanceOf[w]) < pool

(* Mutant: upsert_note_tag does not lock. *)
LocksNoNoteTag(k, op) == k \in {"tag", "resource"} /\ op = "upsert"

(* Who takes the entity's advisory lock: delete_tag and delete_resource do not. *)
Locks(k, op) == k = "note_tag" \/ (k \in {"tag", "resource"} /\ op = "upsert")

(* The lock, and a row read FOR UPDATE, are held until the transaction ends. *)
LockFree(w) ==
  Locks(kind, Op[claim[w]]) =>
    \A v \in Worker \ {w} : pc[v] = "write" => ~Locks(kind, Op[claim[v]])
RowFree(w) == row \in Change => \A v \in Worker \ {w} : pc[v] = "write" => seen[v] # row

-----------------------------------------------------------------------------
Init ==
  /\ kind \in Kinds /\ pool \in PoolSizes
  /\ journal = {} /\ job = [c \in Change |-> NoJob] /\ accepted = {}
  /\ row \in {Absent, Foreign} /\ (kind = "note_tag" => row = Absent)
  /\ created = None /\ blob = None
  /\ pc = [w \in Worker |-> "idle"] /\ claim = [w \in Worker |-> None]
  /\ seen = [w \in Worker |-> Absent] /\ tries = [w \in Worker |-> 0]
  /\ result = [w \in Worker |-> "none"]
  /\ appends = 0 /\ failures = 0

(* append_changes: the journal row and its job, in one transaction.  A batch *)
(* that is still in the journal is a duplicate and only gets its jobs        *)
(* claimed (drain_batch).                                                    *)
AppendChanges(c) ==
  /\ c \notin journal /\ appends < MaxAppends /\ appends' = appends + 1
  /\ journal' = journal \cup {c} /\ accepted' = accepted \cup {c}
  /\ job' = [job EXCEPT ![c] = IF @ = NoJob THEN Pending ELSE @]
  /\ UNCHANGED <<kind, pool, rowVars, taskVars, failures>>

(* prune_delivered_changes; that it is old and delivered is up to others. *)
PruneDeliveredChanges(c) ==
  /\ c \in journal /\ job[c] = NoJob
  /\ journal' = journal \ {c}
  /\ UNCHANGED <<kind, pool, job, accepted, rowVars, taskVars, appends, failures>>

(* reconcile: a job for every selected change that has none or is parked. *)
Reconcile ==
  \E S \in SUBSET journal :
    /\ S # {} /\ kind # "note" /\ appends < MaxAppends /\ appends' = appends + 1
    /\ \A w \in Worker : pc[w] # "idle" => claim[w] \notin S
    /\ job' = [c \in Change |->
                 IF c \in S /\ job[c].state \in {"none", "dead_letter"} THEN Pending ELSE job[c]]
    /\ UNCHANGED <<kind, pool, journal, accepted, rowVars, taskVars, failures>>

-----------------------------------------------------------------------------
(* A worker: claim_one, apply_change, finish_job. *)
Claim(w, c) ==
  /\ pc[w] = "idle" /\ HasConnection(w)
  /\ c \in journal /\ job[c].state \in {"pending", "retry"}
  /\ \A v \in Worker : pc[v] # "idle" => claim[v] # c
  /\ pc' = [pc EXCEPT ![w] = "claimed"] /\ claim' = [claim EXCEPT ![w] = c]
  /\ tries' = [tries EXCEPT ![w] = 1]
  /\ UNCHANGED <<kind, pool, jobVars, rowVars, seen, result, appends, failures>>

(* The change has been applied, or not; what follows is finish_job. *)
Returns(w, r) ==
  /\ pc' = [pc EXCEPT ![w] = "finish"] /\ result' = [result EXCEPT ![w] = r]
  /\ seen' = [seen EXCEPT ![w] = Absent] /\ tries' = [tries EXCEPT ![w] = 0]
  /\ UNCHANGED <<kind, pool, jobVars, claim, appends>>

(* What does not parse never will; the change of a note needs no table. *)
Projects(w) == pc[w] = "claimed" /\ kind \notin {"note", "unknown"}
NothingToApply(w) ==
  /\ pc[w] = "claimed" /\ ~Projects(w)
  /\ Returns(w, IF kind = "note" THEN "ok" ELSE "permanent")
  /\ UNCHANGED <<rowVars, failures>>

Begin(w) ==
  /\ Projects(w) /\ HasConnection(w)
  /\ pc' = [pc EXCEPT ![w] = "begun"]
  /\ UNCHANGED <<kind, pool, jobVars, rowVars, claim, seen, tries, result, appends, failures>>

(* Mutant: the pool has no acquire_timeout. *)
AcquireTimeoutNever(w) ==
  /\ Projects(w) /\ FALSE
  /\ UNCHANGED vars

(* Every connection is taken, this worker's own among them. *)
AcquireTimeout(w) ==
  /\ Projects(w) /\ ~HasConnection(w)
  /\ Returns(w, "transient")
  /\ UNCHANGED <<rowVars, failures>>

(* The lock and SELECT ... FOR UPDATE; a version that does not win ends it, *)
(* and so does the deletion of a resource that is not there.                *)
Select(w) ==
  LET c == claim[w]
      done == \/ row \in Change /\ ~Beats(c)
              \/ row \notin Change /\ kind = "resource" /\ Op[c] = "delete"
  IN  /\ pc[w] = "begun" /\ LockFree(w) /\ RowFree(w)
      /\ \/ done /\ Returns(w, "ok")
         \/ /\ ~done
            /\ pc' = [pc EXCEPT ![w] = "write"] /\ seen' = [seen EXCEPT ![w] = row]
            /\ UNCHANGED <<kind, pool, jobVars, claim, tries, result, appends>>
      /\ UNCHANGED <<rowVars, failures>>

Writing(w, k, op) == pc[w] = "write" /\ kind = k /\ Op[claim[w]] = op
Applied(w) == Returns(w, "ok") /\ UNCHANGED failures

(* INSERT ... ON CONFLICT DO UPDATE WHERE user_id = EXCLUDED.user_id: *)
(* whatever is there is replaced, unless another user's.               *)
Overwrites(c) == row' = IF row = Foreign THEN row ELSE c

(* Mutant: READ COMMITTED, the default. *)
UpsertNotebookReadCommitted(w) ==
  /\ Writing(w, "notebook", "upsert") /\ RowFree(w)
  /\ Overwrites(claim[w]) /\ Applied(w) /\ UNCHANGED <<created, blob>>

(* Serializable: a row that changed since the read fails the transaction. *)
UpsertNotebook(w) ==
  /\ Writing(w, "notebook", "upsert") /\ row = seen[w]
  /\ Overwrites(claim[w]) /\ Applied(w) /\ UNCHANGED <<created, blob>>
DeleteNotebook(w) ==
  /\ Writing(w, "notebook", "delete") /\ row = seen[w]
  /\ Overwrites(claim[w]) /\ Applied(w) /\ UNCHANGED <<created, blob>>

UpsertTag(w) ==
  /\ Writing(w, "tag", "upsert") /\ RowFree(w)
  /\ Overwrites(claim[w]) /\ Applied(w) /\ UNCHANGED <<created, blob>>

(* UPDATE of the row it read, or INSERT ... ON CONFLICT DO NOTHING. *)
DeleteTag(w) ==
  /\ Writing(w, "tag", "delete")
  /\ row' = IF seen[w] \in Change \/ row = Absent THEN claim[w] ELSE row
  /\ Applied(w) /\ UNCHANGED <<created, blob>>

(* Association and removal are both upserts; the key holds the user. *)
UpsertNoteTag(w) ==
  /\ pc[w] = "write" /\ kind = "note_tag" /\ RowFree(w)
  /\ row' = claim[w] /\ Applied(w) /\ UNCHANGED <<created, blob>>

Creates(c) == created' = IF row = Absent THEN c ELSE created

(* Mutant: the metadata alone. *)
UpsertResourceMeta(w) ==
  /\ Writing(w, "resource", "upsert") /\ RowFree(w)
  /\ IF row = Foreign THEN Returns(w, "permanent") /\ UNCHANGED <<row, created, failures>>
     ELSE Overwrites(claim[w]) /\ Creates(claim[w]) /\ Applied(w)
  /\ UNCHANGED blob

(* Metadata and bytes in one transaction. *)
ApplyResourceCreate(w) ==
  /\ Writing(w, "resource", "upsert") /\ RowFree(w)
  /\ \/ row = Foreign /\ Returns(w, "permanent") /\ UNCHANGED <<rowVars, failures>>
     \/ /\ row # Foreign /\ Overwrites(claim[w]) /\ Creates(claim[w]) /\ Applied(w)
        /\ blob' = IF claim[w] \in HasData THEN claim[w] ELSE blob

DeleteResource(w) ==
  /\ Writing(w, "resource", "delete")
  /\ row' = claim[w] /\ Applied(w) /\ UNCHANGED <<created, blob>>

(* 40001 of a notebook's transaction: tried again, then left to finish_job. *)
(* Somebody else has written the row it read or is waiting for; PostgreSQL  *)
(* may also raise it where nothing was lost.                                *)
Conflict(w) == IF pc[w] = "write" THEN row # seen[w] ELSE ~RowFree(w)
SerializationFailure(w) ==
  /\ pc[w] \in {"begun", "write"} /\ kind = "notebook"
  /\ \/ Conflict(w) /\ UNCHANGED failures
     \/ ~Conflict(w) /\ failures < MaxFailures /\ failures' = failures + 1
  /\ \/ /\ tries[w] < MaxTries /\ tries' = [tries EXCEPT ![w] = @ + 1]
        /\ pc' = [pc EXCEPT ![w] = "claimed"] /\ seen' = [seen EXCEPT ![w] = Absent]
        /\ UNCHANGED <<kind, pool, jobVars, claim, result, appends>>
     \/ tries[w] = MaxTries /\ Returns(w, "40001")
  /\ UNCHANGED rowVars

(* Any other error rolls the transaction back. *)
ApplyFails(w) ==
  /\ pc[w] \in {"begun", "write"} /\ failures < MaxFailures /\ failures' = failures + 1
  /\ \E r \in {"transient", "permanent"} : Returns(w, r)
  /\ UNCHANGED rowVars

Idles(w) ==
  /\ pc' = [pc EXCEPT ![w] = "idle"] /\ claim' = [claim EXCEPT ![w] = None]
  /\ result' = [result EXCEPT ![w] = "none"]
  /\ UNCHANGED <<kind, pool, journal, accepted, rowVars, seen, tries, appends>>

(* What becomes of a job, by what apply_change returned; 40001 costs it no *)
(* attempt.                                                                *)
Parked(j, r) == r = "permanent" \/ (r = "transient" /\ j.attempts + 1 >= MaxAttempts)
Finished(j, r) ==
  IF r = "ok" THEN NoJob
  ELSE [state |-> IF Parked(j, r) THEN "dead_letter" ELSE "retry",
        attempts |-> IF r = "40001" THEN j.attempts ELSE j.attempts + 1]

(* Mutant: nothing is ever parked. *)
FinishJobRetries(w) ==
  /\ pc[w] = "finish"
  /\ job' = [job EXCEPT ![claim[w]] =
               IF result[w] = "ok" THEN NoJob
               ELSE [state |-> "retry", attempts |-> @.attempts + 1]]
  /\ Idles(w) /\ UNCHANGED failures

FinishJob(w) ==
  /\ pc[w] = "finish"
  /\ job' = [job EXCEPT ![claim[w]] = Finished(@, result[w])]
  /\ Idles(w) /\ UNCHANGED failures

(* The job's own transaction fails: the job stays as it was. *)
FinishFails(w) ==
  /\ pc[w] = "finish" /\ failures < MaxFailures /\ failures' = failures + 1
  /\ Idles(w) /\ UNCHANGED job

(* An instance dies: PostgreSQL rolls its open transactions back. *)
Crash(i) ==
  LET here == {w \in Worker : InstanceOf[w] = i}
  IN  /\ \E w \in here : pc[w] # "idle"
      /\ failures < MaxFailures /\ failures' = failures + 1
      /\ pc' = [w \in Worker |-> IF w \in here THEN "idle" ELSE pc[w]]
      /\ claim' = [w \in Worker |-> IF w \in here THEN None ELSE claim[w]]
      /\ seen' = [w \in Worker |-> IF w \in here THEN Absent ELSE seen[w]]
      /\ tries' = [w \in Worker |-> IF w \in here THEN 0 ELSE tries[w]]
      /\ result' = [w \in Worker |-> IF w \in here THEN "none" ELSE result[w]]
      /\ UNCHANGED <<kind, pool, jobVars, rowVars, appends>>

Writes(w) ==
  \/ UpsertNotebook(w) \/ DeleteNotebook(w) \/ UpsertTag(w) \/ DeleteTag(w)
  \/ UpsertNoteTag(w) \/ ApplyResourceCreate(w) \/ DeleteResource(w)
WorkerStep(w) ==
  \/ \E c \in Change : Claim(w, c)
  \/ NothingToApply(w) \/ Begin(w) \/ AcquireTimeout(w) \/ Select(w)
  \/ Writes(w) \/ SerializationFailure(w) \/ FinishJob(w)
Next ==
  \/ \E w \in Worker : WorkerStep(w) \/ ApplyFails(w) \/ FinishFails(w)
  \/ \E c \in Change : AppendChanges(c) \/ PruneDeliveredChanges(c)
  \/ Reconcile
  \/ \E i \in Instance : Crash(i)

Spec == Init /\ [][Next]_vars
FairSpec == Spec /\ \A w \in Worker : WF_vars(WorkerStep(w))

-----------------------------------------------------------------------------
(* Jobs, workers and the row keep their shape; attempts never pass the    *)
(* limit at which finish_job parks a job.                                 *)
TypeOK ==
  /\ kind \in Kinds /\ pool \in PoolSizes
  /\ journal \subseteq Change /\ accepted \subseteq Change
  /\ job \in [Change -> [state : JobStates, attempts : 0 .. MaxAttempts]]
  /\ row \in Change \cup {Absent, Foreign}
  /\ created \in Change \cup {None} /\ blob \in Change \cup {None}
  /\ pc \in [Worker -> {"idle", "claimed", "begun", "write", "finish"}]
  /\ claim \in [Worker -> Change \cup {None}]
  /\ \A w \in Worker : pc[w] # "idle" => claim[w] \in Change
  /\ seen \in [Worker -> Change \cup {Absent, Foreign}] /\ tries \in [Worker -> 0 .. MaxTries]
  /\ result \in [Worker -> Results]
  /\ appends \in 0 .. MaxAppends /\ failures \in 0 .. MaxFailures

(* A row of another user under the same id stays, and the change is accepted *)
(* without effect: upsert_notebook returns as if it had written.             *)
Reflected(c) == row = Foreign \/ (row \in Change /\ (row = c \/ Wins(c, row)))
Outstanding(c) == c \in journal /\ job[c] # NoJob

(* A change that was ever journaled is projected (the row carries it or a    *)
(* version that wins over it), or its job is there and so is the journal row *)
(* the job needs: ADR 0006, invariants 1 and 7.                              *)
AllProjected ==
  \A c \in accepted : Outstanding(c) \/ (kind # "unknown" /\ Reflected(c))

(* The same for the kinds all of whose writers exclude each other           *)
(* (upsert_notebook and delete_notebook by isolation, upsert_note_tag by its *)
(* advisory lock), and for payloads nothing can be done with.                *)
JournaledIsProjected == kind \in {"notebook", "note_tag", "unknown"} => AllProjected

(* Whatever order jobs run and run again in, a stored version is replaced    *)
(* only by one that wins over it as it is stored (incoming_wins is evaluated *)
(* on a row that is still there when the write comes).  Tags are left out:   *)
(* delete_tag takes no lock.                                                 *)
NeverBackwards ==
  [][kind # "tag" /\ row' # row => row = Absent \/ Beats(row')]_vars

(* A resource never has the metadata of one version and the bytes of         *)
(* another that also had some (apply_resource_create; ADR 0006, fact 4).     *)
BytesMatchMetadata ==
  kind = "resource" /\ row \in HasData /\ Op[row] = "upsert" => blob = row

(* Every job is finished or parked in the end, whatever fails and although   *)
(* workers hold one connection while they wait for another (finish_job, the  *)
(* pool's acquire_timeout).                                                  *)
JobsSettle ==
  \A c \in Change :
    job[c].state \in {"pending", "retry"} ~> job[c].state \in {"none", "dead_letter"}
=============================================================================
