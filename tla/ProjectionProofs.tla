-------------------------- MODULE ProjectionProofs --------------------------
(***************************************************************************)
(* Type correctness of Projection, and its safety properties for any       *)
(* number of workers, instances and changes.                               *)
(***************************************************************************)
EXTENDS Projection, TLAPS

Busy(w) == pc[w] # "idle"

(* A parked job has used its attempts up or failed for good; one that may  *)
(* be claimed has attempts left, and a claimed one is still queued.        *)
JobInv ==
  /\ \A c \in Change : job[c].state \in {"pending", "retry"} => job[c].attempts < MaxAttempts
  /\ \A w \in Worker : Busy(w) =>
       claim[w] \in journal /\ job[claim[w]].state \in {"pending", "retry"}
  /\ \A v, w \in Worker : v # w /\ Busy(v) /\ Busy(w) => claim[v] # claim[w]
  /\ \A w \in Worker : pc[w] = "finish" => result[w] # "none"

TypeInv == TypeOK /\ JobInv

LEMMA InitTypeInv == Init => TypeInv
  BY KindAssumption, PoolAssumption, LimitAssumption
  DEF Init, TypeInv, TypeOK, JobInv, Busy, NoJob, JobStates, Results

(* What most steps of a worker have in common: the queue is left alone. *)
LEMMA ReturnsTyped ==
  ASSUME TypeInv, NEW w \in Worker, NEW r \in Results \ {"none"}, Busy(w), Returns(w, r)
  PROVE  /\ kind' \in Kinds /\ pool' \in PoolSizes
         /\ journal' \subseteq Change /\ accepted' \subseteq Change
         /\ job' \in [Change -> [state : JobStates, attempts : 0 .. MaxAttempts]]
         /\ pc' \in [Worker -> {"idle", "claimed", "begun", "write", "finish"}]
         /\ claim' \in [Worker -> Change \cup {None}]
         /\ \A v \in Worker : pc'[v] # "idle" => claim'[v] \in Change
         /\ seen' \in [Worker -> Change \cup {Absent, Foreign}]
         /\ tries' \in [Worker -> 0 .. MaxTries]
         /\ result' \in [Worker -> Results]
         /\ appends' \in 0 .. MaxAppends
         /\ JobInv'
  BY LimitAssumption DEF TypeInv, TypeOK, JobInv, Busy, Returns, jobVars

(* A job that is put back has attempts left. *)
LEMMA FinishedTyped ==
  ASSUME NEW j \in [state : JobStates, attempts : 0 .. MaxAttempts],
         j.attempts < MaxAttempts, NEW r \in Results \ {"none"}
  PROVE  /\ Finished(j, r) \in [state : JobStates, attempts : 0 .. MaxAttempts]
         /\ Finished(j, r).state \in {"pending", "retry"} => Finished(j, r).attempts < MaxAttempts
<1> USE LimitAssumption
<1>1. CASE r = "ok"
  BY <1>1 DEF Finished, NoJob, JobStates
<1>2. CASE r = "40001"
  BY <1>2 DEF Finished, Parked, JobStates
<1>3. CASE r \in {"transient", "permanent"}
  BY <1>3 DEF Finished, Parked, JobStates
<1> QED BY <1>1, <1>2, <1>3 DEF Results

LEMMA StepTypeInv == TypeInv /\ [Next]_vars => TypeInv'
<1> SUFFICES ASSUME TypeInv, [Next]_vars PROVE TypeInv'
  OBVIOUS
<1> USE LimitAssumption
<1>1. ASSUME NEW w \in Worker, NEW c \in Change, Claim(w, c) PROVE TypeInv'
  BY <1>1 DEF Claim, TypeInv, TypeOK, JobInv, Busy, jobVars, rowVars
<1>2. ASSUME NEW w \in Worker, NothingToApply(w) PROVE TypeInv'
  <2>1. PICK r \in Results \ {"none"} : Returns(w, r) /\ Busy(w)
    BY <1>2 DEF NothingToApply, Results, Busy
  <2> QED BY <1>2, <2>1, ReturnsTyped DEF NothingToApply, TypeInv, TypeOK, rowVars
<1>3. ASSUME NEW w \in Worker, Begin(w) PROVE TypeInv'
  BY <1>3 DEF Begin, Projects, TypeInv, TypeOK, JobInv, Busy, jobVars, rowVars
<1>4. ASSUME NEW w \in Worker, AcquireTimeout(w) PROVE TypeInv'
  <2>1. Returns(w, "transient") /\ Busy(w) /\ "transient" \in Results
    BY <1>4 DEF AcquireTimeout, Projects, Results, Busy
  <2> QED BY <1>4, <2>1, ReturnsTyped DEF AcquireTimeout, TypeInv, TypeOK, rowVars
<1>5. ASSUME NEW w \in Worker, Select(w) PROVE TypeInv'
  <2>1. CASE Returns(w, "ok")
    <3>1. Busy(w) /\ "ok" \in Results
      BY <1>5 DEF Select, Results, Busy
    <3> QED BY <1>5, <2>1, <3>1, ReturnsTyped DEF Select, TypeInv, TypeOK, rowVars
  <2>2. CASE ~Returns(w, "ok")
    BY <1>5, <2>2 DEF Select, TypeInv, TypeOK, JobInv, Busy, jobVars, rowVars
  <2> QED BY <2>1, <2>2
<1>6. ASSUME NEW w \in Worker, Writes(w) PROVE TypeInv'
  <2>1. Busy(w) /\ claim[w] \in Change
    BY <1>6 DEF Writes, UpsertNotebook, DeleteNotebook, UpsertTag, DeleteTag, UpsertNoteTag,
         ApplyResourceCreate, DeleteResource, Writing, Busy, TypeInv, TypeOK
  <2>2. PICK r \in Results \ {"none"} : Returns(w, r)
    BY <1>6 DEF Writes, UpsertNotebook, DeleteNotebook, UpsertTag, DeleteTag, UpsertNoteTag,
         ApplyResourceCreate, DeleteResource, Applied, Results
  <2>3. /\ row' \in Change \cup {Absent, Foreign} /\ created' \in Change \cup {None}
        /\ blob' \in Change \cup {None} /\ failures' = failures
    BY <1>6, <2>1 DEF Writes, UpsertNotebook, DeleteNotebook, UpsertTag, DeleteTag, UpsertNoteTag,
         ApplyResourceCreate, DeleteResource, Applied, Overwrites, Creates, rowVars, TypeInv, TypeOK
  <2> QED BY <2>1, <2>2, <2>3, ReturnsTyped DEF TypeInv, TypeOK
<1>7. ASSUME NEW w \in Worker, SerializationFailure(w) PROVE TypeInv'
  <2>1. failures' \in 0 .. MaxFailures /\ UNCHANGED rowVars /\ Busy(w) /\ "40001" \in Results
    BY <1>7 DEF SerializationFailure, TypeInv, TypeOK, Busy, Results
  <2>2. CASE Returns(w, "40001")
    BY <2>1, <2>2, ReturnsTyped DEF TypeInv, TypeOK, rowVars
  <2>3. CASE ~Returns(w, "40001")
    <3>1. /\ tries[w] < MaxTries /\ tries' = [tries EXCEPT ![w] = @ + 1]
          /\ pc' = [pc EXCEPT ![w] = "claimed"] /\ seen' = [seen EXCEPT ![w] = Absent]
          /\ UNCHANGED <<kind, pool, jobVars, claim, result, appends>>
      BY <1>7, <2>3 DEF SerializationFailure
    <3>2. TypeOK'
      BY <2>1, <3>1 DEF TypeInv, TypeOK, Busy, jobVars, rowVars
    <3>3. JobInv'
      BY <2>1, <3>1 DEF TypeInv, TypeOK, JobInv, Busy, jobVars
    <3> QED BY <3>2, <3>3 DEF TypeInv
  <2> QED BY <2>2, <2>3
<1>8. ASSUME NEW w \in Worker, FinishJob(w) PROVE TypeInv'
  <2>1. /\ claim[w] \in Change /\ result[w] \in Results
        /\ job[claim[w]].state \in {"pending", "retry"}
        /\ job[claim[w]] \in [state : JobStates, attempts : 0 .. MaxAttempts]
        /\ job[claim[w]].attempts < MaxAttempts
    BY <1>8 DEF FinishJob, TypeInv, TypeOK, JobInv, Busy
  <2>2. result[w] # "none"
    BY <1>8 DEF FinishJob, TypeInv, JobInv
  <2>3. PICK j \in [state : JobStates, attempts : 0 .. MaxAttempts] :
          /\ j = Finished(job[claim[w]], result[w])
          /\ j.state \in {"pending", "retry"} => j.attempts < MaxAttempts
    BY <2>1, <2>2, FinishedTyped
  <2>4. job' = [job EXCEPT ![claim[w]] = j]
    BY <1>8, <2>3 DEF FinishJob
  <2> QED BY <1>8, <2>1, <2>3, <2>4 DEF FinishJob, Idles, TypeInv, TypeOK, JobInv, Busy, rowVars, Results
<1>9. ASSUME NEW w \in Worker, ApplyFails(w) PROVE TypeInv'
  <2>1. PICK r \in Results \ {"none"} : Returns(w, r) /\ Busy(w)
    BY <1>9 DEF ApplyFails, Results, Busy
  <2> QED BY <1>9, <2>1, ReturnsTyped DEF ApplyFails, TypeInv, TypeOK, rowVars
<1>10. ASSUME NEW w \in Worker, FinishFails(w) PROVE TypeInv'
  BY <1>10 DEF FinishFails, Idles, TypeInv, TypeOK, JobInv, Busy, rowVars, Results
<1>11. ASSUME NEW c \in Change, AppendChanges(c) PROVE TypeInv'
  BY <1>11 DEF AppendChanges, Pending, NoJob, JobStates, TypeInv, TypeOK, JobInv, Busy, rowVars, taskVars
<1>12. ASSUME NEW c \in Change, PruneDeliveredChanges(c) PROVE TypeInv'
  BY <1>12 DEF PruneDeliveredChanges, NoJob, TypeInv, TypeOK, JobInv, Busy, rowVars, taskVars
<1>13. CASE Reconcile
  BY <1>13 DEF Reconcile, Pending, JobStates, TypeInv, TypeOK, JobInv, Busy, rowVars, taskVars
<1>14. ASSUME NEW i \in Instance, Crash(i) PROVE TypeInv'
  BY <1>14 DEF Crash, TypeInv, TypeOK, JobInv, Busy, jobVars, rowVars, Results
<1>15. CASE UNCHANGED vars
  BY <1>15 DEF vars, jobVars, rowVars, taskVars, TypeInv, TypeOK, JobInv, Busy
<1> QED
  BY <1>1, <1>2, <1>3, <1>4, <1>5, <1>6, <1>7, <1>8, <1>9, <1>10, <1>11, <1>12, <1>13, <1>14, <1>15
  DEF Next, WorkerStep

(* The queue, its workers and the row keep their shape, and no job is tried *)
(* more often than finish_job allows.                                       *)
THEOREM TypeCorrect == Spec => []TypeOK
<1>1. Spec => []TypeInv
  BY InitTypeInv, StepTypeInv, PTL DEF Spec
<1>2. TypeInv => TypeOK
  BY DEF TypeInv
<1> QED BY <1>1, <1>2, PTL

-----------------------------------------------------------------------------
(* Resolution: with clocks that follow causality it is a total order. *)
LEMMA WinsIsLater ==
  ASSUME NEW a \in Change, NEW b \in Change, a # b
  PROVE  Wins(a, b) <=> Later(Stamp[a], Stamp[b])
<1>1. /\ Stamp[a].vv \in VV /\ Stamp[a].ts \in Nat /\ Stamp[a].writer \in Nat
      /\ Stamp[b].vv \in VV /\ Stamp[b].ts \in Nat /\ Stamp[b].writer \in Nat
  BY StampAssumption, DeviceAssumption
<1>2. /\ Stamp[a].vv # Stamp[b].vv
      /\ Leq(Stamp[a].vv, Stamp[b].vv) => Later(Stamp[a], Stamp[b])
      /\ Leq(Stamp[b].vv, Stamp[a].vv) => Later(Stamp[b], Stamp[a])
      /\ Later(Stamp[a], Stamp[b]) \/ Later(Stamp[b], Stamp[a])
  BY ClockAssumption
<1>3. ~(Later(Stamp[a], Stamp[b]) /\ Later(Stamp[b], Stamp[a]))
  BY <1>1 DEF Later
<1> QED BY <1>2, <1>3 DEF Wins, IncomingWins, Later

LEMMA WinsIrreflexive ==
  ASSUME NEW a \in Change PROVE ~Wins(a, a)
<1>1. Stamp[a].vv \in [Device -> Nat]
  BY StampAssumption DEF VV
<1>2. Leq(Stamp[a].vv, Stamp[a].vv)
  BY <1>1 DEF Leq
<1> QED BY <1>2 DEF Wins, IncomingWins

LEMMA WinsTotal ==
  ASSUME NEW a \in Change, NEW b \in Change, a # b PROVE Wins(a, b) \/ Wins(b, a)
  BY WinsIsLater, ClockAssumption

LEMMA WinsTransitive ==
  ASSUME NEW a \in Change, NEW b \in Change, NEW c \in Change, Wins(a, b), Wins(b, c)
  PROVE  Wins(a, c)
<1>1. a # b /\ b # c
  BY WinsIrreflexive
<1>2. Later(Stamp[a], Stamp[b]) /\ Later(Stamp[b], Stamp[c])
  BY <1>1, WinsIsLater
<1>3. /\ Stamp[a].ts \in Nat /\ Stamp[b].ts \in Nat /\ Stamp[c].ts \in Nat
      /\ Stamp[a].writer \in Nat /\ Stamp[b].writer \in Nat /\ Stamp[c].writer \in Nat
  BY StampAssumption, DeviceAssumption
<1>4. Later(Stamp[a], Stamp[c]) /\ ~Later(Stamp[c], Stamp[a])
  BY <1>2, <1>3 DEF Later
<1>5. a # c
  BY <1>4
<1> QED BY <1>4, <1>5, WinsIsLater

-----------------------------------------------------------------------------
(* What a transaction that is about to write knows. *)
WriterInv ==
  \A w \in Worker : pc[w] = "write" =>
    /\ seen[w] \in Change =>
         IF kind = "resource" THEN Beats(claim[w]) ELSE Wins(seen[w], claim[w])
    /\ kind = "resource" /\ Op[claim[w]] = "delete" => seen[w] \in Change

(* Associations and resources: one writer at a time, and what it read is   *)
(* what is there.                                                          *)
Exclusive ==
  kind \in {"note_tag", "resource"} =>
    \A w \in Worker : pc[w] = "write" =>
      seen[w] = row /\ \A v \in Worker \ {w} : pc[v] # "write"

Untouched ==
  /\ kind \in {"note", "unknown"} => \A w \in Worker : pc[w] \notin {"begun", "write"}
  /\ kind = "note_tag" => row # Foreign

(* A job about to be removed has done its work. *)
FinishInv ==
  \A w \in Worker : pc[w] = "finish" /\ result[w] = "ok" =>
    /\ kind # "unknown"
    /\ kind \in {"notebook", "note_tag"} => Reflected(claim[w])

ProjInv ==
  TypeInv /\ WriterInv /\ Exclusive /\ Untouched /\ FinishInv
    /\ JournaledIsProjected /\ BytesMatchMetadata

(* How a row may change. *)
RowMoves ==
  row' = row \/ (row' \in Change /\ (row = Absent \/ (row \in Change /\ Beats(row'))))

(* Except for resources, a row is stored with its change's own time. *)
LEMMA BeatsIsWins ==
  ASSUME kind # "resource", NEW c PROVE Beats(c) <=> Wins(row, c)
  BY DEF Beats, StoredStamp, Wins

LEMMA WritesMove ==
  ASSUME ProjInv, NEW w \in Worker, Writes(w), kind # "tag" PROVE RowMoves
<1>1. /\ pc[w] = "write" /\ claim[w] \in Change /\ row \in Change \cup {Absent, Foreign}
      /\ seen[w] \in Change =>
           IF kind = "resource" THEN Beats(claim[w]) ELSE Wins(seen[w], claim[w])
  BY DEF Writes, UpsertNotebook, DeleteNotebook, UpsertTag, DeleteTag, UpsertNoteTag,
     ApplyResourceCreate, DeleteResource, Writing, ProjInv, TypeInv, TypeOK, WriterInv
<1>2. CASE UpsertNotebook(w) \/ DeleteNotebook(w)
  <2>1. kind # "resource" /\ row = seen[w] /\ row' \in {row, claim[w]}
        /\ (row = Foreign => row' = row)
    BY <1>2 DEF UpsertNotebook, DeleteNotebook, Writing, Overwrites
  <2> QED BY <1>1, <2>1, BeatsIsWins DEF RowMoves
<1>3. CASE UpsertNoteTag(w)
  <2>1. kind # "resource" /\ row = seen[w] /\ row' = claim[w] /\ row # Foreign
    BY <1>1, <1>3 DEF UpsertNoteTag, ProjInv, Exclusive, Untouched
  <2> QED BY <1>1, <2>1, BeatsIsWins DEF RowMoves
<1>4. CASE ApplyResourceCreate(w)
  BY <1>1, <1>4 DEF ApplyResourceCreate, Writing, Overwrites, rowVars, ProjInv, Exclusive, RowMoves
<1>5. CASE DeleteResource(w)
  BY <1>1, <1>5 DEF DeleteResource, Writing, ProjInv, Exclusive, WriterInv, RowMoves
<1> QED BY <1>2, <1>3, <1>4, <1>5 DEF Writes, UpsertTag, DeleteTag, Writing

LEMMA OnlyWritersMove ==
  ASSUME [Next]_vars, ~\E w \in Worker : Writes(w) PROVE UNCHANGED <<kind, row, created, blob>>
  BY DEF Next, WorkerStep, Claim, NothingToApply, Begin, AcquireTimeout, Select,
     SerializationFailure, FinishJob, ApplyFails, FinishFails, Idles, AppendChanges,
     PruneDeliveredChanges, Reconcile, Crash, Returns, vars, rowVars

LEMMA StepMoves ==
  ASSUME ProjInv, [Next]_vars, kind # "tag" PROVE RowMoves /\ kind' = kind
<1>1. CASE \E w \in Worker : Writes(w)
  <2>1. kind' = kind
    BY <1>1 DEF Writes, UpsertNotebook, DeleteNotebook, UpsertTag, DeleteTag, UpsertNoteTag,
       ApplyResourceCreate, DeleteResource, Applied, Returns
  <2> QED BY <1>1, <2>1, WritesMove
<1>2. CASE ~\E w \in Worker : Writes(w)
  BY <1>2, OnlyWritersMove DEF RowMoves
<1> QED BY <1>1, <1>2

LEMMA ReflectedStays ==
  ASSUME TypeInv, RowMoves, kind # "resource", NEW c \in Change, Reflected(c)
  PROVE  Reflected(c)'
<1>1. row \in Change \cup {Absent, Foreign} /\ Absent \notin Change /\ Foreign \notin Change
      /\ Absent # Foreign
  BY RowAssumption DEF TypeInv, TypeOK
<1>2. CASE row' = row
  BY <1>2 DEF Reflected
<1>3. CASE row' # row
  <2>1. row \in Change /\ row' \in Change /\ Wins(row, row')
    BY <1>1, <1>3, BeatsIsWins DEF Reflected, RowMoves
  <2>2. CASE row = c
    BY <2>1, <2>2 DEF Reflected
  <2>3. CASE Wins(c, row)
    BY <2>1, <2>3, WinsTransitive DEF Reflected
  <2> QED BY <1>1, <2>1, <2>2, <2>3 DEF Reflected
<1> QED BY <1>2, <1>3

-----------------------------------------------------------------------------
(* The parts of ProjInv, each against every step. *)
LEMMA StepWriterInv ==
  ASSUME ProjInv, [Next]_vars PROVE WriterInv'
<1> USE DEF ProjInv, TypeInv, TypeOK
<1>1. ASSUME NEW w \in Worker, Writes(w) PROVE WriterInv'
  <2>1. pc[w] = "write"
    BY <1>1 DEF Writes, UpsertNotebook, DeleteNotebook, UpsertTag, DeleteTag, UpsertNoteTag,
       ApplyResourceCreate, DeleteResource, Writing
  <2>2. PICK r : Returns(w, r)
    BY <1>1 DEF Writes, UpsertNotebook, DeleteNotebook, UpsertTag, DeleteTag, UpsertNoteTag,
       ApplyResourceCreate, DeleteResource, Applied
  <2>3. kind = "resource" => \A v \in Worker : pc'[v] # "write"
    BY <2>1, <2>2 DEF Returns, Exclusive
  <2> QED BY <2>2, <2>3 DEF Returns, WriterInv
<1>2. CASE ~\E w \in Worker : Writes(w)
  <2>1. UNCHANGED <<kind, row, created>>
    BY <1>2, OnlyWritersMove
  <2>2. \A c : Beats(c)' <=> Beats(c)
    BY <2>1 DEF Beats, StoredStamp
  <2>3. ASSUME NEW w \in Worker, Select(w) PROVE WriterInv'
    <3>1. CASE Returns(w, "ok")
      BY <2>1, <2>2, <3>1 DEF Returns, WriterInv
    <3>2. CASE ~Returns(w, "ok")
      <4>1. /\ pc' = [pc EXCEPT ![w] = "write"] /\ seen' = [seen EXCEPT ![w] = row]
            /\ claim' = claim
            /\ row \in Change => Beats(claim[w])
            /\ kind = "resource" /\ Op[claim[w]] = "delete" => row \in Change
        BY <2>3, <3>2 DEF Select
      <4>2. row \in Change /\ kind # "resource" => Wins(row, claim[w])
        BY <4>1, BeatsIsWins
      <4> QED BY <2>1, <2>2, <4>1, <4>2 DEF WriterInv
    <3> QED BY <3>1, <3>2
  <2>4. ASSUME NEW w \in Worker, SerializationFailure(w) PROVE WriterInv'
    BY <2>1, <2>2, <2>4 DEF SerializationFailure, Returns, WriterInv
  <2>5. ASSUME NEW w \in Worker, NEW c \in Change, Claim(w, c) PROVE WriterInv'
    BY <2>1, <2>2, <2>5 DEF Claim, WriterInv
  <2>6. ASSUME NEW w \in Worker,
               NothingToApply(w) \/ Begin(w) \/ AcquireTimeout(w) \/ ApplyFails(w)
        PROVE  WriterInv'
    BY <2>1, <2>2, <2>6 DEF NothingToApply, Begin, AcquireTimeout, ApplyFails, Returns, WriterInv
  <2>7. ASSUME NEW w \in Worker, FinishJob(w) \/ FinishFails(w) PROVE WriterInv'
    BY <2>1, <2>2, <2>7 DEF FinishJob, FinishFails, Idles, WriterInv
  <2>8. ASSUME NEW i \in Instance, Crash(i) PROVE WriterInv'
    BY <2>1, <2>2, <2>8 DEF Crash, WriterInv
  <2>9. CASE UNCHANGED taskVars
    BY <2>1, <2>2, <2>9 DEF taskVars, WriterInv
  <2> QED
    BY <1>2, <2>3, <2>4, <2>5, <2>6, <2>7, <2>8, <2>9
    DEF Next, WorkerStep, AppendChanges, PruneDeliveredChanges, Reconcile, vars
<1> QED BY <1>1, <1>2

(* The advisory lock and the row lock keep a second writer of an association *)
(* or a resource from reading before the first has committed.                *)
LEMMA SelectExcludes ==
  ASSUME ProjInv, NEW w \in Worker, Select(w), kind \in {"note_tag", "resource"},
         pc'[w] = "write"
  PROVE  \A v \in Worker \ {w} : pc[v] # "write"
<1>1. SUFFICES ASSUME NEW v \in Worker \ {w}, pc[v] = "write" PROVE FALSE
  OBVIOUS
<1>2. /\ claim[w] \in Change /\ claim[v] \in Change /\ seen[v] = row
      /\ row \in Change \cup {Absent, Foreign} /\ Absent \notin Change /\ Foreign \notin Change
  BY <1>1, RowAssumption DEF Select, ProjInv, TypeInv, TypeOK, Exclusive
<1>3. row \notin Change
  BY <1>1, <1>2 DEF Select, RowFree
<1>4. Op[claim[v]] \in {"upsert", "delete"} /\ Op[claim[w]] \in {"upsert", "delete"}
  BY <1>2, OpAssumption
<1>5. CASE kind = "note_tag"
  BY <1>1, <1>5 DEF Select, LockFree, Locks
<1>6. CASE kind = "resource"
  <2>1. Op[claim[v]] = "upsert"
    BY <1>1, <1>2, <1>3, <1>4, <1>6 DEF ProjInv, WriterInv
  <2>2. Op[claim[w]] = "upsert"
    <3>1. pc \in [Worker -> {"idle", "claimed", "begun", "write", "finish"}]
      BY DEF ProjInv, TypeInv, TypeOK
    <3> QED BY <1>3, <1>4, <1>6, <3>1 DEF Select, Returns
  <2> QED BY <1>1, <1>6, <2>1, <2>2 DEF Select, LockFree, Locks
<1> QED BY <1>5, <1>6

LEMMA StepExclusive ==
  ASSUME ProjInv, [Next]_vars PROVE Exclusive'
<1> USE DEF ProjInv, TypeInv, TypeOK, Exclusive
<1>1. ASSUME NEW w \in Worker, Select(w) PROVE Exclusive'
  <2>1. CASE pc'[w] = "write" /\ kind \in {"note_tag", "resource"}
    <3>1. \A v \in Worker \ {w} : pc[v] # "write"
      BY <1>1, <2>1, SelectExcludes
    <3> QED BY <1>1, <2>1, <3>1 DEF Select, Returns, rowVars
  <2>2. CASE ~(pc'[w] = "write" /\ kind \in {"note_tag", "resource"})
    BY <1>1, <2>2 DEF Select, Returns, rowVars
  <2> QED BY <2>1, <2>2
<1>2. ASSUME NEW w \in Worker, Writes(w) PROVE Exclusive'
  <2>1. pc[w] = "write" /\ \E r : Returns(w, r)
    BY <1>2 DEF Writes, UpsertNotebook, DeleteNotebook, UpsertTag, DeleteTag, UpsertNoteTag,
       ApplyResourceCreate, DeleteResource, Applied, Writing
  <2> QED BY <2>1 DEF Returns
<1>3. ASSUME NEW w \in Worker, SerializationFailure(w) PROVE Exclusive'
  BY <1>3 DEF SerializationFailure, Returns, rowVars
<1>4. ASSUME NEW w \in Worker, NEW c \in Change, Claim(w, c) PROVE Exclusive'
  BY <1>4 DEF Claim, rowVars
<1>5. ASSUME NEW w \in Worker,
             NothingToApply(w) \/ Begin(w) \/ AcquireTimeout(w) \/ ApplyFails(w) PROVE Exclusive'
  BY <1>5 DEF NothingToApply, Begin, AcquireTimeout, ApplyFails, Returns, rowVars
<1>6. ASSUME NEW w \in Worker, FinishJob(w) \/ FinishFails(w) PROVE Exclusive'
  BY <1>6 DEF FinishJob, FinishFails, Idles, rowVars
<1>7. ASSUME NEW i \in Instance, Crash(i) PROVE Exclusive'
  BY <1>7 DEF Crash, rowVars
<1>8. CASE UNCHANGED <<kind, rowVars, taskVars>>
  BY <1>8 DEF taskVars, rowVars
<1> QED
  BY <1>1, <1>2, <1>3, <1>4, <1>5, <1>6, <1>7, <1>8
  DEF Next, WorkerStep, AppendChanges, PruneDeliveredChanges, Reconcile, vars

LEMMA StepUntouched ==
  ASSUME ProjInv, [Next]_vars PROVE Untouched'
<1> USE DEF ProjInv, TypeInv, TypeOK, Untouched
<1>1. kind = "note_tag" => row' # Foreign /\ kind' = kind
  <2>1. kind = "note_tag" => RowMoves /\ kind' = kind
    BY StepMoves
  <2> QED BY <2>1, RowAssumption DEF RowMoves
<1>2. ASSUME NEW w \in Worker, Select(w) PROVE Untouched'
  BY <1>1, <1>2 DEF Select, Returns
<1>3. ASSUME NEW w \in Worker, Writes(w) PROVE Untouched'
  <2>1. pc[w] = "write" /\ \E r : Returns(w, r)
    BY <1>3 DEF Writes, UpsertNotebook, DeleteNotebook, UpsertTag, DeleteTag, UpsertNoteTag,
       ApplyResourceCreate, DeleteResource, Applied, Writing
  <2> QED BY <1>1, <2>1 DEF Returns
<1>4. ASSUME NEW w \in Worker, SerializationFailure(w) PROVE Untouched'
  BY <1>1, <1>4 DEF SerializationFailure, Returns
<1>5. ASSUME NEW w \in Worker, NEW c \in Change, Claim(w, c) PROVE Untouched'
  BY <1>1, <1>5 DEF Claim
<1>6. ASSUME NEW w \in Worker,
             NothingToApply(w) \/ Begin(w) \/ AcquireTimeout(w) \/ ApplyFails(w) PROVE Untouched'
  BY <1>1, <1>6 DEF NothingToApply, Begin, AcquireTimeout, ApplyFails, Projects, Returns
<1>7. ASSUME NEW w \in Worker, FinishJob(w) \/ FinishFails(w) PROVE Untouched'
  BY <1>1, <1>7 DEF FinishJob, FinishFails, Idles
<1>8. ASSUME NEW i \in Instance, Crash(i) PROVE Untouched'
  BY <1>1, <1>8 DEF Crash
<1>9. CASE UNCHANGED <<kind, taskVars>>
  BY <1>1, <1>9 DEF taskVars
<1> QED
  BY <1>2, <1>3, <1>4, <1>5, <1>6, <1>7, <1>8, <1>9
  DEF Next, WorkerStep, AppendChanges, PruneDeliveredChanges, Reconcile, vars

(* What a worker that returns "ok" has made of its change. *)
LEMMA OkIsReflected ==
  ASSUME ProjInv, NEW w \in Worker, Returns(w, "ok"), Select(w) \/ Writes(w),
         kind \in {"notebook", "note_tag"}
  PROVE  Reflected(claim[w])'
<1>1. /\ claim[w] \in Change /\ claim' = claim
      /\ row \in Change \cup {Absent, Foreign} /\ pc \in [Worker -> {"idle", "claimed", "begun", "write", "finish"}]
  BY DEF Select, Writes, UpsertNotebook, DeleteNotebook, UpsertTag, DeleteTag, UpsertNoteTag,
     ApplyResourceCreate, DeleteResource, Writing, Returns, ProjInv, TypeInv, TypeOK
<1>2. CASE Select(w)
  <2>1. row \in Change /\ ~Beats(claim[w]) /\ row' = row
    BY <1>1, <1>2 DEF Select, Returns, rowVars
  <2>2. ~Wins(row, claim[w])
    BY <2>1, BeatsIsWins
  <2> QED BY <1>1, <2>1, <2>2, WinsTotal DEF Reflected
<1>3. CASE Writes(w)
  BY <1>1, <1>3 DEF Writes, UpsertNotebook, DeleteNotebook, UpsertTag, DeleteTag, UpsertNoteTag,
     ApplyResourceCreate, DeleteResource, Writing, Overwrites, Reflected
<1> QED BY <1>2, <1>3

LEMMA StepFinishInv ==
  ASSUME ProjInv, [Next]_vars PROVE FinishInv'
<1> USE DEF ProjInv, TypeInv, TypeOK, FinishInv
<1>1. ASSUME NEW c \in Change, kind \in {"notebook", "note_tag"}, Reflected(c) PROVE Reflected(c)'
  BY <1>1, StepMoves, ReflectedStays
<1>2. ASSUME NEW w \in Worker, Select(w) PROVE FinishInv'
  <2>1. CASE Returns(w, "ok")
    <3>1. kind \notin {"note", "unknown"}
      BY <1>2 DEF Select, Untouched
    <3>2. kind \in {"notebook", "note_tag"} => Reflected(claim[w])'
      BY <1>2, <2>1, OkIsReflected
    <3> QED BY <1>1, <2>1, <3>1, <3>2 DEF Returns
  <2>2. CASE ~Returns(w, "ok")
    BY <1>1, <1>2, <2>2 DEF Select
  <2> QED BY <2>1, <2>2
<1>3. ASSUME NEW w \in Worker, Writes(w) PROVE FinishInv'
  <2>1. pc[w] = "write" /\ kind # "unknown"
    BY <1>3 DEF Writes, UpsertNotebook, DeleteNotebook, UpsertTag, DeleteTag, UpsertNoteTag,
       ApplyResourceCreate, DeleteResource, Applied, Writing
  <2>2. PICK r : Returns(w, r)
    BY <1>3 DEF Writes, UpsertNotebook, DeleteNotebook, UpsertTag, DeleteTag, UpsertNoteTag,
       ApplyResourceCreate, DeleteResource, Applied
  <2>3. r = "ok" /\ kind \in {"notebook", "note_tag"} => Reflected(claim[w])'
    BY <1>3, <2>2, OkIsReflected
  <2> QED BY <1>1, <2>1, <2>2, <2>3 DEF Returns
<1>4. ASSUME NEW w \in Worker, SerializationFailure(w) PROVE FinishInv'
  BY <1>1, <1>4 DEF SerializationFailure, Returns
<1>5. ASSUME NEW w \in Worker, NEW c \in Change, Claim(w, c) PROVE FinishInv'
  BY <1>1, <1>5 DEF Claim
<1>6. ASSUME NEW w \in Worker,
             NothingToApply(w) \/ Begin(w) \/ AcquireTimeout(w) \/ ApplyFails(w) PROVE FinishInv'
  BY <1>1, <1>6 DEF NothingToApply, Begin, AcquireTimeout, ApplyFails, Projects, Returns
<1>7. ASSUME NEW w \in Worker, FinishJob(w) \/ FinishFails(w) PROVE FinishInv'
  BY <1>1, <1>7 DEF FinishJob, FinishFails, Idles
<1>8. ASSUME NEW i \in Instance, Crash(i) PROVE FinishInv'
  BY <1>1, <1>8 DEF Crash
<1>9. CASE UNCHANGED <<kind, taskVars>>
  BY <1>1, <1>9 DEF taskVars
<1> QED
  BY <1>2, <1>3, <1>4, <1>5, <1>6, <1>7, <1>8, <1>9
  DEF Next, WorkerStep, AppendChanges, PruneDeliveredChanges, Reconcile, vars

(* A job disappears only when its change is reflected, and the journal row *)
(* of a change only when its job has.                                      *)
LEMMA StepProjected ==
  ASSUME ProjInv, [Next]_vars PROVE JournaledIsProjected'
<1> USE DEF ProjInv, TypeInv, TypeOK
<1>1. kind' = kind
  BY DEF Next, WorkerStep, Claim, NothingToApply, Begin, AcquireTimeout, Select, Writes,
     UpsertNotebook, DeleteNotebook, UpsertTag, DeleteTag, UpsertNoteTag, ApplyResourceCreate,
     DeleteResource, Applied, SerializationFailure, FinishJob, ApplyFails, FinishFails, Idles,
     AppendChanges, PruneDeliveredChanges, Reconcile, Crash, Returns, vars
<1>2. SUFFICES ASSUME kind \in {"notebook", "note_tag", "unknown"}, NEW c \in accepted'
               PROVE  Outstanding(c)' \/ (kind # "unknown" /\ Reflected(c)')
  BY <1>1 DEF JournaledIsProjected, AllProjected
<1>3. ASSUME NEW d \in Change, kind # "unknown", Reflected(d) PROVE Reflected(d)'
  BY <1>2, <1>3, StepMoves, ReflectedStays
<1>4. \A d \in accepted : Outstanding(d) \/ (kind # "unknown" /\ Reflected(d))
  BY <1>2 DEF JournaledIsProjected, AllProjected
<1>5. CASE UNCHANGED jobVars
  BY <1>2, <1>3, <1>4, <1>5 DEF jobVars, Outstanding
<1>6. ASSUME NEW d \in Change, AppendChanges(d)
      PROVE  Outstanding(c)' \/ (kind # "unknown" /\ Reflected(c)')
  BY <1>3, <1>4, <1>6 DEF AppendChanges, Outstanding, Pending, NoJob
<1>7. ASSUME NEW d \in Change, PruneDeliveredChanges(d)
      PROVE  Outstanding(c)' \/ (kind # "unknown" /\ Reflected(c)')
  BY <1>3, <1>4, <1>7 DEF PruneDeliveredChanges, Outstanding
<1>8. CASE Reconcile
  BY <1>3, <1>4, <1>8 DEF Reconcile, Outstanding, Pending, NoJob
<1>9. ASSUME NEW w \in Worker, FinishJob(w)
      PROVE  Outstanding(c)' \/ (kind # "unknown" /\ Reflected(c)')
  <2>1. claim[w] \in Change /\ result[w] \in Results
    BY <1>9 DEF FinishJob, Results
  <2>2. CASE result[w] = "ok" /\ c = claim[w]
    BY <1>2, <1>3, <1>9, <2>1, <2>2 DEF FinishJob, FinishInv
  <2>3. CASE result[w] # "ok" /\ c = claim[w]
    <3>1. job'[c] # NoJob
      BY <1>9, <2>1, <2>3 DEF FinishJob, Finished, NoJob
    <3>2. c \in journal'
      BY <1>9, <2>3 DEF FinishJob, Idles, JobInv, Busy
    <3> QED BY <3>1, <3>2 DEF Outstanding
  <2>4. CASE c # claim[w]
    BY <1>3, <1>4, <1>9, <2>1, <2>4 DEF FinishJob, Idles, Outstanding
  <2> QED BY <2>2, <2>3, <2>4
<1> QED
  BY <1>5, <1>6, <1>7, <1>8, <1>9
  DEF Next, WorkerStep, Claim, NothingToApply, Begin, AcquireTimeout, Select, Writes,
      UpsertNotebook, DeleteNotebook, UpsertTag, DeleteTag, UpsertNoteTag, ApplyResourceCreate,
      DeleteResource, Applied, SerializationFailure, ApplyFails, FinishFails, Idles, Crash,
      Returns, vars, jobVars

(* Metadata and bytes are written by one statement group or not at all. *)
LEMMA StepBytes ==
  ASSUME ProjInv, [Next]_vars PROVE BytesMatchMetadata'
<1>1. CASE \E w \in Worker : Writes(w)
  <2>1. PICK w \in Worker : Writes(w)
    BY <1>1
  <2>2. claim[w] \in Change /\ Op[claim[w]] \in {"upsert", "delete"}
    BY <2>1, OpAssumption DEF Writes, UpsertNotebook, DeleteNotebook, UpsertTag, DeleteTag,
       UpsertNoteTag, ApplyResourceCreate, DeleteResource, Writing, ProjInv, TypeInv, TypeOK
  <2> QED
    BY <2>1, <2>2 DEF Writes, UpsertNotebook, DeleteNotebook, UpsertTag, DeleteTag,
       UpsertNoteTag, ApplyResourceCreate, DeleteResource, Writing, Applied, Returns, Overwrites,
       rowVars, ProjInv, BytesMatchMetadata
<1>2. CASE ~\E w \in Worker : Writes(w)
  BY <1>2, OnlyWritersMove DEF ProjInv, BytesMatchMetadata
<1> QED BY <1>1, <1>2

LEMMA InitProjInv == Init => ProjInv
<1> SUFFICES ASSUME Init PROVE ProjInv
  OBVIOUS
<1>1. TypeInv
  BY InitTypeInv
<1>2. WriterInv /\ Exclusive /\ Untouched /\ FinishInv
  BY RowAssumption DEF Init, WriterInv, Exclusive, Untouched, FinishInv
<1>3. JournaledIsProjected
  BY DEF Init, JournaledIsProjected, AllProjected
<1>4. BytesMatchMetadata
  <2>1. CASE row \notin Change
    BY <2>1, HasDataAssumption DEF BytesMatchMetadata
  <2> QED BY <2>1, RowAssumption DEF Init
<1> QED BY <1>1, <1>2, <1>3, <1>4 DEF ProjInv

LEMMA StepProjInv == ProjInv /\ [Next]_vars => ProjInv'
<1> SUFFICES ASSUME ProjInv, [Next]_vars PROVE ProjInv'
  OBVIOUS
<1>1. TypeInv'
  BY StepTypeInv DEF ProjInv
<1> QED
  BY <1>1, StepWriterInv, StepExclusive, StepUntouched, StepFinishInv, StepProjected, StepBytes
  DEF ProjInv

-----------------------------------------------------------------------------
(* No crash, retry, duplicate, reconciliation or pruning loses a journaled   *)
(* change of a notebook or of a note's tags: it is in its table, or a newer  *)
(* one is, or its job is still there.  What does not parse keeps its job.    *)
THEOREM JournaledReachesTables == Spec => []JournaledIsProjected
<1>1. Spec => []ProjInv
  BY InitProjInv, StepProjInv, PTL DEF Spec
<1>2. ProjInv => JournaledIsProjected
  BY DEF ProjInv
<1> QED BY <1>1, <1>2, PTL

(* Whatever order any number of workers apply changes in, the row of a       *)
(* notebook, an association or a resource is only replaced by a version that *)
(* wins over the one it holds, as it is stored.                              *)
THEOREM VersionsNeverGoBack == Spec => NeverBackwards
<1>1. Spec => []ProjInv
  BY InitProjInv, StepProjInv, PTL DEF Spec
<1>2. ProjInv /\ [Next]_vars =>
        [kind # "tag" /\ row' # row => row = Absent \/ Beats(row')]_vars
  BY StepMoves DEF RowMoves
<1> QED BY <1>1, <1>2, PTL DEF Spec, NeverBackwards

(* Retries and concurrent workers never leave a resource with the metadata   *)
(* of one upload and the bytes of another.                                   *)
THEOREM BytesFollowMetadata == Spec => []BytesMatchMetadata
<1>1. Spec => []ProjInv
  BY InitProjInv, StepProjInv, PTL DEF Spec
<1>2. ProjInv => BytesMatchMetadata
  BY DEF ProjInv
<1> QED BY <1>1, <1>2, PTL
=============================================================================
