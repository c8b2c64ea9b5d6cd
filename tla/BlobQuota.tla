----------------------------- MODULE BlobQuota -----------------------------
(***************************************************************************)
(* The quota on the bytes of one user's resources, under requests that run *)
(* at the same time (put_resource_data of http.rs, the resource and quota  *)
(* parts of store.rs).                                                     *)
(*                                                                         *)
(* An upload opens a transaction, takes the user's advisory lock, sums the *)
(* other blobs, writes and commits.  What arrives over the sync relay, the *)
(* deletes and the purge take no notice of the lock or of the limit.       *)
(* Abstracted: what a blob contains, the version rules of the relay (which *)
(* are module Projection's), and MAX_USER_STORAGE_BYTES = 0, which turns   *)
(* the quota off.                                                          *)
(***************************************************************************)
EXTENDS Integers, FiniteSets

CONSTANTS
  Upload,         \* put_resource_data requests
  NoUpload,       \* the holder of the free lock
  Resource,
  NoResource,     \* the target of an upload that has not begun
  StorageLimit,   \* MAX_USER_STORAGE_BYTES
  MaxSize,        \* bound: bytes of a blob
  MaxArrived      \* bound: bytes that arrive outside the quota

ASSUME BlobQuotaAssumption ==
  /\ NoUpload \notin Upload /\ IsFiniteSet(Resource) /\ NoResource \notin Resource
  /\ StorageLimit \in Nat \ {0} /\ MaxSize \in Nat /\ MaxArrived \in Nat

VARIABLES
  present,     \* resources with deleted_at NULL
  bytes,       \* per resource: the length of its blob, 0 without one
  arrived,     \* history: bytes that came to count outside the quota
  blobLock,    \* the upload that holds the blob quota lock
  target,      \* per upload: the resource it is for
  size,        \* per upload: the length of its body
  measured     \* uploads that found room and are about to write

blobQuotaVars == <<present, bytes, arrived, blobLock, target, size, measured>>

BlobQuotaInit ==
  /\ present = {} /\ bytes = [b \in Resource |-> 0] /\ arrived = 0
  /\ blobLock = NoUpload /\ measured = {}
  /\ target = [p \in Upload |-> NoResource] /\ size = [p \in Upload |-> 0]

(* SUM(octet_length(data)): a pair for each byte of each blob, counted. *)
BytesOf(resources) == Cardinality(UNION {{b} \X (1 .. bytes[b]) : b \in resources})

(* Mutant: pg_advisory_xact_lock on a key nobody shares. *)
TakeBlobLockAlone(p) == UNCHANGED blobLock
TakeBlobLock(p) == blobLock = NoUpload /\ blobLock' = p

LockBlobQuota(p, b, n) ==
  /\ target[p] = NoResource
  /\ TakeBlobLock(p)
  /\ target' = [target EXCEPT ![p] = b]
  /\ size' = [size EXCEPT ![p] = n]
  /\ UNCHANGED <<present, bytes, arrived, measured>>

(* The sum of the other blobs and the new size: a replacement counts once. *)
HasRoom(p) == BytesOf(present \ {target[p]}) + size[p] <= StorageLimit

(* Whose the resource is and the sum are two queries of one transaction, *)
(* under the lock; what the first finds is looked up again by CommitBlob. *)
MeasureBlobs(p) ==
  /\ target[p] # NoResource /\ p \notin measured
  /\ target[p] \in present /\ HasRoom(p)
  /\ measured' = measured \cup {p}
  /\ UNCHANGED <<present, bytes, arrived, blobLock, target, size>>

EndUpload(p) ==
  /\ blobLock' = NoUpload
  /\ target' = [target EXCEPT ![p] = NoResource]
  /\ size' = [size EXCEPT ![p] = 0]
  /\ measured' = measured \ {p}

(* put_resource_blob_on looks again whether the resource is live. *)
CommitBlob(p) ==
  /\ p \in measured /\ target[p] \in present
  /\ bytes' = [bytes EXCEPT ![target[p]] = size[p]]
  /\ EndUpload(p)
  /\ UNCHANGED <<present, arrived>>

RollbackBlob(p) ==
  /\ target[p] # NoResource
  /\ EndUpload(p)
  /\ UNCHANGED <<present, bytes, arrived>>

(***************************************************************************)
(* Resources that change without a look at the quota: a ResourceCreate     *)
(* with or without data, which may bring a deleted one back, deletes (of   *)
(* one, or of those of a note), and the purge of deleted blobs.            *)
(***************************************************************************)
Counts(b) == IF b \in present THEN bytes[b] ELSE 0

ApplyResourceCreate(b, data, deleted) ==
  /\ present' = IF deleted THEN present \ {b} ELSE present \cup {b}
  /\ bytes' = IF data > 0 THEN [bytes EXCEPT ![b] = data] ELSE bytes
  /\ LET growth == Counts(b)' - Counts(b) IN
       arrived' = IF growth > 0 THEN arrived + growth ELSE arrived
  /\ arrived' <= MaxArrived
  /\ UNCHANGED <<blobLock, target, size, measured>>

DeleteResources(gone) ==
  /\ gone # {} /\ gone \subseteq present
  /\ present' = present \ gone
  /\ UNCHANGED <<bytes, arrived, blobLock, target, size, measured>>

PurgeDeletedBlobs(old) ==
  /\ old # {} /\ old \subseteq Resource \ present
  /\ bytes' = [b \in Resource |-> IF b \in old THEN 0 ELSE bytes[b]]
  /\ UNCHANGED <<present, arrived, blobLock, target, size, measured>>

BlobQuotaNext ==
  \/ \E p \in Upload, b \in Resource, n \in 0 .. MaxSize : LockBlobQuota(p, b, n)
  \/ \E p \in Upload : MeasureBlobs(p) \/ CommitBlob(p) \/ RollbackBlob(p)
  \/ \E b \in Resource, data \in 0 .. MaxSize, deleted \in BOOLEAN :
        ApplyResourceCreate(b, data, deleted)
  \/ \E gone \in SUBSET Resource : DeleteResources(gone)
  \/ \E old \in SUBSET Resource : PurgeDeletedBlobs(old)

BlobQuotaSpec == BlobQuotaInit /\ [][BlobQuotaNext]_blobQuotaVars
-----------------------------------------------------------------------------
(***************************************************************************)
(* put_resource_data never takes the live blobs of a user past the limit:  *)
(* what they exceed it by came over the sync relay, or was brought back by *)
(* it after the room it left had been used again.                          *)
(***************************************************************************)
StorageWithinLimit == BytesOf(present) <= StorageLimit + arrived
=============================================================================
