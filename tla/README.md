# Formal model of keeplin-srv

keeplin-srv is the server side of a note-taking application: accounts and
devices, notes whose lines are edited collaboratively over WebSockets, a relay
that carries opaque change batches between a user's devices, and the sharing of
notes and notebooks. State lives in PostgreSQL; several server processes
("instances") share one database and tell each other about changes with
LISTEN/NOTIFY. This directory holds TLA+ modules translated from the Rust
sources under `src/crates/keeplin-srv/src/`, TLC configurations that check them
on small instances, and TLAPS proofs for every value of the constants.

## The system's parts

| part | state | operations | talks to |
|---|---|---|---|
| line editing (`collab.rs` `apply_op`, `store.rs`) | tables `lines`, `note_line_order` | Insert, Update, Delete, Move; one transaction per message under a per-note advisory lock | sweep (shared rows), sessions (applied ops) |
| collaborative sessions (`collab.rs`) | per instance: note → session (subscribers, `apply_lock`, `seq`); per connection: `joined`, a bounded outbound queue | Join, Leave, Op, Cursor, Ack, close | line editing (calls), bus |
| bus (`bus.rs`) | the LISTEN connection; the `collab_events` outbox | deliver op, deliver presence, wake sync users | sessions, relay |
| sync relay (`sync.rs`, `store.rs`) | tables `changes`, `device_cursors`; per instance a broadcast channel per user | connect, scan, send, advance, push, fan out, leave | bus, projection, retention |
| projection (`projection.rs`) | table `projection_jobs`; entity tables | claim, apply, finish, retry, dead-letter, reconcile | relay (jobs are written with the journal rows) |
| retention (`main.rs`) | none | hourly sweeps of tombstones, journal, blobs, tokens; presence heartbeat | all tables |
| presence (`collab.rs`, `store.rs`) | table `collab_presence` | touch, clear, deliver, sweep | sessions, bus |
| permissions and sharing (`permissions.rs`, `http.rs`) | shares, ownership, notebook membership | resolve access, grant, revoke, move, transfer | line editing, HTTP |
| accounts and devices (`http.rs`, `auth.rs`) | users, devices, login attempts, e-mail tokens | register, login, reset, verify, revoke | everything (tokens) |
| quotas (`http.rs`, `store.rs`) | counts under advisory locks | create, import, upload | HTTP, projection |
| rate limiter (`ratelimit.rs`) | token buckets | check, sweep | HTTP |
| encryption at rest (`crypto.rs`, `reencrypt.rs`) | the `enc:v1:` column format | encrypt, decrypt, re-encrypt pass | store |

What is hard in it: read-modify-write cycles on one row by handlers of several
instances and by a background sweep that does not take the handlers' lock;
in-memory sessions that are created, looked up, subscribed to and dropped at
different awaits; three delivery paths (snapshot, local fan-out, bus) that must
add up to no gap; a journal whose sequence numbers are drawn before they become
visible; bounded queues whose overflow is handled by eviction in one place and
by a rescan in another; crashes between any two of these steps.
`PROJECT.json` lists these hazards line by line with the properties that watch
them.

## Modules

`Versions` - version vectors (`MergeVV`, `AdvancesWriter`) and the resolution
rule of keeplin-core (outside the repository, modelled from its use: causally
newer wins, concurrent versions compare by timestamp then writer). `LineOrder` -
pure operators on a line order: positions, splicing, filtering. `NoteLines`
extends both, `Projection` extends `Versions`.

`NoteLines` - one note's `lines` rows and its order row. A collaborative
message is a transaction: `LockNoteOrder` (BEGIN and advisory lock), for each op
`ReadOp` (everything `apply_op` reads and decides) and `WriteOp` (its INSERT and
UPDATE statements), or `RefuseOp` (Ignored, Invalid), then `Commit` or `Abort`.
Reading and writing are two steps because the sweep, which takes no advisory
lock, may run in between; a row or order written by the open transaction blocks
the sweep as PostgreSQL's row locks do. The sweep is `SweepLines` (the
autocommitted DELETE), `SweepOrder` (the later FOR UPDATE transaction) and
`SweepCrash` between them. `born` is a history variable. Line contents are
reduced to "fits" or "refused". A tombstone's `deleted_at` comes from the client,
so any tombstone may be old enough to be swept.

`CollabSession` - the fan-out of one note's batches over instances. A batch is
its commit number. `pc` is the await a connection's message loop is at:
`JoinCreate` / `JoinLock` / `JoinSubscribe` / `JoinFail`, `Leave` and
`DropIfEmpty`, `OpArrive` / `OpLock` / `OpCommit` or `OpNothing` / `OpBroadcast` /
`OpPublish` or `OpPublishFail`; `Drain` is the writer task. The bus is
`ListenerGet`, `ListenerDeliver`, `ListenerLose`; `Crash` takes an instance down.
`PresenceSend` and `PresenceEvict` are the two passes of a presence broadcast, which
holds no `apply_lock`; whom the first found full is not remembered, so the second
may evict any subscriber. `base`, `heard`, `fanned` and `lost` are history variables. The Welcome is
credited with the batches in the order row, the first of the two SELECTs of
`read_snapshot`.

`SyncRelay` - one user's devices, the journal, the cursors, the hub. A
connection is at the await `pc` names: `Connect` (hub join), `ReadCursor`,
`ScanChunk` / `ScanDone`, `SendChunk`, `Advance` (the backlog), `RecvBatch` /
`RecvRescan` / `RecvLagged` (the relay loop), `PushNew` / `PushDuplicate` (INSERT,
which draws the sequence number), `CommitAppend` or `AppendFails`, `FanOut`,
`Notify` or `NotifyFails`, `Drop` and `Leave`. `ListenerWake` and `ListenerLose` are
the bus, `Project` the end of a projection job, `Prune` the retention pass.
Connections are slots that may be reused; a device may have two of them.
"Sent" means accepted by the socket, which is what the code advances the cursor
on. A batch is one change.

`Sharing` - owners, places and shares of notes and notebooks; access resolution
(`NoteCaps`, `BookCaps`), the listing query (`Listed`) and the eight handlers that
change who may do what. A bit mask is a set of capabilities. A handler is two
actions: its first check (`UpdateNote`, `CreateShare`, ...) and its serializable
transaction (`UpdateNoteTx`, `CreateShareTx`, ...), which re-checks and writes.
`Refused`, `SerializationFailure` and `Exhausted` are the other outcomes of
`serializable`; `NotifyAccessRevoked` follows the commit. `DeleteNotebook` and
`UpsertNotebook` are what the projection does to a notebook meanwhile.

`Projection` - the queue `projection_jobs`, its workers and one entity's row. All
changes concern one entity, whose kind is chosen initially; the row is named by
the change whose version it carries, or is absent, or belongs to another user.
`AppendChanges`, `PruneDeliveredChanges` and `Reconcile` act on journal and queue;
a worker goes through `Claim` (the transaction stays open), `Begin` or
`AcquireTimeout` (a second connection), `Select` (locks and the guarded read), one
of the seven writes (which include COMMIT) or `SerializationFailure` /
`ApplyFails`, and `FinishJob` or `FinishFails`. `Crash` takes an instance down.
A notebook's writers are serializable, so a write requires the row to be as
read; the others are READ COMMITTED and excluded by the advisory lock
(`LockFree`) and the row lock (`RowFree`), where the code takes them. A resource's
conflicting insert does not overwrite `created_at`, so what a live resource is compared
by (`StoredStamp`) has the time of the change that first inserted it (`created`).
`DeleteNotebook` and `UpsertNotebook` of `Sharing` are the effect of the actions of
the same name here; the append is `CommitAppend` of `SyncRelay`.

`Accounts` - the account of one e-mail address: its user row, devices and e-mail
tokens. A request is at the SQL statement `pc` names, so that login, password
change, reset, verification and deletion interleave statement by statement.
Hashes are numbered in the order they are stored; `cut` and `confirmed` are
history. `LoginLockout` is the one row of `login_attempts` of that address, with
requests that pass `login_locked` before others' failures are recorded.

`RateLimiter` - the map of buckets behind the mutex, and requests that read the
clock before they get it (`Arrive`, `Check`); `Check` refills lazily and may sweep.
It implements `TokenBucket`, the bucket per address that nobody forgets and that
earns one unit per tick (`KeepsPromise`, with `Available` as refinement mapping).

`NoteQuota` - create_note and import_note as lock, count, commit, beside deletes
and transfers that take no lock. It implements `QuotaLedger`, where a note is
booked in one step (`BooksNotes`; a creation that has counted is already booked).
`BlobQuota` - uploads under the blob quota lock, beside resources that arrive,
return and are purged over the sync relay.

`Presence` - the rows of `collab_presence` of one note over all instances:
connections that join, move and leave with statements that may fail, the
maintenance loop (heartbeat, sweep, and the retention pass that holds it up),
crashes. `updated_at` is PostgreSQL's `now()` and the cutoff of a sweep is computed from
the host's `chrono::Utc::now()`, so `Stale` compares them up to `MaxSkew` apart. Loops begin
at any phase of their ticks; an instance that starts later is not modelled. `Reencrypt` - the batched compare-and-swap pass over one column, killed
and restarted at will, beside servers with and without the key.

`MC*` modules give constants their values; `*Proofs` modules hold the theorems.
`MCServices` puts the seven modules from `Accounts` to `Reencrypt` into one run:
they share no variable, so a behaviour of their product is one behaviour of each,
and `part`, chosen initially, says which one is explored.

## Runs

| run | cfg | result | what it shows |
|---|---|---|---|
| edit | NoteLinesEdit | holds | one connection, batches of two ops, two devices' stamps, no sweep: rows and order are the same ids (`OrderIsExactlyRows`); what is reported Applied is stored (`AppliedIsStored`) |
| sweep | NoteLinesSweep | holds | handlers against a sweep that may stop half way: `RowsInOrder`, `OrderIsDistinct`, `EditsAreVersioned`; the only op reported Applied and not stored is one on a tombstone the sweep took (`OnlyTombstoneEditsLost`) |
| bus | CollabBus | holds | two instances, queues of one message that presence lists fill too, and one instance that loses notifications, fails outbox writes and crashes: `SessionGapFree`, `CrossInstanceGapFree`; liveness: `BatchesReachSiblings`, and `HandlersFinish` (no `apply_lock` is leaked, nobody starves for it) |
| orphan_session | CollabOrphan | violated | `drop_if_empty` removes a session that a joiner holds; two peers stop hearing each other |
| journal | SyncJournal | holds | one writer; drops, crashes, overruns, lost notifications, retries, pruning, two sockets of one device: `NeverLost` |
| live_lag | SyncLag | holds | liveness: a connected device gets every batch although its channel overflows |
| live_wake | SyncWake | holds | liveness: the same across instances, through NOTIFY and rescan |
| sharing | Sharing | holds | two users, one note, two notebooks, two requests at a time, three in all: `OwnersHoldNoShares`, `ListedIsReadable`, `DelegationNeverAmplifies` (authority is checked again where it is used), `MovesAreGuarded` |
| projection | Projection | holds | two workers, three versions, every kind of entity, failures, a crash and pools of 2 and 4 connections: `JournaledIsProjected`, `NeverBackwards`, `BytesMatchMetadata`; liveness: `JobsSettle` |
| tag_lost | ProjectionTag | violated | `AllProjected` for tags: `delete_tag` takes no lock, a newer change is lost with its job removed |
| commit_order | SyncOrder | violated | with two writers a batch that commits late falls behind a cursor |
| services | Services | holds | the account, the lockout, the limiter, the quotas, presence and re-encryption, each on its own small instance (below) |

What `services` checks. Accounts: a reset ends every login that verified an older
password (`ResetEndsOldLogins`), no device without its account
(`DevicesHaveAccounts`), verification only through this account's own mail
(`VerifiedByMail`), and the count-then-insert race of e-mail tokens stays within one
per concurrent request (`TokensNearCap`). Lockout: `FailuresPerWindow`. Limiter:
`KeepsPromise` and `IdleBucketsGo` (memory follows traffic). Quotas: `BooksNotes`,
`StorageWithinLimit`. Presence: nobody who is there is swept (`JoinedArePresent`), a
crashed instance's rows go in bounded time (`GhostsAreBrief`). Re-encryption:
`PassClobbersNothing`, and a pass that began with every server keyed leaves no
plaintext (`PassEncryptsAll`).

Every violated run states a sentence of the repository's own documents;
`PROJECT.json` quotes it in "findings". Further disagreements met while modelling
are listed among the hazards and have no run of their own:

- with a sweeper `AppliedIsStored` fails: the sweep deletes a tombstone between
  `apply_op`'s SELECT and its UPDATE, which then matches no row and is reported
  Applied all the same. `OnlyTombstoneEditsLost` says that nothing else is lost
  that way: not the edit of a line that was live when it was read, whatever
  another connection and the sweep do to the line, and no order;
- an evicted subscriber stays connected, joined and deaf (collab.md says it
  reconnects);
- pruning does not wait for a device that has no cursor row yet (sync.md and
  ADR 0004 say it does);
- an Update brings a tombstone back past `MAX_LINES_PER_NOTE` (only Insert counts);
- a swept id that a racing op writes back into the order is not removed by later
  sweeps, which filter only the ids they deleted themselves (harmless to
  `RowsInOrder`);
- `SyncHub::leave` counts the departing connection's own receiver, so a user's
  channel is never removed from the hub;
- a ResourceDelete applied before its ResourceCreate finds no row and is
  forgotten, so `AllProjected` is not claimed for resources;
- the clean-up of presence at start-up meets no row, since `instance_id` is drawn
  anew by every process (collab.md and main.md describe it as removing the rows of
  a previous run): a crashed instance's rows are left to the TTL sweep, which is
  what `GhostsAreBrief` bounds;
- a `clear_presence` that fails at Leave leaves a row that the heartbeat of the same
  instance keeps alive until the process ends;
- `change_password` reads the hash, verifies, and updates without comparing it again:
  of two racing changes, or a change and a reset, the later write wins. And a
  `create_device` that `auth_mw` let in before a reset may insert its device after the
  reset has revoked the others, so `ResetEndsOldLogins` speaks of logins only;
- a presence broadcast may evict a connection that has left and joined again since
  its queue was found full.

### Bounds

Two lines, two devices' stamps and counters up to 2 let every op kind win, lose and tie against a
stored version, and let an order hold a line that a second op moves or a sweep
removes. Two connections suffice for each race in `CollabSession`: each
invariant speaks of one subscriber and one batch; a second session (`MaxSessions
= 2`) is what an orphaned one needs. The bus run has one connection on each of two
instances and one batch (two batches, or a second connection, are millions of states
before liveness): a handler contends for the `apply_lock` with the listener alone, and
no second notification queues behind a listener that waits. The invariants of that
run are proved for any number of either; the two liveness properties are not. Queues of one message make overflow happen
at the second. In `SyncRelay` three sequence numbers, the first already delivered
at the start, give two batches, or one batch and its re-insertion after pruning;
chunks of one row put a chunk boundary between them. In `Sharing` two
users suffice, since each rule speaks of a sender and one other; three requests
are a grant, a request that relies on it, and the revocation or transfer that
races it. `EjectionAllowed` is TRUE, the scheme that permits more. In `Projection`
three versions (a creation, a deletion by the same
device and a concurrent edit) applied by two workers give every order of two
writers on a row that is absent, older or newer; `MaxAttempts` and `MaxTries` are 2
so that both a retry and the limit happen; a pool of 2 is where both workers hold
a claim and wait for each other's connection. The proofs remove these
bounds for the properties they cover. The runs of `CollabSession`,
`SyncRelay`, `Sharing`, `Projection` and `services` do not check for deadlock: all
clients may be gone, and the bounded counters be used up.

In `services` two requests and two devices are a login, change or reset and the one
it races; three hashes are the registration, the old and the new password, or an
account deleted and registered again with its password reset; a cap of one token is
passed by two requests at once. Three login attempts exceed two permitted failures
while two are in flight. A bucket of 4 units, paying 2, with an interval of 4 and 8
ticks, fills, empties, is swept and comes back, by clocks that are one tick late.
Three creations of two users with a limit of 2 and two transfers go over the limit
in each way the code permits; two uploads of two resources do the same for bytes.
Three rows in batches of two make the re-encryption page. Presence is checked
with one connection and two instances: rows of different connections do not meet.
A unit of time is 15 s there: `PRESENCE_TICK` 4, TTL 10, a retention pass of up to 1, a
host clock up to 1 ahead of the database's or behind it (anew at each sweep), one
failed heartbeat or sweep in a row: the four fit the TTL exactly.

### Fairness

Server tasks that can take a step do: tokio schedules every ready task, and
database calls return, with an error if need be. In `CollabSession` this is
strong fairness, one condition for each connection's handler and each
instance's listener, because tokio's Mutex is FIFO: a task waiting for the
`apply_lock` gets it although others hold it in between. There nothing is
assumed of clients, not even that they read their socket: a full queue is the
case the code handles. In `SyncRelay` weak fairness suffices (no locks); it
includes `SendChunk` and `RecvBatch`, that is, the socket of a client that stays
connected accepts what is sent, since the code awaits the send. Connecting,
pushing and closing are up to the clients. In the bus run one instance may
crash; the relay's liveness runs have no failing instance, since a notification
lost with nobody reconnecting is delivered at the next connect only, which is
what `NeverLost` covers.

In `Projection` each worker's own steps are weakly fair (the worker loop ticks
for ever and skips jobs others hold); failures and crashes are not fair and
are bounded by `MaxFailures`, appends and reconciliations by `MaxAppends`.

## Proofs

`LineOrderProofs` has the lemmas on list surgery (what splicing and filtering
keep, that they preserve distinctness, where a position lies) and on version
vectors. `Without` is a recursive function, and what it keeps is proved by
induction on the length of the prefix it has filtered; the induction principle
(`SetInduction`, which takes the property as a set of numbers rather than as an
operator) is derived there from the least-element property of `<` on the
naturals.

`NoteLinesProofs`: `TypeCorrect`; `RowsStayOrdered` - `RowsInOrder` is not inductive,
since a handler writes an order it read earlier. `IInv` adds that one transaction
is open at a time and leaves nothing behind, that what it sees and plans
satisfies the same inclusion, that a sweep's ids have no row anywhere, that ids
in an order were once committed, and that an order in a transaction is no older
than the committed one (which is what makes a resent Insert be refused).
`OrderStaysDistinct` assumes that clients do not repeat a line in one Move.
`EditsStayVersioned` needs that each write of an open transaction, and each one it
has planned, has a larger version than the committed row it will replace
(`WritesGrow`, `PlansGrow`); that this is still the row it read is what the lock on
the order buys. `OnlyTombstoneEditsAreLost` holds for any
number of sweepers: an op that was reported is stored in the transaction, or is about
to be written to a row no sweep can take because it is committed live or written by
this transaction, or was an op on a tombstone (`ReportedIsAccounted`); a lost one
stays lost, since no applied Insert brings an id back that was once committed
(`AppliedInsertIsNew`). `OrderNamesTheRows` and
`AppliedOpsAreStored` have the hypothesis `Sweeper = {}`: with a sweep both fail, as
described under Runs - a sweep commits its rows before it compacts the order, and
may take the tombstone an Update is about to revive. Without one, every id in an order a
handler sees or plans has a row it sees or plans (`IdsHaveRows`), and what was
reported stays covered by later writes of the same batch (`AppliedIsKept`).

`CollabSessionProofs`: `TypeCorrect`, which includes that no outbound queue exceeds its
capacity; `SessionsAreGapFree` - the strengthening says
who holds the `apply_lock` at which await, that batches in flight are committed
ones, and that nothing was fanned out in a session since the snapshot a joiner
is reading. `InstancesAreGapFree` adds `GapInv`: what a joiner's snapshot lacks is on
its way to the session it joins (`ReadersCovered`), which holds when the snapshot is
read, because it has everything then, and is kept because the listener needs
the `apply_lock` the joiner holds; and a session that was not created yet has nobody
in it (`NotYetMade`), so that an event the listener drops when no session is
registered is missed by nobody. One lemma (`GapStep`) covers every step that neither
commits nor subscribes: it asks what became of each batch that was on its way
(`Arrives`).

`SyncRelayProofs`: `TypeCorrect`, for any number of writers; `NothingIsLost` -
as long as no two connections have an `append_changes` transaction open at once
(`OneAppend`), which the `commit_order` run shows to be needed; any number may push. The strengthening says that the number of
an append under way is above every row, cursor and scan position, and that each
position a scan may hand to `advance_cursor` is covered by then: whatever lies at
or below it was sent. Pruning keeps it because a pruned row lies behind the
cursor of every device that has one.

`SharingProofs`: `TypeCorrect`, `OwnersNeverHoldShares`, `AuthorityIsNeverMade`,
`ListingMatchesAccess`, `MovesStayGuarded`, for any numbers of users, notes, notebooks
and requests.
The proofs use what a transaction checks itself and never what its handler
checked before, so they also show that the first checks are not needed for
safety. The lemmas on `FromBits` say that it stays within the capabilities,
is monotone and adds nothing to a set that is already closed, which is what
bounds a grant and what a notebook passes on. For moves they say that
whoever loses a capability held it through the notebook, hence is among the
principals `update_note` compares (`InheritedHasPrincipal`, `LosersAreFound`).

`ProjectionProofs`: `TypeCorrect`, `JournaledReachesTables`, `VersionsNeverGoBack`,
`BytesFollowMetadata`. `ClockAssumption` (an edit made on top of another has a later
time, or the same and a greater writer; versions are unique) makes `incoming_wins`
a total order on the changes (`WinsTotal`, `WinsTransitive`); without it resolution
is not transitive. `ProjInv` adds that a transaction about to write has read a
version its own wins over (`WriterInv`), that associations and resources have one
writer at a time whose read is still current (`Exclusive`), and that a job about to
be removed has its change reflected (`FinishInv`). `RowMoves` is then all a step can
do to the row, and what is reflected stays so.

`AccountsProofs`: `AccountsTyped`, `ResetsEndLogins`, `NoOrphanDevices`,
`VerifiedThroughMail`, `TokensStayNearCap`. For the first three `AccountsInv` adds that
the stored hash is always the newest one made, that a login's device is not older
than its account, and that a reset whose account was replaced wrote its hash before
the new account: together these let a revocation that comes late miss nothing it
should end. Verification needs that a request about to mark the account has consumed
its token while this account existed. The token bound is inductive only with the
requests that have counted and not inserted counted in (`TokensAhead`).

`ServicesProofs`: `NotesAreBooked` and `LimiterKeepsPromise` are the refinements, each a
simulation step by step under an invariant (a creation that has begun holds its
user's lock; no clock reading is from the future or older than `Slack`). A late clock
yields a credit of at most `Slack`, computed in `CheckKeepsPromise`; a sweep drops only
buckets that are full for everybody who may still come (`OtherBuckets`).
`IdleBucketsAreDropped`. `PresentStayListed` and `GhostsGo` rest on
sums that time leaves alone: a row's age and the time to its instance's next
heartbeat together are paid for by the ticks since the last success
(`RowsTouched`), and so are a ghost's time and the time to any survivor's next sweep
(`GhostsSwept`); `LoopsKeepUp` bounds how late a loop can be, `MaxSkew` how early or
late a row is stale.
`PassKeepsTexts`: a row the open transaction has updated still holds what was read.
`PassIsComplete`: once every server has the key, a plaintext row is ahead of the
cursor, in the batch with the text it was read with, or updated and not committed
(`NothingMissed`); the scan keeps this since whatever its LIMIT leaves out has a
larger id than everything it returns, and it returns something if there is anything
(`SelectedRows`). `LockoutHolds`: `failed_count` is at least the failures in the window
(`RowCounts`), and these together with the attempts past `login_locked` stay
below the bound (`AdmittedFit`): a new attempt is let in only when the count is below
the limit or the window is empty. `StorageStaysWithinLimit`: what an upload measured
stays true, up to what arrives past the quota, until it writes (`RoomKept`), since
only the holder of the lock has measured anything (`BlobLockHeld`).

The window of the lockout and the sum of the blobs are cardinalities in the model
(of the failures in the window, of the bytes of the blobs), not sums by recursion:
counting has laws the prover can use, a fold does not.

Only model-checked: the liveness properties `BatchesReachSiblings`, `HandlersFinish`,
`LiveDelivery` and `JobsSettle`, which are out of the prover's reach. Every other
property of a passing run is also a theorem.

Assumptions on constants are named (`...Assumption`) in the modules that declare
them and evaluated by TLC in every run. Most fix shapes and bounds. The others are
what the code relies on without enforcing it: `ClockAssumption` (above);
`LockoutAssumption`, that `LOGIN_LOCKOUT_SECS` is not longer than the 24 hours after
which attempts are pruned; `LimiterAssumption`, that a request waits for the mutex for
less than a bucket takes to fill; `PresenceAssumption`, that the heartbeat, with the
delays, failures and clock skew assumed, is faster than the TTL. `OneAppend` and
`SelectionsDistinct`, and `Sweeper = {}`, are hypotheses of the theorems that need them.

## Not modelled, and the plan

Still to do:

1. An abstract specification of the journal (each batch reaches each device at
   least once) that `SyncRelay` implements, and one of an entity's row that
   `Projection` implements.
2. Proofs that go with them: that each step of the detailed specification is a
   step of the abstract one or none.

Left out for good: argon2, JWT, AES-GCM and SMTP (libraries), configuration
parsing, logging and metrics, and the CRUD handlers that are one query each.
What an account's deletion, note creation and import do to shares is not in
`Sharing`; uploads and the purge of blobs are in `BlobQuota` and not in `Projection`. A
ResourceCreate that carries a `deleted_at` has no case of its own in `Projection`. In
`BlobQuota` the ownership check and the sum of an upload are one step.
In `CollabSession`, error messages and messages about other notes do not take room
in the outbound queue. `MAX_NOTES_PER_USER = 0`, `MAX_USER_STORAGE_BYTES = 0` and
`RATE_LIMIT_PER_MIN = 0`, which turn a limit off, are left out, as is the rounding of
the limiter's f64.
