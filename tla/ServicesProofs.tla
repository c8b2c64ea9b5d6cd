--------------------------- MODULE ServicesProofs ---------------------------
(***************************************************************************)
(* Proofs about the services that guard the server: the note quota, the    *)
(* rate limiter, presence, re-encryption, the login lockout and the        *)
(* storage quota, for every value of their constants.                      *)
(***************************************************************************)
EXTENDS NoteQuota, RateLimiter, Presence, Reencrypt, LoginLockout, BlobQuota,
        FiniteSetTheorems, SequenceTheorems, WellFoundedInduction, TLAPS

(***************************************************************************)
(* The note quota.                                                         *)
(***************************************************************************)
NoteQuotaType ==
  /\ liveNotes \in [User -> Nat] /\ received \in [User -> Nat]
  /\ noteLock \in [User -> Creation \cup {NoCreation}]
  /\ creating \in [Creation -> User \cup {NoUser}]
  /\ counted \in SUBSET Creation

(* A creation that has begun holds the lock of its user. *)
LockHeld ==
  \A c \in Creation : creating[c] # NoUser => noteLock[creating[c]] = c

CountedHasBegun == \A c \in counted : creating[c] # NoUser

NoteQuotaInv == NoteQuotaType /\ LockHeld /\ CountedHasBegun

LEMMA NoteQuotaInitInv ==
  ASSUME NoteQuotaInit
  PROVE  NoteQuotaInv
BY DEF NoteQuotaInit, NoteQuotaInv, NoteQuotaType, LockHeld, CountedHasBegun

LEMMA NoteQuotaStepInv ==
  ASSUME NoteQuotaInv, [NoteQuotaNext]_noteQuotaVars
  PROVE  NoteQuotaInv'
<1> USE NoteQuotaAssumption
    DEF NoteQuotaInv, NoteQuotaType, LockHeld, CountedHasBegun
<1>1. CASE \E c \in Creation, u \in User : LockNoteQuota(c, u)
  BY <1>1 DEF LockNoteQuota, TakeNoteLock
<1>2. CASE \E c \in Creation : CountNotes(c)
  BY <1>2 DEF CountNotes
<1>3. CASE \E c \in Creation : CommitNote(c)
  BY <1>3 DEF CommitNote, EndCreation
<1>4. CASE \E c \in Creation : RollbackNote(c)
  BY <1>4 DEF RollbackNote, EndCreation
<1>5. CASE \E u \in User : DeleteNote(u)
  BY <1>5 DEF DeleteNote
<1>6. CASE \E u, v \in User : TransferNote(u, v)
  BY <1>6 DEF TransferNote
<1>7. CASE UNCHANGED noteQuotaVars
  BY <1>7 DEF noteQuotaVars
<1> QED BY <1>1, <1>2, <1>3, <1>4, <1>5, <1>6, <1>7 DEF NoteQuotaNext

(* Two creations for one user do not both pass the count. *)
LEMMA OneBooking ==
  ASSUME NoteQuotaInv, NEW c \in counted, NEW e \in counted, creating[c] = creating[e]
  PROVE  c = e
BY DEF NoteQuotaInv, NoteQuotaType, LockHeld, CountedHasBegun

LEMMA BookedType ==
  ASSUME NEW u \in User
  PROVE  Booked(u) \in {0, 1} /\ Booked(u)' \in {0, 1}
BY DEF Booked

(* What the ledger sees, user by user. *)
LEMMA InUseAt ==
  ASSUME NoteQuotaInv
  PROVE  /\ InUse \in [User -> Nat]
         /\ \A u \in User : InUse[u] = liveNotes[u] + Booked(u)
<1>1. \A u \in User : Booked(u) \in Nat
  BY BookedType
<1> QED BY <1>1 DEF InUse, NoteQuotaInv, NoteQuotaType

LEMMA InUseNext ==
  ASSUME NoteQuotaInv'
  PROVE  /\ InUse' \in [User -> Nat]
         /\ \A u \in User : InUse'[u] = liveNotes'[u] + Booked(u)'
<1>1. \A u \in User : Booked(u)' \in Nat
  BY BookedType
<1> QED BY <1>1 DEF InUse, NoteQuotaInv, NoteQuotaType

(* The steps of the transaction, as the ledger sees them. *)
LEMMA LockIsHidden ==
  ASSUME NoteQuotaInv, NEW c \in Creation, NEW u \in User, LockNoteQuota(c, u)
  PROVE  UNCHANGED <<InUse, received>>
<1>1. ASSUME NEW v \in User PROVE Booked(v)' = Booked(v)
  BY DEF LockNoteQuota, Booked, NoteQuotaInv, NoteQuotaType, CountedHasBegun
<1>2. UNCHANGED <<liveNotes, received>>
  BY DEF LockNoteQuota
<1> QED BY <1>1, <1>2 DEF InUse

LEMMA CountBooks ==
  ASSUME NoteQuotaInv, NoteQuotaInv', NEW c \in Creation, CountNotes(c)
  PROVE  \E u \in User : Ledger!Book(u)
<1>1. PICK u \in User : u = creating[c]
  BY DEF CountNotes, NoteQuotaInv, NoteQuotaType
<1>2. Booked(u) = 0 /\ Booked(u)' = 1
  BY <1>1 DEF CountNotes, Booked, NoteQuotaInv, NoteQuotaType, LockHeld
<1>3. ASSUME NEW v \in User, v # u PROVE Booked(v)' = Booked(v)
  BY <1>1, <1>3 DEF CountNotes, Booked
<1>4. UNCHANGED <<liveNotes, received>> /\ liveNotes[u] < NoteLimit
  BY <1>1 DEF CountNotes, RoomForNote
<1>5. InUse[u] < NoteLimit /\ InUse' = [InUse EXCEPT ![u] = @ + 1]
  BY <1>2, <1>3, <1>4, InUseAt, InUseNext DEF NoteQuotaInv, NoteQuotaType
<1> QED BY <1>4, <1>5 DEF Ledger!Book

LEMMA CommitIsHidden ==
  ASSUME NoteQuotaInv, NEW c \in Creation, CommitNote(c)
  PROVE  UNCHANGED <<InUse, received>>
<1>1. PICK u \in User : u = creating[c]
  BY DEF CommitNote, NoteQuotaInv, NoteQuotaType, CountedHasBegun
<1>2. Booked(u) = 1 /\ Booked(u)' = 0
  BY <1>1, OneBooking DEF CommitNote, EndCreation, Booked, NoteQuotaInv, NoteQuotaType
<1>3. ASSUME NEW v \in User, v # u PROVE Booked(v)' = Booked(v)
  BY <1>1, <1>3, NoteQuotaAssumption DEF CommitNote, EndCreation, Booked, NoteQuotaInv, NoteQuotaType
<1>4. UNCHANGED received /\ liveNotes' = [liveNotes EXCEPT ![u] = @ + 1]
  BY <1>1 DEF CommitNote
<1> QED BY <1>2, <1>3, <1>4 DEF InUse, NoteQuotaInv, NoteQuotaType

LEMMA RollbackGivesBack ==
  ASSUME NoteQuotaInv, NoteQuotaInv', NEW c \in Creation, RollbackNote(c)
  PROVE  (\E u \in User : Ledger!GiveBack(u)) \/ UNCHANGED <<InUse, received>>
<1>1. PICK u \in User : u = creating[c]
  BY DEF RollbackNote, NoteQuotaInv, NoteQuotaType
<1>2. UNCHANGED <<liveNotes, received>>
  BY DEF RollbackNote
<1>3. CASE c \in counted
  <2>1. Booked(u) = 1 /\ Booked(u)' = 0
    BY <1>1, <1>3, OneBooking DEF RollbackNote, EndCreation, Booked, NoteQuotaInv, NoteQuotaType
  <2>2. ASSUME NEW v \in User, v # u PROVE Booked(v)' = Booked(v)
    BY <1>1, <2>2, NoteQuotaAssumption
       DEF RollbackNote, EndCreation, Booked, NoteQuotaInv, NoteQuotaType
  <2>3. InUse[u] > 0 /\ InUse' = [InUse EXCEPT ![u] = @ - 1]
    BY <1>2, <2>1, <2>2, InUseAt, InUseNext DEF NoteQuotaInv, NoteQuotaType
  <2> QED BY <1>2, <2>3 DEF Ledger!GiveBack
<1>4. CASE c \notin counted
  <2>1. ASSUME NEW v \in User PROVE Booked(v)' = Booked(v)
    BY <1>1, <1>4, NoteQuotaAssumption
       DEF RollbackNote, EndCreation, Booked, NoteQuotaInv, NoteQuotaType
  <2> QED BY <1>2, <2>1 DEF InUse
<1> QED BY <1>3, <1>4

LEMMA DeleteGivesBack ==
  ASSUME NoteQuotaInv, NoteQuotaInv', NEW u \in User, DeleteNote(u)
  PROVE  Ledger!GiveBack(u)
<1>1. ASSUME NEW v \in User PROVE Booked(v)' = Booked(v)
  BY DEF DeleteNote, Booked
<1>2. InUse[u] > 0 /\ InUse' = [InUse EXCEPT ![u] = @ - 1]
  BY <1>1, BookedType, InUseAt, InUseNext DEF DeleteNote, NoteQuotaInv, NoteQuotaType
<1> QED BY <1>2 DEF DeleteNote, Ledger!GiveBack

LEMMA TransferHandsOver ==
  ASSUME NoteQuotaInv, NoteQuotaInv', NEW u \in User, NEW v \in User, TransferNote(u, v)
  PROVE  Ledger!HandOver(u, v)
<1>1. ASSUME NEW w \in User PROVE Booked(w)' = Booked(w)
  BY DEF TransferNote, Booked
<1>2. InUse[u] > 0 /\ InUse' = [InUse EXCEPT ![u] = @ - 1, ![v] = @ + 1]
  BY <1>1, BookedType, InUseAt, InUseNext DEF TransferNote, NoteQuotaInv, NoteQuotaType
<1> QED BY <1>2 DEF TransferNote, Ledger!HandOver

(***************************************************************************)
(* create_note and import_note count and insert in two statements, and     *)
(* still book a note against MAX_NOTES_PER_USER in one step: the advisory  *)
(* lock makes the creation that has counted the only one of its user.      *)
(***************************************************************************)
THEOREM NotesAreBooked == NoteQuotaSpec => BooksNotes
<1>1. NoteQuotaInit => Ledger!Init
  <2> SUFFICES ASSUME NoteQuotaInit PROVE Ledger!Init
    OBVIOUS
  <2>1. ASSUME NEW u \in User PROVE Booked(u) = 0
    BY DEF NoteQuotaInit, Booked
  <2> QED BY <2>1 DEF NoteQuotaInit, InUse, Ledger!Init
<1>2. NoteQuotaInv /\ [NoteQuotaNext]_noteQuotaVars => [Ledger!Next]_<<InUse, received>>
  <2> SUFFICES ASSUME NoteQuotaInv, [NoteQuotaNext]_noteQuotaVars
               PROVE  Ledger!Next \/ UNCHANGED <<InUse, received>>
    OBVIOUS
  <2>1. CASE UNCHANGED noteQuotaVars
    BY <2>1 DEF noteQuotaVars, InUse, Booked
  <2>2. CASE NoteQuotaNext
    BY <2>2, NoteQuotaStepInv, LockIsHidden, CountBooks, CommitIsHidden, RollbackGivesBack, DeleteGivesBack,
       TransferHandsOver DEF NoteQuotaNext, Ledger!Next
  <2> QED BY <2>1, <2>2
<1>3. NoteQuotaSpec => []NoteQuotaInv
  BY NoteQuotaInitInv, NoteQuotaStepInv, PTL DEF NoteQuotaSpec
<1> QED BY <1>1, <1>2, <1>3, PTL DEF NoteQuotaSpec, BooksNotes, Ledger!Spec

-----------------------------------------------------------------------------
(***************************************************************************)
(* The rate limiter.                                                       *)
(***************************************************************************)
LimiterType ==
  /\ clock \in Nat /\ lastSweep \in Nat
  /\ held \in SUBSET Address
  /\ tokens \in [Address -> 0 .. Capacity] /\ refilled \in [Address -> Nat]
  /\ from \in [Call -> Address \cup {NoAddress}] /\ stamp \in [Call -> Nat]

(* No clock reading is from the future, and none that waits is older than Slack. *)
ClocksRead ==
  /\ lastSweep <= clock
  /\ \A k \in Address : refilled[k] <= clock
  /\ \A c \in Call : from[c] # NoAddress => stamp[c] <= clock /\ clock <= stamp[c] + Slack

(* A bucket outlives a sweep only if it was used in the time it takes to fill. *)
SweptOften ==
  \A k \in held : /\ refilled[k] + Capacity > lastSweep
                  /\ refilled[k] < lastSweep + SweepInterval

LimiterInv == LimiterType /\ ClocksRead /\ SweptOften

LEMMA LimiterInitInv ==
  ASSUME LimiterInit
  PROVE  LimiterInv
BY LimiterAssumption DEF LimiterInit, LimiterInv, LimiterType, ClocksRead, SweptOften

LEMMA ProjectedType ==
  ASSUME LimiterType, NEW k \in Address, NEW now \in Nat
  PROVE  /\ ProjectedTokens(k, now) \in 0 .. Capacity
         /\ TokensLeft(k, now) \in 0 .. Capacity
BY LimiterAssumption
   DEF LimiterType, ProjectedTokens, TokensLeft, Enough, AtMostFull, Since

(* What check leaves of the buckets. *)
LEMMA CheckEffect ==
  ASSUME LimiterInv, NEW c \in Call, Check(c)
  PROVE  \E k \in Address, now \in Nat :
           /\ now <= clock /\ clock <= now + Slack
           /\ tokens' = [tokens EXCEPT ![k] = TokensLeft(k, now)]
           /\ refilled' = [refilled EXCEPT ![k] = now]
           /\ Sweep(k, now)
           /\ answered' = <<k, Enough(k, now)>>
           /\ clock' = clock
           /\ from' = [from EXCEPT ![c] = NoAddress] /\ stamp' = [stamp EXCEPT ![c] = 0]
<1>1. /\ from[c] \in Address /\ stamp[c] \in Nat
      /\ stamp[c] <= clock /\ clock <= stamp[c] + Slack
  BY DEF LimiterInv, LimiterType, ClocksRead, Check
<1> QED BY <1>1 DEF Check

LEMMA CheckInv ==
  ASSUME LimiterInv, NEW c \in Call, Check(c)
  PROVE  LimiterInv'
<1>1. PICK k \in Address, now \in Nat :
           /\ now <= clock /\ clock <= now + Slack
           /\ tokens' = [tokens EXCEPT ![k] = TokensLeft(k, now)]
           /\ refilled' = [refilled EXCEPT ![k] = now]
           /\ Sweep(k, now)
           /\ answered' = <<k, Enough(k, now)>>
           /\ clock' = clock
           /\ from' = [from EXCEPT ![c] = NoAddress] /\ stamp' = [stamp EXCEPT ![c] = 0]
  BY CheckEffect
<1>2. TokensLeft(k, now) \in 0 .. Capacity
  BY ProjectedType DEF LimiterInv
<1>3. held' \in SUBSET Address /\ lastSweep' \in Nat /\ lastSweep' <= clock
  BY <1>1 DEF Sweep, LimiterInv, LimiterType, ClocksRead
<1>4. LimiterType'
  BY <1>1, <1>2, <1>3 DEF LimiterInv, LimiterType
<1>5. ClocksRead'
  BY <1>1, <1>3 DEF LimiterInv, LimiterType, ClocksRead
<1>6. SweptOften'
  <2> SUFFICES ASSUME NEW h \in held'
               PROVE  /\ refilled'[h] + Capacity > lastSweep'
                      /\ refilled'[h] < lastSweep' + SweepInterval
    BY DEF SweptOften
  <2> USE LimiterAssumption DEF LimiterInv, LimiterType
  <2>1. CASE SweepDue(now)
    <3>1. lastSweep' = now /\ ~Idle(h, now) /\ h \in held \cup {k}
      BY <1>1, <2>1 DEF Sweep
    <3>2. refilled'[h] \in Nat /\ tokens'[h] \in Nat
      BY <1>4, <3>1
    <3>3. refilled'[h] + Capacity > now
      BY <3>1, <3>2, <1>1 DEF Idle, Since
    <3>4. refilled'[h] < now + SweepInterval
      BY <1>1, <2>1, <3>1 DEF SweptOften, SweepDue, Since
    <3> QED BY <3>1, <3>3, <3>4
  <2>2. CASE ~SweepDue(now)
    <3>1. UNCHANGED lastSweep /\ h \in held \cup {k}
      BY <1>1, <2>2 DEF Sweep
    <3>2. CASE h = k
      BY <1>1, <2>2, <3>1, <3>2 DEF SweepDue, Since, ClocksRead
    <3>3. CASE h # k
      BY <1>1, <3>1, <3>3 DEF SweptOften
    <3> QED BY <3>2, <3>3
  <2> QED BY <2>1, <2>2
<1> QED BY <1>4, <1>5, <1>6 DEF LimiterInv

LEMMA LimiterStepInv ==
  ASSUME LimiterInv, [LimiterNext]_limiterVars
  PROVE  LimiterInv'
<1> USE LimiterAssumption
<1>1. CASE \E c \in Call, k \in Address : Arrive(c, k)
  BY <1>1 DEF Arrive, bucketVars, LimiterInv, LimiterType, ClocksRead, SweptOften
<1>2. CASE \E c \in Call : Check(c)
  BY <1>2, CheckInv
<1>3. CASE LimiterTick
  BY <1>3 DEF LimiterTick, bucketVars, callVars, LimiterInv, LimiterType, ClocksRead, SweptOften
<1>4. CASE UNCHANGED limiterVars
  BY <1>4 DEF limiterVars, bucketVars, callVars, LimiterInv, LimiterType, ClocksRead, SweptOften
<1> QED BY <1>1, <1>2, <1>3, <1>4 DEF LimiterNext

LEMMA LimiterAlways == LimiterSpec => []LimiterInv
BY LimiterInitInv, LimiterStepInv, PTL DEF LimiterSpec

(* Reading an older clock costs at most the ticks it is late by. *)
LEMMA ProjectedLate ==
  ASSUME LimiterInv, NEW k \in Address, NEW now \in Nat, now <= clock
  PROVE  /\ ProjectedTokens(k, now) <= ProjectedTokens(k, clock)
         /\ ProjectedTokens(k, clock) <= ProjectedTokens(k, now) + (clock - now)
BY LimiterAssumption
   DEF LimiterInv, LimiterType, ClocksRead, ProjectedTokens, AtMostFull, Since

(* The bucket that was asked, kept or swept. *)
LEMMA AskedBucket ==
  ASSUME LimiterInv, NEW k \in Address, NEW now \in Nat, now <= clock, clock' = clock,
         tokens' = [tokens EXCEPT ![k] = TokensLeft(k, now)],
         refilled' = [refilled EXCEPT ![k] = now], Sweep(k, now)
  PROVE  ProjectedTokens(k, clock)' = Promise!Fill(TokensLeft(k, now) + (clock - now))
<1>1. TokensLeft(k, now) \in 0 .. Capacity
  BY ProjectedType DEF LimiterInv
<1>2. tokens'[k] = TokensLeft(k, now) /\ refilled'[k] = now
  BY DEF LimiterInv, LimiterType
<1>3. CASE k \in held'
  BY <1>1, <1>2, <1>3, LimiterAssumption
     DEF ProjectedTokens, AtMostFull, Since, Promise!Fill, LimiterInv, LimiterType
<1>4. CASE k \notin held'
  <2>1. TokensLeft(k, now) >= Capacity
    BY <1>1, <1>2, <1>4, LimiterAssumption DEF Sweep, Idle, Since
  <2> QED BY <1>1, <1>4, <2>1, LimiterAssumption
          DEF ProjectedTokens, Promise!Fill, LimiterInv, LimiterType
<1> QED BY <1>3, <1>4

(* The buckets of other addresses: a sweep drops only what is full. *)
LEMMA OtherBuckets ==
  ASSUME LimiterInv, NEW k \in Address, NEW now \in Nat, now <= clock, clock' = clock,
         tokens' = [tokens EXCEPT ![k] = TokensLeft(k, now)],
         refilled' = [refilled EXCEPT ![k] = now], Sweep(k, now),
         NEW h \in Address, h # k
  PROVE  ProjectedTokens(h, clock)' = ProjectedTokens(h, clock)
<1>1. tokens'[h] = tokens[h] /\ refilled'[h] = refilled[h]
  BY DEF LimiterInv, LimiterType
<1>2. CASE h \in held <=> h \in held'
  BY <1>1, <1>2 DEF ProjectedTokens
<1>3. CASE h \in held /\ h \notin held'
  <2>1. tokens[h] + Since(now, refilled[h]) >= Capacity
    BY <1>1, <1>3 DEF Sweep, Idle
  <2> QED BY <1>3, <2>1, LimiterAssumption
          DEF ProjectedTokens, AtMostFull, Since, LimiterInv, LimiterType, ClocksRead
<1>4. CASE h \notin held /\ h \in held'
  BY <1>4 DEF Sweep
<1> QED BY <1>2, <1>3, <1>4

LEMMA AvailableAt ==
  ASSUME NEW k \in Address
  PROVE  Available[k] = ProjectedTokens(k, clock) /\ Available'[k] = ProjectedTokens(k, clock)'
BY DEF Available

LEMMA CheckKeepsPromise ==
  ASSUME LimiterInv, NEW c \in Call, Check(c)
  PROVE  Promise!Next
<1>1. PICK k \in Address, now \in Nat :
           /\ now <= clock /\ clock <= now + Slack
           /\ tokens' = [tokens EXCEPT ![k] = TokensLeft(k, now)]
           /\ refilled' = [refilled EXCEPT ![k] = now]
           /\ Sweep(k, now)
           /\ answered' = <<k, Enough(k, now)>>
           /\ clock' = clock
           /\ from' = [from EXCEPT ![c] = NoAddress] /\ stamp' = [stamp EXCEPT ![c] = 0]
  BY CheckEffect
<1>2. /\ ProjectedTokens(k, now) \in 0 .. Capacity /\ Available[k] \in 0 .. Capacity
      /\ clock \in Nat /\ Slack \in Nat /\ Cost \in Nat
  BY ProjectedType, AvailableAt, LimiterAssumption DEF LimiterInv, LimiterType
<1>3. /\ ProjectedTokens(k, now) <= Available[k]
      /\ Available[k] <= ProjectedTokens(k, now) + (clock - now)
  BY <1>1, ProjectedLate, AvailableAt
<1> DEFINE credit == ProjectedTokens(k, now) + (clock - now) - Available[k]
<1>4. credit \in 0 .. Slack
  BY <1>1, <1>2, <1>3
<1>5. Available'[k] = Promise!Fill(TokensLeft(k, now) + (clock - now))
  BY <1>1, AskedBucket, AvailableAt
<1>6. Available' = [Available EXCEPT ![k] = Promise!Fill(TokensLeft(k, now) + (clock - now))]
  BY <1>1, <1>5, OtherBuckets DEF Available
<1>7. CASE Enough(k, now)
  <2>1. TokensLeft(k, now) + (clock - now) = Available[k] - Cost + credit
    BY <1>2, <1>7, <1>1 DEF TokensLeft
  <2>2. Available[k] >= Cost
    BY <1>2, <1>3, <1>7 DEF Enough
  <2>3. answered' = <<k, TRUE>>
    BY <1>1, <1>7, Zenon
  <2>4. Promise!Allow(k, credit)
    BY <1>6, <2>1, <2>2, <2>3 DEF Promise!Allow
  <2> QED BY <1>4, <2>4 DEF Promise!Next
<1>8. CASE ~Enough(k, now)
  <2>1. TokensLeft(k, now) + (clock - now) = Available[k] + credit
    BY <1>2, <1>8, <1>1 DEF TokensLeft
  <2>2. Available[k] < Cost + Slack
    BY <1>1, <1>2, <1>3, <1>8 DEF Enough
  <2>3. answered' = <<k, FALSE>>
    <3>1. Enough(k, now) = FALSE
      BY <1>2, <1>8 DEF Enough
    <3> QED BY <1>1, <3>1
  <2>4. Promise!Refuse(k, credit)
    BY <1>6, <2>1, <2>2, <2>3 DEF Promise!Refuse
  <2> QED BY <1>4, <2>4 DEF Promise!Next
<1> QED BY <1>7, <1>8

LEMMA TickKeepsPromise ==
  ASSUME LimiterInv, LimiterTick
  PROVE  Promise!Tick
<1>1. ASSUME NEW k \in Address
      PROVE  ProjectedTokens(k, clock)' = Promise!Fill(ProjectedTokens(k, clock) + 1)
  BY LimiterAssumption
     DEF LimiterTick, bucketVars, LimiterInv, LimiterType, ClocksRead, ProjectedTokens, AtMostFull,
         Since, Promise!Fill
<1> QED BY <1>1 DEF Available, LimiterTick, Promise!Tick

(***************************************************************************)
(* check implements the bucket it stands for: an address is judged by a    *)
(* bucket of Capacity units that is never forgotten, although the map      *)
(* forgets those that are full and a request may bring a clock older than  *)
(* the bucket's last refill.                                               *)
(***************************************************************************)
THEOREM LimiterKeepsPromise == LimiterSpec => KeepsPromise
<1>1. LimiterInit => Promise!Init
  BY DEF LimiterInit, Promise!Init, Available, ProjectedTokens
<1>2. LimiterInv /\ [LimiterNext]_limiterVars => [Promise!Next]_<<Available, answered>>
  <2> SUFFICES ASSUME LimiterInv, [LimiterNext]_limiterVars
               PROVE  Promise!Next \/ UNCHANGED <<Available, answered>>
    OBVIOUS
  <2>1. CASE \E c \in Call, k \in Address : Arrive(c, k)
    BY <2>1 DEF Arrive, bucketVars, Available, ProjectedTokens
  <2>2. CASE \E c \in Call : Check(c)
    BY <2>2, CheckKeepsPromise
  <2>3. CASE LimiterTick
    BY <2>3, TickKeepsPromise DEF Promise!Next
  <2>4. CASE UNCHANGED limiterVars
    BY <2>4 DEF limiterVars, bucketVars, Available, ProjectedTokens
  <2> QED BY <2>1, <2>2, <2>3, <2>4 DEF LimiterNext
<1> QED BY <1>1, <1>2, LimiterAlways, PTL DEF LimiterSpec, KeepsPromise, Promise!Spec

(***************************************************************************)
(* The map of buckets is bounded by recent traffic: a bucket that is still *)
(* there was used within SWEEP_INTERVAL and a full refill of the last use  *)
(* of any other, for every capacity, interval and slack below the capacity.*)
(***************************************************************************)
THEOREM IdleBucketsAreDropped == LimiterSpec => []IdleBucketsGo
<1>1. LimiterInv => IdleBucketsGo
  BY LimiterAssumption DEF LimiterInv, LimiterType, SweptOften, IdleBucketsGo
<1> QED BY <1>1, LimiterAlways, PTL

-----------------------------------------------------------------------------
(***************************************************************************)
(* Presence.                                                               *)
(***************************************************************************)
PresenceType ==
  /\ up \in SUBSET Instance /\ down \in [Instance -> Nat]
  /\ inNote \in SUBSET Connection /\ recorded \in SUBSET Connection
  /\ age \in [Connection -> Nat \cup {Absent}]
  /\ due \in [Instance -> Int] /\ retaining \in [Instance -> Nat \cup {Absent}]
  /\ retained \in SUBSET Instance /\ sweeping \in SUBSET Instance
  /\ lostBeats \in [Instance -> 0 .. MaxMissed] /\ lostSweeps \in [Instance -> 0 .. MaxMissed]

(* Connections are open on instances that run, and those have not been down. *)
ConnectionsUp ==
  /\ recorded \subseteq inNote
  /\ \A c \in inNote : Home[c] \in up
  /\ \A i \in up : down[i] = 0

(* A loop is late by no more than its one retention pass since the heartbeat. *)
LoopsKeepUp ==
  \A i \in up :
     /\ due[i] <= PresenceTick
     /\ retaining[i] = Absent /\ i \notin retained => due[i] >= 0
     /\ retaining[i] = Absent => due[i] >= - MaxRetention
     /\ retaining[i] # Absent =>
          /\ i \in retained /\ i \notin sweeping
          /\ retaining[i] <= MaxRetention /\ due[i] >= - retaining[i]
     /\ i \in sweeping => due[i] >= PresenceTick - MaxRetention

(* n ticks of the maintenance loop. *)
Ticks(n) == PresenceTick * n

(* A row's age and the time to the next heartbeat add up to the heartbeats missed. *)
RowsTouched ==
  \A c \in recorded :
     age[c] # Absent /\ age[c] + due[Home[c]] <= Ticks(1 + lostBeats[Home[c]])

(* A row has not been touched since its instance went down. *)
RowsAge ==
  \A c \in Connection : age[c] \in 0 .. PresenceTtl + MaxSkew => down[Home[c]] <= age[c]

(* What a stale row has outlived is sweeps that failed. *)
GhostsSwept ==
  \A c \in Connection, i \in up :
     age[c] # Absent =>
       down[Home[c]] + due[i]
         <= PresenceTtl + MaxSkew + Ticks(IF i \in sweeping THEN 2 + lostSweeps[i] ELSE 1 + lostSweeps[i])

PresenceInv ==
  PresenceType /\ ConnectionsUp /\ LoopsKeepUp /\ RowsTouched /\ RowsAge /\ GhostsSwept

LEMMA TicksOf ==
  ASSUME NEW n \in Nat
  PROVE  /\ Ticks(1 + n) \in Nat /\ PresenceTick <= Ticks(1 + n)
         /\ Ticks(2 + n) = Ticks(1 + n) + PresenceTick
         /\ n <= MaxMissed => Ticks(1 + n) <= Ticks(1 + MaxMissed)
<1> USE PresenceAssumption
<1>1. ASSUME NEW k \in Nat PROVE PresenceTick * k \in Nat
  OBVIOUS
<1>2. Ticks(1 + n) = PresenceTick + PresenceTick * n
  BY DEF Ticks
<1>3. Ticks(2 + n) = PresenceTick + PresenceTick + PresenceTick * n
  BY DEF Ticks
<1>4. ASSUME n <= MaxMissed PROVE Ticks(1 + n) <= Ticks(1 + MaxMissed)
  <2>1. PICK e \in Nat : MaxMissed = n + e
    BY <1>4
  <2>2. PresenceTick * (1 + MaxMissed) = PresenceTick * (1 + n) + PresenceTick * e
    BY <2>1
  <2> QED BY <1>1, <2>2 DEF Ticks
<1> QED BY <1>1, <1>2, <1>3, <1>4

LEMMA TicksFit ==
  /\ Ticks(1 + 0) = PresenceTick
  /\ Ticks(1 + MaxMissed) \in Nat
  /\ Ticks(1 + MaxMissed) + MaxRetention + MaxSkew <= PresenceTtl
  /\ GhostTime = PresenceTtl + MaxSkew + Ticks(1 + MaxMissed) + MaxRetention
<1>1. Ticks(1 + MaxMissed) \in Nat
  BY TicksOf, PresenceAssumption
<1> QED BY <1>1, PresenceAssumption DEF Ticks, GhostTime

LEMMA PresenceInitInv ==
  ASSUME PresenceInit
  PROVE  PresenceInv
<1> USE PresenceAssumption DEF PresenceInit
<1>1. PresenceType /\ ConnectionsUp /\ LoopsKeepUp /\ RowsTouched
  BY DEF PresenceType, ConnectionsUp, LoopsKeepUp, RowsTouched, Absent
<1>2. RowsAge /\ GhostsSwept
  BY DEF RowsAge, GhostsSwept, Absent
<1> QED BY <1>1, <1>2 DEF PresenceInv

(* A row that is written anew belongs to an instance that runs. *)
LEMMA UpsertInv ==
  ASSUME PresenceInv, NEW c \in Connection, Home[c] \in up, UpsertPresence(c),
         inNote' = inNote \cup {c}, UNCHANGED <<up, down, loopVars>>
  PROVE  PresenceInv'
<1> USE PresenceAssumption DEF PresenceInv, UpsertPresence, loopVars
<1>1. PresenceType' /\ ConnectionsUp' /\ LoopsKeepUp'
  BY DEF PresenceType, ConnectionsUp, LoopsKeepUp
<1>2. RowsTouched'
  <2> SUFFICES ASSUME NEW e \in recorded'
               PROVE  age'[e] # Absent /\ age'[e] + due[Home[e]] <= Ticks(1 + lostBeats[Home[e]])
    BY DEF RowsTouched, PresenceType
  <2>1. CASE e = c
    <3>1. age'[e] = 0 /\ due[Home[e]] <= PresenceTick /\ due[Home[e]] \in Int
      BY <2>1 DEF PresenceType, LoopsKeepUp
    <3>2. lostBeats[Home[e]] \in Nat
      BY <2>1 DEF PresenceType
    <3> QED BY <3>1, <3>2, TicksOf DEF Absent
  <2>2. CASE e # c
    BY <2>2 DEF RowsTouched, PresenceType
  <2> QED BY <2>1, <2>2
<1>3. RowsAge'
  BY DEF RowsAge, PresenceType, ConnectionsUp
<1>4. GhostsSwept'
  <2> SUFFICES ASSUME NEW e \in Connection, NEW i \in up, age'[e] # Absent
               PROVE  down[Home[e]] + due[i] <= PresenceTtl + MaxSkew
                        + Ticks(IF i \in sweeping THEN 2 + lostSweeps[i] ELSE 1 + lostSweeps[i])
    BY DEF GhostsSwept
  <2>1. CASE e = c
    <3>1. down[Home[e]] = 0 /\ due[i] <= PresenceTick /\ due[i] \in Int
      BY <2>1 DEF PresenceType, ConnectionsUp, LoopsKeepUp
    <3>2. lostSweeps[i] \in Nat
      BY DEF PresenceType
    <3> QED BY <3>1, <3>2, TicksOf
  <2>2. CASE e # c
    BY <2>2 DEF GhostsSwept, PresenceType
  <2> QED BY <2>1, <2>2
<1> QED BY <1>1, <1>2, <1>3, <1>4

(* A connection that comes without a row, or goes with or without it. *)
LEMMA ConnectionInv ==
  ASSUME PresenceInv, NEW c \in Connection, Join(c) \/ MoveCursor(c) \/ LeaveNote(c)
  PROVE  PresenceInv'
<1>1. CASE Join(c) /\ UpsertPresence(c)
  BY <1>1, UpsertInv DEF Join
<1>2. CASE Join(c) /\ ~UpsertPresence(c)
  <2>1. UNCHANGED <<up, down, loopVars, age, recorded>> /\ inNote' = inNote \cup {c} /\ Home[c] \in up
    BY <1>2 DEF Join
  <2> QED BY <2>1 DEF loopVars, PresenceInv, PresenceType, ConnectionsUp, LoopsKeepUp, RowsTouched,
                      RowsAge, GhostsSwept
<1>3. CASE MoveCursor(c)
  <2>1. Home[c] \in up /\ inNote' = inNote \cup {c}
    BY <1>3 DEF MoveCursor, PresenceInv, ConnectionsUp
  <2> QED BY <1>3, <2>1, UpsertInv DEF MoveCursor
<1>4. CASE LeaveNote(c)
  <2> USE <1>4 DEF LeaveNote, loopVars, PresenceInv
  <2>1. PresenceType' /\ ConnectionsUp' /\ LoopsKeepUp'
    BY DEF PresenceType, ConnectionsUp, LoopsKeepUp
  <2>2. \A e \in Connection : age'[e] # Absent => age'[e] = age[e]
    BY DEF PresenceType
  <2>3. RowsTouched'
    BY DEF RowsTouched, PresenceType
  <2>4. RowsAge' /\ GhostsSwept'
    BY <2>2 DEF RowsAge, GhostsSwept, Absent
  <2> QED BY <2>1, <2>3, <2>4
<1> QED BY <1>1, <1>2, <1>3, <1>4

LEMMA HeartbeatInv ==
  ASSUME PresenceInv, NEW i \in Instance, Heartbeat(i)
  PROVE  PresenceInv'
<1> USE PresenceAssumption DEF PresenceInv
<1>1. /\ i \in up /\ i \notin sweeping /\ retaining[i] = Absent /\ due[i] <= 0
      /\ due' = [due EXCEPT ![i] = due[i] + PresenceTick] /\ sweeping' = sweeping \cup {i}
      /\ UNCHANGED <<up, down, inNote, recorded, retaining, lostSweeps>>
  BY DEF Heartbeat, Awake, connVars
<1>2. \/ /\ age' = [c \in Connection |-> IF age[c] # Absent /\ Home[c] = i THEN 0 ELSE age[c]]
         /\ lostBeats' = [lostBeats EXCEPT ![i] = 0] /\ retained' = retained \ {i}
      \/ /\ lostBeats[i] < MaxMissed /\ lostBeats' = [lostBeats EXCEPT ![i] = lostBeats[i] + 1]
         /\ UNCHANGED <<age, retained>>
  BY DEF Heartbeat, OwnRows
<1>3. PresenceType' /\ ConnectionsUp'
  <2>1. age' \in [Connection -> Nat \cup {Absent}] /\ retained' \in SUBSET Instance
        /\ lostBeats' \in [Instance -> 0 .. MaxMissed]
    BY <1>2 DEF PresenceType
  <2>2. due' \in [Instance -> Int]
    BY <1>1 DEF PresenceType
  <2>3. PresenceType'
    BY <1>1, <2>1, <2>2 DEF PresenceType
  <2> QED BY <1>1, <2>3 DEF ConnectionsUp
<1>4. LoopsKeepUp'
  BY <1>1, <1>2 DEF PresenceType, LoopsKeepUp, Absent
<1>5. RowsTouched'
  <2> SUFFICES ASSUME NEW c \in recorded
               PROVE  age'[c] # Absent /\ age'[c] + due'[Home[c]] <= Ticks(1 + lostBeats'[Home[c]])
    BY <1>1 DEF RowsTouched
  <2>1. age[c] # Absent /\ age[c] + due[Home[c]] <= Ticks(1 + lostBeats[Home[c]]) /\ c \in Connection
    BY DEF RowsTouched, PresenceType
  <2>2. CASE Home[c] # i
    BY <1>1, <1>2, <2>1, <2>2 DEF PresenceType
  <2>3. CASE Home[c] = i /\ lostBeats[i] < MaxMissed
             /\ lostBeats' = [lostBeats EXCEPT ![i] = lostBeats[i] + 1] /\ UNCHANGED age
    <3>1. lostBeats[i] \in Nat /\ 1 + lostBeats'[i] = 2 + lostBeats[i]
      BY <2>3 DEF PresenceType
    <3> QED BY <1>1, <2>1, <2>3, <3>1, TicksOf DEF PresenceType, Absent
  <2>4. CASE Home[c] = i /\ age'[c] = 0 /\ lostBeats' = [lostBeats EXCEPT ![i] = 0]
    BY <1>1, <2>4, TicksFit DEF PresenceType, Absent
  <2> QED BY <1>2, <2>1, <2>2, <2>3, <2>4 DEF PresenceType
<1>6. RowsAge'
  BY <1>1, <1>2 DEF RowsAge, PresenceType, ConnectionsUp
<1>7. GhostsSwept'
  <2> SUFFICES ASSUME NEW c \in Connection, NEW j \in up, age'[c] # Absent
               PROVE  down[Home[c]] + due'[j] <= PresenceTtl + MaxSkew
                        + Ticks(IF j \in sweeping' THEN 2 + lostSweeps[j] ELSE 1 + lostSweeps[j])
    BY <1>1 DEF GhostsSwept
  <2>1. down[Home[c]] + due[j] <= PresenceTtl + MaxSkew
                        + Ticks(IF j \in sweeping THEN 2 + lostSweeps[j] ELSE 1 + lostSweeps[j])
    BY <1>2 DEF GhostsSwept, PresenceType
  <2>2. CASE j # i
    BY <1>1, <2>1, <2>2 DEF PresenceType
  <2>3. CASE j = i
    <3>1. lostSweeps[i] \in Nat
      BY DEF PresenceType
    <3> QED BY <1>1, <2>1, <2>3, <3>1, TicksOf DEF PresenceType
  <2> QED BY <2>2, <2>3
<1> QED BY <1>3, <1>4, <1>5, <1>6, <1>7

LEMMA SweepInv ==
  ASSUME PresenceInv, NEW i \in Instance, SweepPresence(i)
  PROVE  PresenceInv'
<1> USE PresenceAssumption DEF PresenceInv
<1>1. /\ i \in up /\ i \in sweeping /\ sweeping' = sweeping \ {i}
      /\ UNCHANGED <<up, down, inNote, recorded, due, retaining, retained, lostBeats>>
  BY DEF SweepPresence, connVars
<1>2. \/ /\ \E skew \in -MaxSkew .. MaxSkew :
              age' = [c \in Connection |-> IF age[c] > PresenceTtl - skew THEN Absent ELSE age[c]]
         /\ lostSweeps' = [lostSweeps EXCEPT ![i] = 0]
      \/ /\ lostSweeps[i] < MaxMissed /\ lostSweeps' = [lostSweeps EXCEPT ![i] = lostSweeps[i] + 1]
         /\ UNCHANGED age
  BY DEF SweepPresence, Stale
<1>3. PresenceType' /\ ConnectionsUp'
  <2>1. age' \in [Connection -> Nat \cup {Absent}] /\ lostSweeps' \in [Instance -> 0 .. MaxMissed]
    BY <1>2 DEF PresenceType
  <2> QED BY <1>1, <2>1 DEF PresenceType, ConnectionsUp
<1>4. LoopsKeepUp'
  BY <1>1 DEF LoopsKeepUp
<1>5. RowsTouched'
  <2> SUFFICES ASSUME NEW c \in recorded
               PROVE  age'[c] # Absent /\ age'[c] + due[Home[c]] <= Ticks(1 + lostBeats[Home[c]])
    BY <1>1 DEF RowsTouched
  <2>1. /\ c \in Connection /\ Home[c] \in up
        /\ age[c] # Absent /\ age[c] + due[Home[c]] <= Ticks(1 + lostBeats[Home[c]])
    BY DEF RowsTouched, PresenceType, ConnectionsUp
  <2>2. due[Home[c]] >= - MaxRetention /\ due[Home[c]] \in Int
    BY <2>1 DEF LoopsKeepUp, PresenceType
  <2>3. lostBeats[Home[c]] \in Nat /\ lostBeats[Home[c]] <= MaxMissed
    BY <2>1 DEF PresenceType
  <2>4. age[c] <= PresenceTtl - MaxSkew
    BY <2>1, <2>2, <2>3, TicksOf, TicksFit DEF PresenceType
  <2> QED BY <1>2, <2>1, <2>4 DEF PresenceType
<1>6. RowsAge'
  BY <1>1, <1>2 DEF RowsAge, PresenceType, Absent
<1>7. GhostsSwept'
  <2> SUFFICES ASSUME NEW c \in Connection, NEW j \in up, age'[c] # Absent
               PROVE  down[Home[c]] + due[j] <= PresenceTtl + MaxSkew
                        + Ticks(IF j \in sweeping' THEN 2 + lostSweeps'[j] ELSE 1 + lostSweeps'[j])
    BY <1>1 DEF GhostsSwept
  <2>1. /\ age'[c] = age[c]
        /\ down[Home[c]] + due[j] <= PresenceTtl + MaxSkew
                        + Ticks(IF j \in sweeping THEN 2 + lostSweeps[j] ELSE 1 + lostSweeps[j])
    BY <1>2 DEF GhostsSwept, PresenceType
  <2>2. CASE j # i
    BY <1>1, <1>2, <2>1, <2>2 DEF PresenceType
  <2>3. CASE j = i /\ lostSweeps'[i] = lostSweeps[i] + 1
    <3>1. 2 + lostSweeps[i] = 1 + lostSweeps'[i]
      BY <2>3 DEF PresenceType
    <3> QED BY <1>1, <2>1, <2>3, <3>1
  <2>4. CASE j = i /\ lostSweeps'[i] = 0 /\ age[c] <= PresenceTtl + MaxSkew
    <3>1. down[Home[c]] <= PresenceTtl + MaxSkew /\ down[Home[c]] \in Nat
      BY <2>1, <2>4 DEF RowsAge, PresenceType, Absent
    <3>2. due[i] <= PresenceTick /\ due[i] \in Int
      BY <1>1 DEF LoopsKeepUp, PresenceType
    <3>3. Ticks(1 + lostSweeps'[i]) = PresenceTick
      BY <2>4, TicksFit
    <3> QED BY <1>1, <2>4, <3>1, <3>2, <3>3
  <2> QED BY <1>2, <2>1, <2>2, <2>3, <2>4 DEF PresenceType, Absent
<1> QED BY <1>3, <1>4, <1>5, <1>6, <1>7

LEMMA RetentionInv ==
  ASSUME PresenceInv, NEW i \in Instance, BeginRetention(i) \/ EndRetention(i)
  PROVE  PresenceInv'
<1> USE PresenceAssumption DEF PresenceInv, connVars
<1>1. UNCHANGED <<up, down, inNote, recorded, age, due, sweeping, lostBeats, lostSweeps>>
  BY DEF BeginRetention, EndRetention
<1>2. PresenceType' /\ ConnectionsUp' /\ RowsTouched' /\ RowsAge' /\ GhostsSwept'
  <2>1. retaining' \in [Instance -> Nat \cup {Absent}] /\ retained' \in SUBSET Instance
    BY DEF BeginRetention, EndRetention, PresenceType
  <2> QED BY <1>1, <2>1 DEF PresenceType, ConnectionsUp, RowsTouched, RowsAge, GhostsSwept
<1>3. LoopsKeepUp'
  BY <1>1 DEF BeginRetention, EndRetention, Awake, PresenceType, LoopsKeepUp, Absent
<1> QED BY <1>2, <1>3

LEMMA CrashInv ==
  ASSUME PresenceInv, NEW i \in Instance, Crash(i)
  PROVE  PresenceInv'
<1> USE PresenceAssumption DEF PresenceInv, Crash
<1>1. PresenceType'
  BY DEF PresenceType
<1>2. ConnectionsUp' /\ LoopsKeepUp'
  BY DEF PresenceType, ConnectionsUp, LoopsKeepUp
<1>3. RowsTouched' /\ RowsAge'
  BY DEF PresenceType, RowsTouched, RowsAge
<1>4. GhostsSwept'
  BY DEF PresenceType, GhostsSwept
<1> QED BY <1>1, <1>2, <1>3, <1>4

LEMMA PassTimeInv ==
  ASSUME PresenceInv, PassTime
  PROVE  PresenceInv'
<1> USE PresenceAssumption DEF PresenceInv, connVars
<1>1. /\ \A i \in up : \/ retaining[i] \in 0 .. MaxRetention - 1
                       \/ retaining[i] = Absent /\ i \notin sweeping /\ due[i] > 0
      /\ \A c \in Connection : age'[c] = IF age[c] \in 0 .. PresenceTtl + MaxSkew THEN age[c] + 1 ELSE age[c]
      /\ \A i \in up : due'[i] = due[i] - 1 /\ down'[i] = down[i]
      /\ \A i \in Instance : down'[i] \in {down[i], down[i] + 1}
      /\ \A i \in Instance : retaining'[i] = IF retaining[i] # Absent THEN retaining[i] + 1 ELSE Absent
      /\ UNCHANGED <<up, inNote, recorded, retained, sweeping, lostBeats, lostSweeps>>
  BY DEF PassTime, Awake, PresenceType
<1>2. PresenceType' /\ ConnectionsUp'
  <2>1. age' \in [Connection -> Nat \cup {Absent}] /\ due' \in [Instance -> Int]
        /\ retaining' \in [Instance -> Nat \cup {Absent}] /\ down' \in [Instance -> Nat]
    BY DEF PassTime, PresenceType
  <2> QED BY <1>1, <2>1 DEF PresenceType, ConnectionsUp
<1>3. LoopsKeepUp'
  BY <1>1 DEF PresenceType, LoopsKeepUp, Absent
<1>4. RowsTouched'
  <2> SUFFICES ASSUME NEW c \in recorded
               PROVE  age'[c] # Absent /\ age'[c] + due'[Home[c]] <= Ticks(1 + lostBeats[Home[c]])
    BY <1>1 DEF RowsTouched
  <2>1. /\ c \in Connection /\ Home[c] \in up /\ age[c] \in Nat /\ due[Home[c]] \in Int
        /\ age[c] + due[Home[c]] <= Ticks(1 + lostBeats[Home[c]])
    BY DEF RowsTouched, PresenceType, ConnectionsUp
  <2>2. lostBeats[Home[c]] \in Nat
    BY <2>1 DEF PresenceType
  <2>3. age'[c] \in {age[c], age[c] + 1} /\ due'[Home[c]] = due[Home[c]] - 1
    BY <1>1, <2>1
  <2> QED BY <2>1, <2>2, <2>3, TicksOf DEF Absent
<1>5. RowsAge'
  BY <1>1 DEF PresenceType, RowsAge, Absent
<1>6. GhostsSwept'
  <2> SUFFICES ASSUME NEW c \in Connection, NEW j \in up, age'[c] # Absent
               PROVE  down'[Home[c]] + due'[j] <= PresenceTtl + MaxSkew
                        + Ticks(IF j \in sweeping THEN 2 + lostSweeps[j] ELSE 1 + lostSweeps[j])
    BY <1>1 DEF GhostsSwept
  <2>1. down[Home[c]] + due[j] <= PresenceTtl + MaxSkew
                        + Ticks(IF j \in sweeping THEN 2 + lostSweeps[j] ELSE 1 + lostSweeps[j])
    BY <1>1 DEF GhostsSwept, PresenceType, Absent
  <2>2. /\ down[Home[c]] \in Nat /\ due[j] \in Int /\ due'[j] = due[j] - 1
        /\ down'[Home[c]] \in {down[Home[c]], down[Home[c]] + 1}
    BY <1>1 DEF PresenceType
  <2>3. lostSweeps[j] \in Nat
    BY DEF PresenceType
  <2> QED BY <2>1, <2>2, <2>3, TicksOf
<1> QED BY <1>2, <1>3, <1>4, <1>5, <1>6

LEMMA PresenceStepInv ==
  ASSUME PresenceInv, [PresenceNext]_presenceVars
  PROVE  PresenceInv'
<1>1. CASE PresenceNext
  BY <1>1, ConnectionInv, HeartbeatInv, SweepInv, RetentionInv, CrashInv, PassTimeInv
     DEF PresenceNext
<1>2. CASE UNCHANGED presenceVars
  BY <1>2 DEF presenceVars, connVars, loopVars, PresenceInv, PresenceType, ConnectionsUp, LoopsKeepUp,
              RowsTouched, RowsAge, GhostsSwept
<1> QED BY <1>1, <1>2

LEMMA PresenceAlways == PresenceSpec => []PresenceInv
BY PresenceInitInv, PresenceStepInv, PTL DEF PresenceSpec

(***************************************************************************)
(* A user who is in a note is not swept, for any number of instances and   *)
(* connections and any times that satisfy PresenceAssumption: the age of   *)
(* a row and the time to its next heartbeat are paid for by ticks.         *)
(***************************************************************************)
THEOREM PresentStayListed == PresenceSpec => []JoinedArePresent
<1>1. PresenceInv => JoinedArePresent
  BY DEF PresenceInv, RowsTouched, JoinedArePresent
<1> QED BY <1>1, PresenceAlways, PTL

(***************************************************************************)
(* The rows of a crashed instance are gone after GhostTime: TTL, and the   *)
(* ticks of one instance that is left, the failed ones and the one late    *)
(* by a retention pass included.                                           *)
(***************************************************************************)
THEOREM GhostsGo == PresenceSpec => []GhostsAreBrief
<1>1. PresenceInv => GhostsAreBrief
  <2> SUFFICES ASSUME PresenceInv, NEW c \in Connection, age[c] # Absent, NEW i \in up
               PROVE  down[Home[c]] <= GhostTime
    BY DEF GhostsAreBrief
  <2> USE PresenceAssumption DEF PresenceInv
  <2>1. /\ down[Home[c]] \in Nat /\ due[i] \in Int /\ lostSweeps[i] \in 0 .. MaxMissed
        /\ due[i] >= - MaxRetention
        /\ i \in sweeping => due[i] >= PresenceTick - MaxRetention
    BY DEF PresenceType, LoopsKeepUp
  <2>2. CASE i \in sweeping
    <3>1. down[Home[c]] + due[i] <= PresenceTtl + MaxSkew + Ticks(2 + lostSweeps[i])
      BY <2>2 DEF GhostsSwept
    <3> QED BY <2>1, <2>2, <3>1, TicksOf, TicksFit
  <2>3. CASE i \notin sweeping
    <3>1. down[Home[c]] + due[i] <= PresenceTtl + MaxSkew + Ticks(1 + lostSweeps[i])
      BY <2>3 DEF GhostsSwept
    <3> QED BY <2>1, <3>1, TicksOf, TicksFit
  <2> QED BY <2>2, <2>3
<1> QED BY <1>1, PresenceAlways, PTL

-----------------------------------------------------------------------------
(***************************************************************************)
(* The re-encryption pass.                                                 *)
(***************************************************************************)
ReencryptType ==
  /\ text \in [Row -> Text \cup {NoText}] /\ read \in [Row -> Text \cup {NoText}]
  /\ written \in [Row -> Text \cup {NoText}] /\ staged \in SUBSET Row

(* A row the open transaction has updated is locked with the value it read. *)
StagedAsRead ==
  /\ phase # "update" => staged = {}
  /\ \A r \in staged : text[r] = read[r]

ReencryptInv == ReencryptType /\ StagedAsRead /\ PassClobbersNothing

LEMMA ReencryptInitInv ==
  ASSUME ReencryptInit
  PROVE  ReencryptInv
BY DEF ReencryptInit, ReencryptInv, ReencryptType, StagedAsRead, PassClobbersNothing

LEMMA ReencryptStepInv ==
  ASSUME ReencryptInv, [ReencryptNext]_reencryptVars
  PROVE  ReencryptInv'
<1> USE DEF ReencryptInv, ReencryptType, StagedAsRead, PassClobbersNothing, passVars
<1>1. CASE \E r \in Row, t \in Text, keyed \in BOOLEAN : ServerWrite(r, t, keyed)
  BY <1>1 DEF ServerWrite
<1>2. CASE \E r \in Row : ServerDelete(r)
  BY <1>2 DEF ServerDelete
<1>3. CASE \E r \in Row : UpdateRow(r)
  BY <1>3 DEF UpdateRow, SameValue
<1>4. CASE EndRollout
  BY <1>4 DEF EndRollout
<1>5. CASE StartPass
  BY <1>5 DEF StartPass
<1>6. CASE SelectBatch
  BY <1>6 DEF SelectBatch
<1>7. CASE CommitBatch
  BY <1>7 DEF CommitBatch, NoBatch
<1>8. CASE StopPass
  BY <1>8 DEF StopPass, NoBatch
<1>9. CASE UNCHANGED reencryptVars
  BY <1>9 DEF reencryptVars
<1> QED BY <1>1, <1>2, <1>3, <1>4, <1>5, <1>6, <1>7, <1>8, <1>9 DEF ReencryptNext

(***************************************************************************)
(* The pass never overwrites what a server wrote after the batch was read, *)
(* for any rows, texts and batch size: WHERE column = $3 refuses the rows  *)
(* that changed, and the row lock keeps the others as they were read.      *)
(***************************************************************************)
THEOREM PassKeepsTexts == ReencryptSpec => []PassClobbersNothing
<1>1. ReencryptSpec => []ReencryptInv
  BY ReencryptInitInv, ReencryptStepInv, PTL DEF ReencryptSpec
<1> QED BY <1>1, PTL DEF ReencryptInv

(***************************************************************************)
(* That the pass misses nothing rests on what its keyset scan selects.     *)
(***************************************************************************)
LEMMA RowIdsWellFounded == IsWellFoundedOn({p \in Nat \X Nat : p[1] < p[2]}, Nat)
  BY NatLessThanWellFounded DEF OpToRel

LEMMA LeastRow ==
  ASSUME NEW T, T \subseteq Nat, T # {}
  PROVE  \E x \in T : \A y \in T : x <= y
<1> DEFINE R == {p \in Nat \X Nat : p[1] < p[2]}
<1>1. PICK x \in T : \A y \in T : <<y, x>> \notin R
  <2>1. IsWellFoundedOn(R, Nat)
    BY RowIdsWellFounded
  <2> HIDE DEF R
  <2> QED BY <2>1, WFMin
<1>2. ASSUME NEW y \in T PROVE x <= y
  <2>1. x \in Nat /\ y \in Nat /\ <<y, x>> \notin R
    BY <1>1
  <2>2. ~(y < x)
    BY <2>1
  <2> QED BY <2>1, <2>2
<1> QED BY <1>2

(* The largest row of a batch: the least bound of a set is one of its rows. *)
LEMMA LargestRow ==
  ASSUME NEW T, T \subseteq Row, T # {}
  PROVE  Max(T) \in T /\ \A y \in T : y <= Max(T)
<1> DEFINE bounds == {n \in Nat : \A y \in T : y <= n}
<1>1. T \subseteq Nat /\ Rows \in bounds
  BY ReencryptAssumption DEF Row
<1>2. PICK x \in bounds : \A n \in bounds : x <= n
  BY <1>1, LeastRow
<1>3. x \in T
  <2> SUFFICES ASSUME x \notin T PROVE FALSE
    OBVIOUS
  <2>1. \A y \in T : y \in Nat /\ y >= 1 /\ y <= x /\ y # x
    BY <1>1, <1>2 DEF Row
  <2>2. x \in Nat /\ x # 0
    BY <1>2, <2>1
  <2>3. x - 1 \in bounds
    BY <2>1, <2>2
  <2> QED BY <1>2, <2>2, <2>3
<1>4. \A y \in T : x >= y
  BY <1>1, <1>2
<1>5. Max(T) \in T /\ \A y \in T : Max(T) >= y
  BY <1>3, <1>4 DEF Max
<1> QED BY <1>1, <1>5

(***************************************************************************)
(* ORDER BY id LIMIT n: something is selected when there is a candidate,   *)
(* and whatever is left out has a larger id than everything selected.      *)
(***************************************************************************)
LEMMA SelectedRows ==
  ASSUME plain \subseteq Row
  PROVE  /\ Selected \subseteq Candidates
         /\ Selected = {} => Candidates = {}
         /\ \A u \in Candidates \ Selected : \A r \in Selected : r < u
<1>1. Candidates \subseteq Row /\ Row \subseteq Nat
  <2>1. Candidates \subseteq plain
    BY Zenon DEF Candidates
  <2>2. Row \subseteq Nat
    BY DEF Row
  <2> QED BY <2>1, <2>2
<1>2. Selected = {r \in Candidates : Cardinality(UpTo(r)) <= BatchSize}
  BY DEF Selected
<1>3. ASSUME NEW r \in Candidates PROVE IsFiniteSet(UpTo(r)) /\ Cardinality(UpTo(r)) \in Nat
  <2>1. UpTo(r) \subseteq Candidates
    BY Zenon DEF UpTo
  <2>2. IsFiniteSet(Row)
    BY ReencryptAssumption, FS_Interval DEF Row
  <2>3. IsFiniteSet(UpTo(r))
    BY <1>1, <2>1, <2>2, FS_Subset
  <2> QED BY <2>3, FS_CardinalityType
<1>4. ASSUME Candidates # {} PROVE Selected # {}
  <2>1. PICK m \in Candidates : \A y \in Candidates : m <= y
    BY <1>1, <1>4, LeastRow
  <2>2. \A q \in Candidates : q <= m <=> q = m
    BY <1>1, <2>1
  <2>3. UpTo(m) = {m}
    BY <2>1, <2>2, Zenon DEF UpTo
  <2>4. Cardinality(UpTo(m)) = 1
    BY <2>3, FS_Singleton
  <2> QED BY <1>2, <2>1, <2>4, ReencryptAssumption
<1>5. ASSUME NEW u \in Candidates \ Selected, NEW r \in Selected PROVE r < u
  <2> SUFFICES ASSUME u <= r PROVE FALSE
    BY <1>1, <1>2
  <2>1. r \in Candidates /\ Cardinality(UpTo(r)) <= BatchSize
    BY <1>2
  <2>2. UpTo(u) \subseteq UpTo(r)
    <3>1. \A q \in Candidates : q <= u => q <= r
      BY <1>1, <2>1
    <3> QED BY <3>1, Zenon DEF UpTo
  <2>3. Cardinality(UpTo(u)) <= Cardinality(UpTo(r))
    BY <1>3, <2>1, <2>2, FS_Subset
  <2>4. Cardinality(UpTo(u)) <= BatchSize
    BY <1>3, <2>1, <2>3, ReencryptAssumption
  <2> QED BY <1>2, <2>4
<1> QED BY <1>2, <1>4, <1>5

(***************************************************************************)
(* A pass that began with every server keyed: no plaintext is written any  *)
(* more, so a plaintext row is ahead of the cursor, or in the batch with   *)
(* the text it was read with, or already updated in the open transaction.  *)
(***************************************************************************)
PassType ==
  /\ plain \in SUBSET Row /\ batch \in SUBSET Row
  /\ phase # "update" => batch = {}

NothingMissed ==
  clean =>
    /\ ~rollout
    /\ phase = "scan" => \A r \in plain : r > lastId
    /\ phase = "update" => /\ \A r \in plain : r > lastId \/ r \in batch \/ r \in staged
                           /\ \A r \in plain \cap batch : text[r] = read[r]
    /\ phase = "done" => plain = {}

PassInv == PassType /\ NothingMissed

LEMMA PassInitInv ==
  ASSUME ReencryptInit
  PROVE  PassInv
BY DEF ReencryptInit, PassInv, PassType, NothingMissed

LEMMA PassStepInv ==
  ASSUME ReencryptInv, PassInv, [ReencryptNext]_reencryptVars
  PROVE  PassInv'
<1> USE DEF PassInv, PassType, NothingMissed, ReencryptInv, ReencryptType, StagedAsRead, passVars
<1>1. CASE \E r \in Row, t \in Text, keyed \in BOOLEAN : ServerWrite(r, t, keyed)
  BY <1>1 DEF ServerWrite
<1>2. CASE \E r \in Row : ServerDelete(r)
  BY <1>2 DEF ServerDelete
<1>3. CASE \E r \in Row : UpdateRow(r)
  BY <1>3 DEF UpdateRow, SameValue
<1>4. CASE EndRollout
  BY <1>4 DEF EndRollout
<1>5. CASE StartPass
  <2>1. \A r \in plain : r > 0
    BY DEF Row
  <2> QED BY <1>5, <2>1 DEF StartPass
<1>6. CASE SelectBatch
  <2>1. CASE Selected = {}
    <3>1. Candidates = {}
      BY <2>1, SelectedRows
    <3>2. clean /\ phase = "scan" => plain = {}
      BY <3>1, Zenon DEF Candidates
    <3> QED BY <1>6, <2>1, <3>2 DEF SelectBatch
  <2>2. CASE Selected # {}
    <3>1. /\ phase = "scan" /\ phase' = "update" /\ batch' = Selected
          /\ lastId' = Max(Selected)
          /\ read' = [r \in Row |-> IF r \in Selected THEN text[r] ELSE NoText]
          /\ UNCHANGED <<text, plain, rollout, staged, clean>>
      BY <1>6, <2>2 DEF SelectBatch, AfterBatch
    <3>2. Selected \subseteq Candidates /\ Candidates \subseteq plain /\ Selected \subseteq Row
      BY SelectedRows DEF Candidates
    <3>3. Max(Selected) \in Selected
      BY <2>2, <3>2, LargestRow
    <3>4. \A u \in Candidates \ Selected : u > Max(Selected)
      <4>1. \A u \in Candidates \ Selected : Max(Selected) < u
        BY <3>3, SelectedRows
      <4> QED BY <4>1
    <3>5. clean => plain = Candidates
      BY <3>1 DEF Candidates
    <3> QED BY <3>1, <3>2, <3>4, <3>5
  <2> QED BY <2>1, <2>2
<1>7. CASE CommitBatch
  <2>1. /\ phase = "update" /\ phase' = "scan" /\ batch = {} /\ batch' = {} /\ staged' = {}
        /\ plain' = plain \ staged /\ UNCHANGED <<rollout, lastId, clean>>
    BY <1>7 DEF CommitBatch, NoBatch
  <2> QED BY <2>1
<1>8. CASE StopPass
  BY <1>8 DEF StopPass, NoBatch
<1>9. CASE UNCHANGED reencryptVars
  BY <1>9 DEF reencryptVars
<1> QED BY <1>1, <1>2, <1>3, <1>4, <1>5, <1>6, <1>7, <1>8, <1>9 DEF ReencryptNext

(***************************************************************************)
(* A pass begun with every server keyed that runs to its end leaves no     *)
(* plaintext, for any number of rows and any batch size, while rows are    *)
(* written and deleted between its batches and within them.                *)
(***************************************************************************)
THEOREM PassIsComplete == ReencryptSpec => []PassEncryptsAll
<1>1. ReencryptSpec => [](ReencryptInv /\ PassInv)
  BY ReencryptInitInv, ReencryptStepInv, PassInitInv, PassStepInv, PTL DEF ReencryptSpec
<1>2. PassInv => PassEncryptsAll
  BY DEF PassInv, NothingMissed, PassEncryptsAll
<1> QED BY <1>1, <1>2, PTL

-----------------------------------------------------------------------------
(***************************************************************************)
(* The login lockout.                                                      *)
(***************************************************************************)
LockoutType ==
  /\ wall \in Nat /\ failedCount \in Nat /\ lastFailed \in Nat /\ lockedUntil \in Nat
  /\ stage \in [Attempt -> {"idle", "admitted"}]
  /\ fails \in Seq(Nat)

(***************************************************************************)
(* The row against the history: failed_count counts every failure still in *)
(* the window, last_failed_at is the newest, and a count at the limit has  *)
(* set locked_until.  No row, no failure in the window: prune_login_attempts *)
(* takes only rows older than the lockout.                                 *)
(***************************************************************************)
RowCounts ==
  /\ failedCount = 0 => RecentFailures = {}
  /\ failedCount > 0 => \A k \in 1 .. Len(fails) : fails[k] <= lastFailed
  /\ Cardinality(RecentFailures) <= failedCount
  /\ failedCount >= MaxFailures => lockedUntil = lastFailed + LockoutTime

(* Each attempt past login_locked may still add one failure. *)
Admitted == {a \in Attempt : stage[a] = "admitted"}

AdmittedFit ==
  Cardinality(RecentFailures) + Cardinality(Admitted) <= MaxFailures + Cardinality(Attempt) - 1

InThePast == \A k \in 1 .. Len(fails) : fails[k] <= wall

LockoutInv == LockoutType /\ InThePast /\ RowCounts /\ AdmittedFit

(* Both are finite sets. *)
LEMMA LockoutSets ==
  ASSUME LockoutType
  PROVE  /\ IsFiniteSet(RecentFailures) /\ Cardinality(RecentFailures) \in Nat
         /\ IsFiniteSet(Admitted) /\ Cardinality(Admitted) \in Nat
         /\ Cardinality(Attempt) \in Nat /\ Cardinality(Admitted) <= Cardinality(Attempt)
<1>1. Len(fails) \in Nat
  BY LenProperties DEF LockoutType
<1>2. IsFiniteSet(1 .. Len(fails))
  BY <1>1, FS_Interval
<1>3. IsFiniteSet(RecentFailures)
  BY <1>2, FS_Subset DEF RecentFailures
<1>4. IsFiniteSet(Admitted) /\ Cardinality(Admitted) <= Cardinality(Attempt)
  BY LockoutAssumption, FS_Subset DEF Admitted
<1> QED BY <1>3, <1>4, LockoutAssumption, FS_CardinalityType

LEMMA NoFailures ==
  ASSUME fails = << >>
  PROVE  RecentFailures = {} /\ Cardinality(RecentFailures) = 0
<1>1. Len(fails) = 0
  BY EmptySeq
<1> QED BY <1>1, FS_EmptySet DEF RecentFailures

LEMMA LockoutInitInv ==
  ASSUME LockoutInit
  PROVE  LockoutInv
<1>1. LockoutType
  BY DEF LockoutInit, LockoutType
<1>2. RecentFailures = {} /\ Cardinality(RecentFailures) = 0
  BY NoFailures DEF LockoutInit
<1>3. InThePast /\ RowCounts
  <2>1. Len(fails) = 0
    BY EmptySeq DEF LockoutInit
  <2> QED BY <1>2, <2>1, LockoutAssumption DEF LockoutInit, InThePast, RowCounts
<1>4. AdmittedFit
  BY <1>1, <1>2, LockoutSets, LockoutAssumption DEF AdmittedFit
<1> QED BY <1>1, <1>3, <1>4 DEF LockoutInv

(* login_locked admits one more only when that cannot exceed the bound. *)
LEMMA AdmitInv ==
  ASSUME LockoutInv, NEW a \in Attempt, Admit(a)
  PROVE  LockoutInv'
<1>1. LockoutType'
  BY DEF Admit, rowVars, LockoutInv, LockoutType
<1>2. RecentFailures' = RecentFailures
  BY DEF Admit, RecentFailures
<1>3. InThePast' /\ RowCounts'
  BY <1>2 DEF Admit, rowVars, LockoutInv, InThePast, RowCounts
<1>4. Cardinality(RecentFailures) <= MaxFailures - 1
  <2>1. CASE failedCount < MaxFailures
    BY <2>1, LockoutSets, LockoutAssumption DEF LockoutInv, LockoutType, RowCounts
  <2>2. CASE failedCount >= MaxFailures
    <3>1. lastFailed + LockoutTime <= wall /\ failedCount > 0
      BY <2>2, LockoutAssumption DEF Admit, LoginLocked, LockoutInv, LockoutType, RowCounts
    <3>2. \A k \in 1 .. Len(fails) : fails[k] \in Nat /\ fails[k] <= lastFailed
      BY <3>1, ElementOfSeq DEF LockoutInv, LockoutType, RowCounts
    <3>3. RecentFailures = {}
      BY <3>1, <3>2, LockoutAssumption DEF RecentFailures, LockoutInv, LockoutType
    <3> QED BY <3>3, FS_EmptySet, LockoutAssumption
  <2> QED BY <2>1, <2>2, LockoutAssumption DEF LockoutInv, LockoutType
<1>5. AdmittedFit'
  <2>1. Cardinality(Admitted)' <= Cardinality(Attempt) /\ Cardinality(Admitted)' \in Nat
    <3>1. Admitted' \subseteq Attempt
      BY DEF Admitted
    <3> QED BY <3>1, LockoutAssumption, FS_Subset, FS_CardinalityType
  <2> QED BY <1>2, <1>4, <2>1, LockoutSets, LockoutAssumption DEF AdmittedFit, LockoutInv
<1> QED BY <1>1, <1>3, <1>5 DEF LockoutInv

(* A failure joins the window as its attempt ends. *)
LEMMA FailureInv ==
  ASSUME LockoutInv, NEW a \in Attempt, RecordFailure(a)
  PROVE  LockoutInv'
<1> USE LockoutAssumption
<1>1. /\ wall \in Nat /\ failedCount \in Nat /\ lastFailed \in Nat
      /\ fails \in Seq(Nat) /\ Len(fails) \in Nat
      /\ stage \in [Attempt -> {"idle", "admitted"}] /\ stage[a] = "admitted"
      /\ stage' = [stage EXCEPT ![a] = "idle"]
      /\ failedCount' = FailureCount /\ lastFailed' = wall /\ wall' = wall
      /\ lockedUntil' = IF FailureCount >= MaxFailures THEN wall + LockoutTime ELSE 0
      /\ fails' = Append(fails, wall)
  BY LenProperties DEF RecordFailure, LockoutInv, LockoutType
<1>2. FailureCount \in Nat /\ FailureCount > 0
  BY <1>1 DEF FailureCount
<1>3. /\ fails' \in Seq(Nat) /\ Len(fails') = Len(fails) + 1
      /\ \A k \in 1 .. Len(fails) : fails'[k] = fails[k] /\ fails[k] \in Nat
      /\ fails'[Len(fails) + 1] = wall
  BY <1>1, AppendProperties, LenProperties
<1>4. LockoutType'
  BY <1>1, <1>2, <1>3 DEF LockoutType
<1>5. RecentFailures' = RecentFailures \cup {Len(fails) + 1}
  <2>1. \A k \in 1 .. (Len(fails) + 1) : k \in 1 .. Len(fails) \/ k = Len(fails) + 1
    BY <1>1
  <2>2. wall > wall - LockoutTime /\ Len(fails) + 1 \in 1 .. (Len(fails) + 1)
    BY <1>1
  <2>3. \A k \in 1 .. Len(fails) : k \in 1 .. (Len(fails) + 1)
    BY <1>1
  <2>4. ASSUME NEW k PROVE k \in RecentFailures' <=> k \in RecentFailures \cup {Len(fails) + 1}
    BY <1>1, <1>3, <2>1, <2>2, <2>3 DEF RecentFailures
  <2> QED BY <2>4
<1>6. Len(fails) + 1 \notin RecentFailures
  BY <1>1 DEF RecentFailures
<1>7. Cardinality(RecentFailures)' = Cardinality(RecentFailures) + 1
  BY <1>5, <1>6, LockoutSets, FS_AddElement DEF LockoutInv
<1>8. \A k \in 1 .. Len(fails) : fails[k] <= wall
  BY DEF LockoutInv, InThePast
<1>9. StartsAgain => RecentFailures = {}
  <2>1. CASE failedCount = 0
    BY <2>1 DEF LockoutInv, RowCounts
  <2>2. CASE failedCount > 0 /\ lastFailed < wall - LockoutTime
    <3>1. \A k \in 1 .. Len(fails) : fails[k] \in Nat /\ fails[k] <= lastFailed
      BY <1>3, <2>2 DEF LockoutInv, RowCounts
    <3> QED BY <1>1, <2>2, <3>1 DEF RecentFailures
  <2> QED BY <1>1, <2>1, <2>2 DEF StartsAgain
<1>10. Cardinality(RecentFailures)' <= FailureCount
  <2>1. CASE StartsAgain
    BY <1>7, <1>9, <2>1, FS_EmptySet DEF FailureCount
  <2>2. CASE ~StartsAgain
    BY <1>1, <1>7, <2>2, LockoutSets DEF FailureCount, LockoutInv, RowCounts
  <2> QED BY <2>1, <2>2
<1>11. ASSUME NEW k \in 1 .. (Len(fails) + 1) PROVE fails'[k] <= wall
  <2>1. k \in 1 .. Len(fails) \/ k = Len(fails) + 1
    BY <1>1
  <2> QED BY <1>1, <1>3, <1>8, <2>1
<1>12. RowCounts'
  BY <1>1, <1>2, <1>3, <1>10, <1>11 DEF RowCounts
<1>13. AdmittedFit'
  <2>1. Admitted' = Admitted \ {a} /\ a \in Admitted
    BY <1>1 DEF Admitted
  <2>2. Cardinality(Admitted)' = Cardinality(Admitted) - 1
    BY <2>1, LockoutSets, FS_RemoveElement DEF LockoutInv
  <2> QED BY <1>7, <2>2, LockoutSets DEF AdmittedFit, LockoutInv
<1>14. InThePast'
  BY <1>1, <1>3, <1>11 DEF InThePast
<1> QED BY <1>4, <1>12, <1>13, <1>14 DEF LockoutInv

(* The row goes with its failures. *)
LEMMA DropInv ==
  ASSUME LockoutInv, DropRow, fails' = << >>, UNCHANGED wall,
         stage' \in [Attempt -> {"idle", "admitted"}]
  PROVE  LockoutInv'
<1>1. LockoutType'
  BY DEF DropRow, LockoutInv, LockoutType
<1>2. Len(fails') = 0
  BY EmptySeq
<1>3. RecentFailures' = {} /\ Cardinality(RecentFailures)' = 0
  BY <1>2, FS_EmptySet DEF RecentFailures
<1>4. InThePast' /\ RowCounts'
  BY <1>2, <1>3, LockoutAssumption DEF DropRow, InThePast, RowCounts
<1>5. Cardinality(Admitted)' <= Cardinality(Attempt) /\ Cardinality(Admitted)' \in Nat
  <2>1. Admitted' \subseteq Attempt
    BY DEF Admitted
  <2> QED BY <2>1, LockoutAssumption, FS_Subset, FS_CardinalityType
<1>6. AdmittedFit'
  BY <1>3, <1>5, LockoutSets, LockoutAssumption DEF AdmittedFit, LockoutInv
<1> QED BY <1>1, <1>4, <1>6 DEF LockoutInv

LEMMA GiveUpInv ==
  ASSUME LockoutInv, NEW a \in Attempt, GiveUp(a)
  PROVE  LockoutInv'
<1>1. LockoutType'
  BY DEF GiveUp, rowVars, LockoutInv, LockoutType
<1>2. RecentFailures' = RecentFailures
  BY DEF GiveUp, RecentFailures
<1>3. InThePast' /\ RowCounts'
  BY <1>2 DEF GiveUp, rowVars, LockoutInv, InThePast, RowCounts
<1>4. Cardinality(Admitted)' <= Cardinality(Admitted) /\ Cardinality(Admitted)' \in Nat
  <2>1. Admitted' \subseteq Admitted
    BY DEF Admitted, GiveUp, LockoutInv, LockoutType
  <2> QED BY <2>1, LockoutSets, FS_Subset, FS_CardinalityType DEF LockoutInv
<1>5. AdmittedFit'
  BY <1>2, <1>4, LockoutSets, LockoutAssumption DEF AdmittedFit, LockoutInv
<1> QED BY <1>1, <1>3, <1>5 DEF LockoutInv

(* A row is pruned when its failures have left the window. *)
LEMMA PruneInv ==
  ASSUME LockoutInv, PruneAttempts
  PROVE  LockoutInv'
<1> USE LockoutAssumption
<1>1. LockoutType'
  BY DEF PruneAttempts, DropRow, LockoutInv, LockoutType
<1>2. RecentFailures' = RecentFailures
  BY DEF PruneAttempts, RecentFailures
<1>3. RecentFailures = {}
  <2>1. failedCount > 0 /\ lastFailed < wall - LockoutTime
    BY DEF PruneAttempts, LockoutInv, LockoutType
  <2>2. \A k \in 1 .. Len(fails) : fails[k] \in Nat /\ fails[k] <= lastFailed
    BY <2>1, ElementOfSeq DEF LockoutInv, LockoutType, RowCounts
  <2> QED BY <2>1, <2>2 DEF RecentFailures, LockoutInv, LockoutType
<1>4. InThePast' /\ RowCounts'
  BY <1>2, <1>3, FS_EmptySet DEF PruneAttempts, DropRow, LockoutInv, InThePast, RowCounts
<1>5. AdmittedFit'
  BY <1>2 DEF PruneAttempts, Admitted, AdmittedFit, LockoutInv
<1> QED BY <1>1, <1>4, <1>5 DEF LockoutInv

(* As time passes, failures leave the window. *)
LEMMA LockoutTickInv ==
  ASSUME LockoutInv, LockoutTick
  PROVE  LockoutInv'
<1> USE LockoutAssumption
<1>1. LockoutType'
  BY DEF LockoutTick, rowVars, LockoutInv, LockoutType
<1>2. InThePast'
  <2>1. \A k \in 1 .. Len(fails) : fails[k] \in Nat
    BY ElementOfSeq DEF LockoutInv, LockoutType
  <2> QED BY <2>1 DEF LockoutTick, LockoutInv, LockoutType, InThePast
<1>3. RecentFailures' \subseteq RecentFailures
  <2>1. \A k \in 1 .. Len(fails) : fails[k] \in Nat
    BY ElementOfSeq DEF LockoutInv, LockoutType
  <2> QED BY <2>1 DEF LockoutTick, RecentFailures, LockoutInv, LockoutType
<1>4. /\ Cardinality(RecentFailures)' <= Cardinality(RecentFailures)
      /\ Cardinality(RecentFailures)' \in Nat
  BY <1>3, LockoutSets, FS_Subset, FS_CardinalityType DEF LockoutInv
<1>5. RowCounts'
  BY <1>3, <1>4, LockoutSets DEF LockoutTick, rowVars, LockoutInv, LockoutType, RowCounts
<1>6. AdmittedFit'
  <2>1. Admitted' = Admitted
    BY DEF LockoutTick, Admitted
  <2> QED BY <1>4, <2>1, LockoutSets DEF AdmittedFit, LockoutInv
<1> QED BY <1>1, <1>2, <1>5, <1>6 DEF LockoutInv

LEMMA LockoutStepInv ==
  ASSUME LockoutInv, [LockoutNext]_lockoutVars
  PROVE  LockoutInv'
<1>1. ASSUME NEW a \in Attempt, ClearFailures(a) PROVE LockoutInv'
  BY <1>1, DropInv DEF ClearFailures, LockoutInv, LockoutType
<1>2. CASE ResetClears
  BY <1>2, DropInv DEF ResetClears, LockoutInv, LockoutType
<1>3. CASE UNCHANGED lockoutVars
  BY <1>3 DEF lockoutVars, rowVars, LockoutInv, LockoutType, InThePast, RowCounts, AdmittedFit,
              RecentFailures, Admitted
<1> QED BY <1>1, <1>2, <1>3, AdmitInv, FailureInv, GiveUpInv, PruneInv, LockoutTickInv
        DEF LockoutNext

(***************************************************************************)
(* However many logins of one address run at once, and whatever the limit  *)
(* and the lockout time: within one lockout time at most MaxFailures       *)
(* passwords are tried in vain, and one more for each other request that   *)
(* was past login_locked when the limit was reached.                       *)
(***************************************************************************)
THEOREM LockoutHolds == LockoutSpec => []FailuresPerWindow
<1>1. LockoutInv => FailuresPerWindow
  <2> SUFFICES ASSUME LockoutInv PROVE FailuresPerWindow
    OBVIOUS
  <2> QED BY LockoutSets, LockoutAssumption DEF LockoutInv, AdmittedFit, FailuresPerWindow
<1> QED BY <1>1, LockoutInitInv, LockoutStepInv, PTL DEF LockoutSpec

-----------------------------------------------------------------------------
(***************************************************************************)
(* The storage quota.  BytesIn is BytesOf for any lengths, so that it can  *)
(* be compared before and after a step.                                    *)
(***************************************************************************)
BlobBytes(f, resources) == UNION {{b} \X (1 .. f[b]) : b \in resources}
BytesIn(f, resources) == Cardinality(BlobBytes(f, resources))

Lengths == [Resource -> 0 .. MaxSize]

LEMMA BlobBytesMember ==
  ASSUME NEW f, NEW resources, NEW u
  PROVE  u \in BlobBytes(f, resources) <=>
           \E b \in resources : \E k \in 1 .. f[b] : u = <<b, k>>
BY DEF BlobBytes

LEMMA BytesFinite ==
  ASSUME NEW f \in Lengths, NEW resources \in SUBSET Resource
  PROVE  IsFiniteSet(BlobBytes(f, resources)) /\ BytesIn(f, resources) \in Nat
<1>1. IsFiniteSet(Resource \X (1 .. MaxSize))
  <2>1. IsFiniteSet(1 .. MaxSize)
    BY BlobQuotaAssumption, FS_Interval
  <2> QED BY <2>1, BlobQuotaAssumption, FS_Product
<1>2. BlobBytes(f, resources) \subseteq Resource \X (1 .. MaxSize)
  <2> SUFFICES ASSUME NEW u \in BlobBytes(f, resources) PROVE u \in Resource \X (1 .. MaxSize)
    OBVIOUS
  <2>1. PICK b \in resources : \E k \in 1 .. f[b] : u = <<b, k>>
    BY BlobBytesMember
  <2>2. f[b] \in 0 .. MaxSize /\ b \in Resource
    BY DEF Lengths
  <2> QED BY <2>1, <2>2, BlobQuotaAssumption
<1> QED BY <1>1, <1>2, FS_Subset, FS_CardinalityType DEF BytesIn

(* Only the lengths of the resources summed over matter. *)
LEMMA BytesCongruent ==
  ASSUME NEW f, NEW g, NEW resources, \A b \in resources : f[b] = g[b]
  PROVE  BytesIn(f, resources) = BytesIn(g, resources)
<1>1. BlobBytes(f, resources) = BlobBytes(g, resources)
  BY DEF BlobBytes
<1> QED BY <1>1 DEF BytesIn

LEMMA BytesMonotone ==
  ASSUME NEW f \in Lengths, NEW resources \in SUBSET Resource, NEW fewer \in SUBSET resources
  PROVE  BytesIn(f, fewer) <= BytesIn(f, resources)
<1>1. BlobBytes(f, fewer) \subseteq BlobBytes(f, resources)
  BY DEF BlobBytes
<1> QED BY <1>1, BytesFinite, FS_Subset DEF BytesIn

(* One resource apart from the others. *)
LEMMA BytesSplit ==
  ASSUME NEW f \in Lengths, NEW resources \in SUBSET Resource, NEW b \in resources
  PROVE  BytesIn(f, resources) = BytesIn(f, resources \ {b}) + f[b]
<1> DEFINE rest == BlobBytes(f, resources \ {b})
           own == {b} \X (1 .. f[b])
<1>1. f[b] \in Nat
  BY DEF Lengths
<1>2. IsFiniteSet(own) /\ Cardinality(own) = f[b]
  <2>1. IsFiniteSet({b}) /\ Cardinality({b}) = 1
    BY FS_Singleton
  <2>2. IsFiniteSet(1 .. f[b]) /\ Cardinality(1 .. f[b]) = f[b]
    BY <1>1, FS_Interval
  <2>3. Cardinality(own) = 1 * f[b] /\ IsFiniteSet(own)
    BY <2>1, <2>2, FS_Product
  <2> QED BY <1>1, <2>3
<1>3. BlobBytes(f, resources) = rest \cup own
  BY DEF BlobBytes
<1>4. rest \cap own = {}
  <2> SUFFICES ASSUME NEW u \in rest, u \in own PROVE FALSE
    OBVIOUS
  <2>1. PICK c \in resources \ {b} : \E k \in 1 .. f[c] : u = <<c, k>>
    BY BlobBytesMember
  <2> QED BY <2>1
<1>5. IsFiniteSet(rest) /\ Cardinality(rest) \in Nat
  BY BytesFinite DEF BytesIn
<1>6. Cardinality(rest \cup own) = Cardinality(rest) + Cardinality(own) - Cardinality(rest \cap own)
  <2> HIDE DEF rest, own
  <2> QED BY <1>2, <1>5, FS_Union
<1> HIDE DEF rest, own
<1>7. Cardinality(rest \cup own) = Cardinality(rest) + f[b]
  BY <1>1, <1>2, <1>4, <1>5, <1>6, FS_EmptySet
<1> QED BY <1>3, <1>7 DEF BytesIn, rest

(* A change to one resource: what the sum grows by is what that one does. *)
CountsIn(f, resources, b) == IF b \in resources THEN f[b] ELSE 0

LEMMA BytesChange ==
  ASSUME NEW f \in Lengths, NEW g \in Lengths, NEW b \in Resource,
         NEW resources \in SUBSET Resource, NEW others \in SUBSET Resource,
         resources \ {b} = others \ {b},
         \A c \in resources \ {b} : f[c] = g[c]
  PROVE  BytesIn(g, others) =
           BytesIn(f, resources) + CountsIn(g, others, b) - CountsIn(f, resources, b)
<1>1. BytesIn(f, resources \ {b}) = BytesIn(g, others \ {b})
  BY BytesCongruent
<1>2. ASSUME NEW h \in Lengths, NEW S \in SUBSET Resource
      PROVE  BytesIn(h, S) = BytesIn(h, S \ {b}) + CountsIn(h, S, b)
  <2>1. CASE b \in S
    BY <2>1, BytesSplit DEF CountsIn
  <2>2. CASE b \notin S
    <3>1. S \ {b} = S /\ BytesIn(h, S) \in Nat
      BY <2>2, BytesFinite
    <3> QED BY <2>2, <3>1 DEF CountsIn
  <2> QED BY <2>1, <2>2
<1>3. /\ BytesIn(f, resources) = BytesIn(f, resources \ {b}) + CountsIn(f, resources, b)
      /\ BytesIn(g, others) = BytesIn(g, others \ {b}) + CountsIn(g, others, b)
  BY <1>2
<1>4. BytesIn(f, resources \ {b}) \in Nat /\ f[b] \in Nat /\ g[b] \in Nat
  BY BytesFinite DEF Lengths
<1> QED BY <1>1, <1>3, <1>4 DEF CountsIn

BlobQuotaType ==
  /\ present \in SUBSET Resource /\ bytes \in Lengths /\ arrived \in Nat
  /\ blobLock \in Upload \cup {NoUpload} /\ measured \in SUBSET Upload
  /\ target \in [Upload -> Resource \cup {NoResource}] /\ size \in [Upload -> 0 .. MaxSize]

(* An upload that has begun holds the user's blob quota lock. *)
BlobLockHeld ==
  /\ \A p \in Upload : target[p] # NoResource => blobLock = p
  /\ \A p \in measured : target[p] # NoResource

(* What an upload measured stays true until it writes, up to arrivals. *)
RoomKept ==
  \A p \in measured : BytesIn(bytes, present \ {target[p]}) + size[p] <= StorageLimit + arrived

WithinLimit == BytesIn(bytes, present) <= StorageLimit + arrived

BlobQuotaInv == BlobQuotaType /\ BlobLockHeld /\ RoomKept /\ WithinLimit

LEMMA BlobQuotaInitInv ==
  ASSUME BlobQuotaInit
  PROVE  BlobQuotaInv
<1>1. BlobQuotaType
  BY BlobQuotaAssumption DEF BlobQuotaInit, BlobQuotaType, Lengths
<1>2. BytesIn(bytes, present) = 0
  <2>1. BlobBytes(bytes, present) = {}
    BY DEF BlobQuotaInit, BlobBytes
  <2> QED BY <2>1, FS_EmptySet DEF BytesIn
<1> QED BY <1>1, <1>2, BlobQuotaAssumption
        DEF BlobQuotaInit, BlobQuotaInv, BlobLockHeld, RoomKept, WithinLimit

LEMMA LockBlobInv ==
  ASSUME BlobQuotaInv, NEW p \in Upload, NEW b \in Resource, NEW n \in 0 .. MaxSize,
         LockBlobQuota(p, b, n)
  PROVE  BlobQuotaInv'
<1> USE BlobQuotaAssumption
<1>1. BlobQuotaType'
  BY DEF LockBlobQuota, TakeBlobLock, BlobQuotaInv, BlobQuotaType
<1>2. measured = {} /\ \A q \in Upload : target[q] = NoResource
  BY DEF LockBlobQuota, TakeBlobLock, BlobQuotaInv, BlobQuotaType, BlobLockHeld
<1>3. BlobLockHeld' /\ RoomKept'
  BY <1>2 DEF LockBlobQuota, TakeBlobLock, BlobQuotaInv, BlobQuotaType, BlobLockHeld, RoomKept
<1>4. WithinLimit'
  BY DEF LockBlobQuota, BlobQuotaInv, WithinLimit
<1> QED BY <1>1, <1>3, <1>4 DEF BlobQuotaInv

LEMMA MeasureInv ==
  ASSUME BlobQuotaInv, NEW p \in Upload, MeasureBlobs(p)
  PROVE  BlobQuotaInv'
<1>1. BlobQuotaType' /\ BlobLockHeld'
  BY DEF MeasureBlobs, BlobQuotaInv, BlobQuotaType, BlobLockHeld
<1>2. BytesIn(bytes, present \ {target[p]}) + size[p] <= StorageLimit
  BY DEF MeasureBlobs, HasRoom, BytesOf, BytesIn, BlobBytes
<1>3. BytesIn(bytes, present \ {target[p]}) + size[p] <= StorageLimit + arrived
  <2>1. BytesIn(bytes, present \ {target[p]}) \in Nat /\ size[p] \in Nat /\ arrived \in Nat
    BY BytesFinite DEF BlobQuotaInv, BlobQuotaType
  <2> QED BY <1>2, <2>1, BlobQuotaAssumption
<1>4. RoomKept' /\ WithinLimit'
  BY <1>3 DEF MeasureBlobs, BlobQuotaInv, RoomKept, WithinLimit
<1> QED BY <1>1, <1>4 DEF BlobQuotaInv

(* When an upload ends, the only holder of the lock is gone. *)
LEMMA EndUploadInv ==
  ASSUME BlobQuotaInv, NEW p \in Upload, target[p] # NoResource, EndUpload(p)
  PROVE  BlobLockHeld' /\ measured' = {}
<1>1. \A q \in Upload : q # p => target[q] = NoResource /\ q \notin measured
  BY DEF BlobQuotaInv, BlobQuotaType, BlobLockHeld
<1>2. measured' = {}
  BY <1>1 DEF EndUpload, BlobQuotaInv, BlobQuotaType
<1>3. \A q \in Upload : target'[q] = NoResource
  BY <1>1 DEF EndUpload, BlobQuotaInv, BlobQuotaType
<1> QED BY <1>2, <1>3 DEF BlobLockHeld

LEMMA EndUploadType ==
  ASSUME BlobQuotaInv, NEW p \in Upload, EndUpload(p)
  PROVE  /\ blobLock' \in Upload \cup {NoUpload} /\ measured' \in SUBSET Upload
         /\ target' \in [Upload -> Resource \cup {NoResource}]
         /\ size' \in [Upload -> 0 .. MaxSize]
BY BlobQuotaAssumption DEF EndUpload, BlobQuotaInv, BlobQuotaType

(* The write: the sum it measured and its own size, a replacement once. *)
LEMMA CommitBlobInv ==
  ASSUME BlobQuotaInv, NEW p \in Upload, CommitBlob(p)
  PROVE  BlobQuotaInv'
<1> DEFINE b == target[p]
<1>1. /\ p \in measured /\ b \in present /\ b \in Resource /\ b # NoResource
      /\ size[p] \in 0 .. MaxSize /\ bytes \in Lengths /\ present \in SUBSET Resource
      /\ bytes' = [bytes EXCEPT ![b] = size[p]] /\ EndUpload(p)
      /\ UNCHANGED <<present, arrived>>
  BY DEF CommitBlob, BlobQuotaInv, BlobQuotaType, BlobLockHeld
<1>2. BytesIn(bytes, present \ {b}) + size[p] <= StorageLimit + arrived
  BY <1>1 DEF BlobQuotaInv, RoomKept
<1> HIDE DEF b
<1>3. bytes' \in Lengths /\ bytes'[b] = size[p] /\ \A c \in present \ {b} : bytes'[c] = bytes[c]
  BY <1>1 DEF Lengths
<1>4. BytesIn(bytes', present) = BytesIn(bytes', present \ {b}) + size[p]
  BY <1>1, <1>3, BytesSplit
<1>5. BytesIn(bytes', present \ {b}) = BytesIn(bytes, present \ {b})
  BY <1>3, BytesCongruent
<1>6. BlobQuotaType'
  BY <1>1, <1>3, EndUploadType DEF BlobQuotaInv, BlobQuotaType
<1>7. BlobLockHeld' /\ RoomKept'
  BY <1>1, EndUploadInv DEF RoomKept, b
<1>8. WithinLimit'
  BY <1>1, <1>2, <1>4, <1>5 DEF WithinLimit
<1> QED BY <1>6, <1>7, <1>8 DEF BlobQuotaInv

LEMMA RollbackBlobInv ==
  ASSUME BlobQuotaInv, NEW p \in Upload, RollbackBlob(p)
  PROVE  BlobQuotaInv'
<1>1. target[p] # NoResource /\ EndUpload(p) /\ UNCHANGED <<present, bytes, arrived>>
  BY DEF RollbackBlob
<1>2. BlobQuotaType'
  BY <1>1, EndUploadType DEF BlobQuotaInv, BlobQuotaType
<1>3. BlobLockHeld' /\ RoomKept'
  BY <1>1, EndUploadInv DEF RoomKept
<1>4. WithinLimit'
  BY <1>1 DEF BlobQuotaInv, WithinLimit
<1> QED BY <1>2, <1>3, <1>4 DEF BlobQuotaInv

(* The steps outside the quota leave the uploads alone ... *)
LEMMA OutsideInv ==
  ASSUME BlobQuotaInv, UNCHANGED <<blobLock, target, size, measured>>,
         present' \in SUBSET Resource, bytes' \in Lengths, arrived' \in Nat,
         \A t \in Resource \cup {NoResource} :
            BytesIn(bytes', present' \ {t}) - arrived' <= BytesIn(bytes, present \ {t}) - arrived
  PROVE  BlobQuotaInv'
<1>1. BlobQuotaType' /\ BlobLockHeld'
  BY DEF BlobQuotaInv, BlobQuotaType, BlobLockHeld
<1>2. ASSUME NEW t \in Resource \cup {NoResource}
      PROVE  /\ BytesIn(bytes', present' \ {t}) \in Nat /\ BytesIn(bytes, present \ {t}) \in Nat
             /\ arrived \in Nat
  BY BytesFinite DEF BlobQuotaInv, BlobQuotaType
<1>3. RoomKept'
  <2> SUFFICES ASSUME NEW p \in measured
               PROVE  BytesIn(bytes', present' \ {target[p]}) + size[p] <= StorageLimit + arrived'
    BY DEF RoomKept
  <2>1. target[p] \in Resource \cup {NoResource} /\ size[p] \in Nat
    BY DEF BlobQuotaInv, BlobQuotaType
  <2>2. BytesIn(bytes, present \ {target[p]}) + size[p] <= StorageLimit + arrived
    BY DEF BlobQuotaInv, RoomKept
  <2>3. /\ BytesIn(bytes', present' \ {target[p]}) \in Nat
        /\ BytesIn(bytes, present \ {target[p]}) \in Nat /\ arrived \in Nat
        /\ BytesIn(bytes', present' \ {target[p]}) - arrived'
             <= BytesIn(bytes, present \ {target[p]}) - arrived
    BY <1>2, <2>1
  <2> QED BY <2>1, <2>2, <2>3, BlobQuotaAssumption
<1>4. WithinLimit'
  <2>1. present \ {NoResource} = present /\ present' \ {NoResource} = present'
    BY BlobQuotaAssumption DEF BlobQuotaInv, BlobQuotaType
  <2>2. /\ BytesIn(bytes', present') \in Nat /\ BytesIn(bytes, present) \in Nat
        /\ arrived \in Nat
        /\ BytesIn(bytes', present') - arrived' <= BytesIn(bytes, present) - arrived
    BY <1>2, <2>1
  <2> QED BY <2>2, BlobQuotaAssumption DEF BlobQuotaInv, WithinLimit
<1> QED BY <1>1, <1>3, <1>4 DEF BlobQuotaInv

(* ... and what one of them adds is in arrived. *)
LEMMA ArrivalInv ==
  ASSUME BlobQuotaInv, NEW b \in Resource, NEW data \in 0 .. MaxSize, NEW deleted \in BOOLEAN,
         ApplyResourceCreate(b, data, deleted)
  PROVE  BlobQuotaInv'
<1>1. /\ present \in SUBSET Resource /\ bytes \in Lengths /\ arrived \in Nat
      /\ present' = IF deleted THEN present \ {b} ELSE present \cup {b}
      /\ bytes' = IF data > 0 THEN [bytes EXCEPT ![b] = data] ELSE bytes
      /\ UNCHANGED <<blobLock, target, size, measured>>
  BY DEF ApplyResourceCreate, BlobQuotaInv, BlobQuotaType
<1>2. /\ present' \in SUBSET Resource /\ present' \ {b} = present \ {b}
      /\ bytes' \in Lengths /\ \A c \in Resource : c # b => bytes'[c] = bytes[c]
  BY <1>1 DEF Lengths
<1>3. Counts(b) \in Nat /\ Counts(b)' \in Nat
  BY <1>1, <1>2 DEF Counts, Lengths
<1>4. arrived' = IF Counts(b)' - Counts(b) > 0 THEN arrived + (Counts(b)' - Counts(b)) ELSE arrived
  BY DEF ApplyResourceCreate
<1>5. /\ arrived' \in Nat /\ arrived' >= arrived
      /\ arrived' - arrived >= Counts(b)' - Counts(b)
  BY <1>1, <1>3, <1>4
<1>6. ASSUME NEW t \in Resource \cup {NoResource}
      PROVE  BytesIn(bytes', present' \ {t}) - arrived' <= BytesIn(bytes, present \ {t}) - arrived
  <2>1. BytesIn(bytes', present' \ {t}) \in Nat /\ BytesIn(bytes, present \ {t}) \in Nat
    BY <1>1, <1>2, BytesFinite
  <2>2. CASE t = b
    <3>1. present' \ {t} = present \ {t} /\ \A c \in present \ {t} : bytes'[c] = bytes[c]
      BY <1>1, <1>2, <2>2
    <3>2. BytesIn(bytes', present' \ {t}) = BytesIn(bytes, present \ {t})
      BY <3>1, BytesCongruent
    <3> QED BY <1>1, <1>5, <2>1, <3>2
  <2>3. CASE t # b
    <3>1. /\ CountsIn(bytes', present' \ {t}, b) = Counts(b)'
          /\ CountsIn(bytes, present \ {t}, b) = Counts(b)
      BY <2>3 DEF CountsIn, Counts
    <3>2. (present \ {t}) \ {b} = (present' \ {t}) \ {b}
      BY <1>2
    <3>3. BytesIn(bytes', present' \ {t}) =
            BytesIn(bytes, present \ {t}) + Counts(b)' - Counts(b)
      <4> DEFINE P == present \ {t}
                 Q == present' \ {t}
      <4>1. /\ P \in SUBSET Resource /\ Q \in SUBSET Resource /\ P \ {b} = Q \ {b}
            /\ \A c \in P \ {b} : bytes[c] = bytes'[c]
            /\ bytes \in Lengths /\ bytes' \in Lengths
        BY <1>1, <1>2, <3>2
      <4> HIDE DEF P, Q
      <4>2. BytesIn(bytes', Q) = BytesIn(bytes, P) + CountsIn(bytes', Q, b) - CountsIn(bytes, P, b)
        BY <4>1, BytesChange
      <4> QED BY <3>1, <4>2 DEF P, Q
    <3> QED BY <1>1, <1>3, <1>5, <2>1, <3>3
  <2> QED BY <2>2, <2>3
<1> QED BY <1>1, <1>2, <1>5, <1>6, OutsideInv

LEMMA DeleteInv ==
  ASSUME BlobQuotaInv, NEW gone \in SUBSET Resource, DeleteResources(gone)
  PROVE  BlobQuotaInv'
<1>1. /\ present \in SUBSET Resource /\ bytes \in Lengths /\ arrived \in Nat
      /\ present' = present \ gone
      /\ UNCHANGED <<bytes, arrived, blobLock, target, size, measured>>
  BY DEF DeleteResources, BlobQuotaInv, BlobQuotaType
<1>2. ASSUME NEW t \in Resource \cup {NoResource}
      PROVE  BytesIn(bytes', present' \ {t}) - arrived' <= BytesIn(bytes, present \ {t}) - arrived
  <2>1. BytesIn(bytes, present' \ {t}) <= BytesIn(bytes, present \ {t})
    BY <1>1, BytesMonotone
  <2>2. BytesIn(bytes, present' \ {t}) \in Nat /\ BytesIn(bytes, present \ {t}) \in Nat
    BY <1>1, BytesFinite
  <2> QED BY <1>1, <2>1, <2>2
<1> QED BY <1>1, <1>2, OutsideInv

LEMMA PurgeInv ==
  ASSUME BlobQuotaInv, NEW old \in SUBSET Resource, PurgeDeletedBlobs(old)
  PROVE  BlobQuotaInv'
<1>1. /\ present \in SUBSET Resource /\ bytes \in Lengths /\ arrived \in Nat
      /\ old \cap present = {}
      /\ bytes' = [c \in Resource |-> IF c \in old THEN 0 ELSE bytes[c]]
      /\ UNCHANGED <<present, arrived, blobLock, target, size, measured>>
  BY DEF PurgeDeletedBlobs, BlobQuotaInv, BlobQuotaType
<1>2. bytes' \in Lengths /\ \A c \in present : bytes'[c] = bytes[c]
  BY <1>1, BlobQuotaAssumption DEF Lengths
<1>3. ASSUME NEW t \in Resource \cup {NoResource}
      PROVE  BytesIn(bytes', present' \ {t}) - arrived' <= BytesIn(bytes, present \ {t}) - arrived
  <2>1. BytesIn(bytes', present \ {t}) = BytesIn(bytes, present \ {t})
    BY <1>2, BytesCongruent
  <2>2. BytesIn(bytes, present \ {t}) \in Nat
    BY <1>1, BytesFinite
  <2> QED BY <1>1, <2>1, <2>2
<1> QED BY <1>1, <1>2, <1>3, OutsideInv

LEMMA BlobQuotaStepInv ==
  ASSUME BlobQuotaInv, [BlobQuotaNext]_blobQuotaVars
  PROVE  BlobQuotaInv'
<1>1. CASE UNCHANGED blobQuotaVars
  BY <1>1 DEF blobQuotaVars, BlobQuotaInv, BlobQuotaType, BlobLockHeld, RoomKept, WithinLimit
<1> QED BY <1>1, LockBlobInv, MeasureInv, CommitBlobInv, RollbackBlobInv, ArrivalInv, DeleteInv,
           PurgeInv DEF BlobQuotaNext

(***************************************************************************)
(* Uploads never exceed the limit, for any number of them and any limit:   *)
(* the advisory lock makes measuring and writing one step for the others,  *)
(* and what comes past it over the sync relay is what arrived counts.      *)
(***************************************************************************)
THEOREM StorageStaysWithinLimit == BlobQuotaSpec => []StorageWithinLimit
<1>1. BlobQuotaInv => StorageWithinLimit
  BY DEF BlobQuotaInv, WithinLimit, StorageWithinLimit, BytesOf, BytesIn, BlobBytes
<1> QED BY <1>1, BlobQuotaInitInv, BlobQuotaStepInv, PTL DEF BlobQuotaSpec
=============================================================================
