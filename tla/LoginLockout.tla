---------------------------- MODULE LoginLockout ----------------------------
(***************************************************************************)
(* The lockout of one e-mail address: its row in login_attempts under      *)
(* login requests that run at the same time (login in http.rs, the lockout *)
(* part of store.rs, run_retention in main.rs).                            *)
(*                                                                         *)
(* A login asks login_locked first and records its failure, or clears the  *)
(* row, only after it has read the account and checked the password: the   *)
(* row may have changed in between.  Every statement is one step and takes *)
(* the time now() of its start.  A login of an address without account     *)
(* records a failure too, so the account plays no part here.  Abstracted:  *)
(* LOGIN_MAX_FAILURES <= 0, which turns all of this off.                   *)
(***************************************************************************)
EXTENDS Integers, FiniteSets, Sequences

CONSTANTS
  Attempt,       \* login requests handled at the same time
  MaxFailures,   \* LOGIN_MAX_FAILURES
  LockoutTime,   \* LOGIN_LOCKOUT_SECS
  PruneAge,      \* the 24 hours of prune_login_attempts
  MaxTime        \* bound: the clock

(* A lockout that outlives the 24 hours would be pruned while it holds. *)
ASSUME LockoutAssumption ==
  /\ IsFiniteSet(Attempt)
  /\ MaxFailures \in Nat \ {0} /\ LockoutTime \in Nat \ {0}
  /\ PruneAge \in Nat /\ PruneAge >= LockoutTime

VARIABLES
  wall,          \* PostgreSQL's now()
  failedCount,   \* login_attempts.failed_count; 0 when there is no row
  lastFailed,    \* login_attempts.last_failed_at
  lockedUntil,   \* login_attempts.locked_until; 0 for NULL
  stage,         \* per attempt: idle, or past login_locked
  fails          \* history: when each failure since the last clear was recorded

rowVars == <<failedCount, lastFailed, lockedUntil>>
lockoutVars == <<wall, rowVars, stage, fails>>

LockoutInit ==
  /\ wall = 0
  /\ failedCount = 0 /\ lastFailed = 0 /\ lockedUntil = 0
  /\ stage = [a \in Attempt |-> "idle"]
  /\ fails = << >>

LoginLocked == failedCount > 0 /\ lockedUntil > wall

Admit(a) ==
  /\ stage[a] = "idle" /\ ~LoginLocked
  /\ stage' = [stage EXCEPT ![a] = "admitted"]
  /\ UNCHANGED <<wall, rowVars, fails>>

(***************************************************************************)
(* record_login_failure: one upsert.  A row whose last failure is older    *)
(* than the lockout starts again at one.                                   *)
(***************************************************************************)
(* Mutant: only failures of the same instant add up. *)
StartsAgainEachTick == failedCount = 0 \/ lastFailed < wall
StartsAgain == failedCount = 0 \/ lastFailed < wall - LockoutTime

FailureCount == IF StartsAgain THEN 1 ELSE failedCount + 1

RecordFailure(a) ==
  /\ stage[a] = "admitted"
  /\ failedCount' = FailureCount
  /\ lastFailed' = wall
  /\ lockedUntil' = IF FailureCount >= MaxFailures THEN wall + LockoutTime ELSE 0
  /\ stage' = [stage EXCEPT ![a] = "idle"]
  /\ fails' = Append(fails, wall)
  /\ UNCHANGED wall

(* DELETE FROM login_attempts. *)
DropRow == failedCount' = 0 /\ lastFailed' = 0 /\ lockedUntil' = 0

(* A login that succeeds. *)
ClearFailures(a) ==
  /\ stage[a] = "admitted"
  /\ DropRow
  /\ stage' = [stage EXCEPT ![a] = "idle"]
  /\ fails' = << >>
  /\ UNCHANGED wall

(* reset_confirm clears the row of the address whose mail it received. *)
ResetClears ==
  /\ failedCount > 0
  /\ DropRow
  /\ fails' = << >>
  /\ UNCHANGED <<wall, stage>>

(* The client goes away, a statement fails, or the e-mail is not verified. *)
GiveUp(a) ==
  /\ stage[a] = "admitted"
  /\ stage' = [stage EXCEPT ![a] = "idle"]
  /\ UNCHANGED <<wall, rowVars, fails>>

(* run_retention. *)
PruneAttempts ==
  /\ failedCount > 0 /\ lastFailed < wall - PruneAge
  /\ DropRow
  /\ UNCHANGED <<wall, stage, fails>>

LockoutTick ==
  /\ wall < MaxTime
  /\ wall' = wall + 1
  /\ UNCHANGED <<rowVars, stage, fails>>

LockoutNext ==
  \/ \E a \in Attempt :
        Admit(a) \/ RecordFailure(a) \/ ClearFailures(a) \/ GiveUp(a)
  \/ ResetClears \/ PruneAttempts \/ LockoutTick

LockoutSpec == LockoutInit /\ [][LockoutNext]_lockoutVars
-----------------------------------------------------------------------------
RecentFailures == {k \in 1 .. Len(fails) : fails[k] > wall - LockoutTime}

(***************************************************************************)
(* The lockout does what it is for: in any stretch as long as the lockout  *)
(* no more than MaxFailures passwords are tried without success, apart     *)
(* from attempts that login_locked let through before the last of them was *)
(* recorded, and those are at most one for each other request in flight.   *)
(***************************************************************************)
FailuresPerWindow ==
  Cardinality(RecentFailures) <= MaxFailures + Cardinality(Attempt) - 1
=============================================================================
