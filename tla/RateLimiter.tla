----------------------------- MODULE RateLimiter -----------------------------
(***************************************************************************)
(* The token buckets of ratelimit.rs and the middleware that asks them.    *)
(*                                                                         *)
(* rate_limit_mw reads the clock and then waits for the mutex of the       *)
(* buckets, so requests may enter check in another order than they read    *)
(* the clock in: Arrive and Check are separate steps.  check itself holds  *)
(* the mutex throughout and is one step, the sweep of idle buckets it may  *)
(* do included.                                                            *)
(*                                                                         *)
(* Time is counted in ticks in which a bucket earns one unit, and a request*)
(* costs Cost units: capacity is RATE_LIMIT_PER_MIN requests and the rate  *)
(* a sixtieth of it per second, so Capacity ticks are the 60 s it takes to *)
(* fill.  Abstracted: the rounding of f64, and RATE_LIMIT_PER_MIN = 0,     *)
(* which lets everything through.                                          *)
(***************************************************************************)
EXTENDS Integers

CONSTANTS
  Call,            \* requests between their clock reading and their answer
  Address,         \* client IP addresses
  NoAddress,       \* the address of a call slot that is free
  Capacity,        \* units of a full bucket
  Cost,            \* units a request pays
  SweepInterval,   \* SWEEP_INTERVAL
  Slack,           \* bound: ticks a request waits for the mutex
  MaxClock         \* bound: the clock

ASSUME LimiterAssumption ==
  /\ Capacity \in Nat /\ Cost \in Nat \ {0} /\ Cost <= Capacity
  /\ SweepInterval \in Nat \ {0}
  /\ Slack \in Nat /\ Slack < Capacity
  /\ NoAddress \notin Address

VARIABLES
  clock,       \* Instant::now()
  held,        \* the addresses in LimiterState::buckets
  tokens,      \* Bucket::tokens
  refilled,    \* Bucket::last_refill
  lastSweep,   \* LimiterState::last_sweep
  from,        \* per call: the address it comes from
  stamp,       \* per call: the clock it has read
  answered     \* history: the last address asked about and its answer

bucketVars == <<held, tokens, refilled, lastSweep>>
callVars == <<from, stamp>>
limiterVars == <<clock, bucketVars, callVars, answered>>

LimiterInit ==
  /\ clock = 0
  /\ held = {}
  /\ tokens = [k \in Address |-> 0]
  /\ refilled = [k \in Address |-> 0]
  /\ lastSweep = 0
  /\ from = [c \in Call |-> NoAddress]
  /\ stamp = [c \in Call |-> 0]
  /\ answered = <<NoAddress, TRUE>>

AtMostFull(n) == IF n > Capacity THEN Capacity ELSE n

(* Instant::saturating_duration_since. *)
Since(now, then) == IF now > then THEN now - then ELSE 0

(* The bucket check works on: a new one is full. *)
ProjectedTokens(k, now) ==
  IF k \in held THEN AtMostFull(tokens[k] + Since(now, refilled[k])) ELSE Capacity

Enough(k, now) == ProjectedTokens(k, now) >= Cost
TokensLeft(k, now) ==
  IF Enough(k, now) THEN ProjectedTokens(k, now) - Cost ELSE ProjectedTokens(k, now)

SweepDue(now) == Since(now, lastSweep) >= SweepInterval

(* Mutant: the sweep drops a bucket that is one unit short of full. *)
IdleAlmost(k, now) == tokens'[k] + Since(now, refilled'[k]) >= Capacity - 1
(* What retain drops, of the buckets as this call leaves them. *)
Idle(k, now) == tokens'[k] + Since(now, refilled'[k]) >= Capacity

Arrive(c, k) ==
  /\ from[c] = NoAddress
  /\ from' = [from EXCEPT ![c] = k]
  /\ stamp' = [stamp EXCEPT ![c] = clock]
  /\ UNCHANGED <<clock, bucketVars, answered>>

(* Mutant: the sweep keeps every bucket. *)
SweepNothing(k, now) ==
  /\ held' = held \cup {k}
  /\ lastSweep' = IF SweepDue(now) THEN now ELSE lastSweep
Sweep(k, now) ==
  IF SweepDue(now)
  THEN /\ held' = {h \in held \cup {k} : ~Idle(h, now)}
       /\ lastSweep' = now
  ELSE /\ held' = held \cup {k}
       /\ UNCHANGED lastSweep

Check(c) ==
  LET k == from[c]
      now == stamp[c] IN
  /\ k # NoAddress
  /\ tokens' = [tokens EXCEPT ![k] = TokensLeft(k, now)]
  /\ refilled' = [refilled EXCEPT ![k] = now]
  /\ Sweep(k, now)
  /\ answered' = <<k, Enough(k, now)>>
  /\ from' = [from EXCEPT ![c] = NoAddress]
  /\ stamp' = [stamp EXCEPT ![c] = 0]
  /\ UNCHANGED clock

LimiterTick ==
  /\ clock < MaxClock
  /\ \A c \in Call : from[c] # NoAddress => clock - stamp[c] < Slack
  /\ clock' = clock + 1
  /\ UNCHANGED <<bucketVars, callVars, answered>>

LimiterNext ==
  \/ \E c \in Call, k \in Address : Arrive(c, k)
  \/ \E c \in Call : Check(c)
  \/ LimiterTick

LimiterSpec == LimiterInit /\ [][LimiterNext]_limiterVars
-----------------------------------------------------------------------------
(***************************************************************************)
(* The limiter keeps the promise of TokenBucket although it forgets        *)
(* buckets, refills them only when asked and judges by clocks read before  *)
(* the mutex: what an address has is its projected tokens now, and a full  *)
(* bucket when check has none for it.                                      *)
(***************************************************************************)
Available == [k \in Address |-> ProjectedTokens(k, clock)]

Promise == INSTANCE TokenBucket WITH level <- Available, answer <- answered
KeepsPromise == Promise!Spec

(***************************************************************************)
(* Memory follows the traffic: once a request has come SWEEP_INTERVAL and  *)
(* the time of a full refill after a bucket's last use, check has dropped  *)
(* the bucket.  The only buckets kept longer are those nobody's request    *)
(* gives the sweep a chance to see.                                        *)
(***************************************************************************)
IdleBucketsGo ==
  \A k, h \in held : refilled[k] - refilled[h] < Capacity + SweepInterval
=============================================================================
