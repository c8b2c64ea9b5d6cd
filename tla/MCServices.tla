----------------------------- MODULE MCServices -----------------------------
(***************************************************************************)
(* The services around editing and syncing, each on a small instance: the  *)
(* account, the login lockout, the rate limiter, the two quotas, presence  *)
(* and re-encryption.  They share no state, so an interleaving of their    *)
(* steps shows nothing that the behaviours of each do not: part, chosen at *)
(* the start, is the service whose behaviours are explored.                *)
(***************************************************************************)
EXTENDS Accounts, LoginLockout, RateLimiter, NoteQuota, BlobQuota, Presence,
        Reencrypt, TLC

CONSTANTS r1, r2, d1, d2, a1, a2, a3, k1, k2, ip1, ip2, u1, u2, c1, c2, c3,
          p1, p2, b1, b2, i1, i2, w1, t1, t2, none

VARIABLE part

(* Rows of different connections do not meet: one is enough, on one of the *)
(* two instances that sweep.                                               *)
MCHome == [w \in Connection |-> i1]

(* The largest of the services decides what is worth permuting. *)
Interchangeable == Permutations(Request) \cup Permutations(Device)

servicesVars ==
  <<accountVars, lockoutVars, limiterVars, noteQuotaVars, blobQuotaVars,
    presenceVars, reencryptVars>>

ServicesInit ==
  /\ part \in {"accounts", "lockout", "limiter", "notes", "blobs", "presence",
               "reencrypt"}
  /\ AccountsInit /\ LockoutInit /\ LimiterInit /\ NoteQuotaInit
  /\ BlobQuotaInit /\ PresenceInit /\ ReencryptInit
  /\ part # "presence" => \A i \in Instance : due[i] = 0

ServicesNext ==
  /\ UNCHANGED part
  /\ \/ /\ part = "accounts" /\ AccountsNext
        /\ UNCHANGED <<lockoutVars, limiterVars, noteQuotaVars,
                       blobQuotaVars, presenceVars, reencryptVars>>
     \/ /\ part = "lockout" /\ LockoutNext
        /\ UNCHANGED <<accountVars, limiterVars, noteQuotaVars,
                       blobQuotaVars, presenceVars, reencryptVars>>
     \/ /\ part = "limiter" /\ LimiterNext
        /\ UNCHANGED <<accountVars, lockoutVars, noteQuotaVars,
                       blobQuotaVars, presenceVars, reencryptVars>>
     \/ /\ part = "notes" /\ NoteQuotaNext
        /\ UNCHANGED <<accountVars, lockoutVars, limiterVars,
                       blobQuotaVars, presenceVars, reencryptVars>>
     \/ /\ part = "blobs" /\ BlobQuotaNext
        /\ UNCHANGED <<accountVars, lockoutVars, limiterVars,
                       noteQuotaVars, presenceVars, reencryptVars>>
     \/ /\ part = "presence" /\ PresenceNext
        /\ UNCHANGED <<accountVars, lockoutVars, limiterVars,
                       noteQuotaVars, blobQuotaVars, reencryptVars>>
     \/ /\ part = "reencrypt" /\ ReencryptNext
        /\ UNCHANGED <<accountVars, lockoutVars, limiterVars,
                       noteQuotaVars, blobQuotaVars, presenceVars>>

ServicesSpec == ServicesInit /\ [][ServicesNext]_<<part, servicesVars>>
=============================================================================
