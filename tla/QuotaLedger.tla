----------------------------- MODULE QuotaLedger -----------------------------
(***************************************************************************)
(* What a per-user quota promises: a note is booked against the limit in   *)
(* one step, before it exists, and the booking is given back when the note *)
(* goes or never comes to be.  Notes another user hands over are accepted  *)
(* whatever the limit says, and remembered.                                *)
(***************************************************************************)
EXTENDS Integers

CONSTANTS User, Limit

VARIABLES
  used,      \* per user: notes booked
  accepted   \* per user: notes that others have handed over

Init ==
  /\ used = [u \in User |-> 0]
  /\ accepted = [u \in User |-> 0]

Book(u) ==
  /\ used[u] < Limit
  /\ used' = [used EXCEPT ![u] = @ + 1]
  /\ UNCHANGED accepted

GiveBack(u) ==
  /\ used[u] > 0
  /\ used' = [used EXCEPT ![u] = @ - 1]
  /\ UNCHANGED accepted

HandOver(u, v) ==
  /\ u # v /\ used[u] > 0
  /\ used' = [used EXCEPT ![u] = @ - 1, ![v] = @ + 1]
  /\ accepted' = [accepted EXCEPT ![v] = @ + 1]

Next ==
  \/ \E u \in User : Book(u) \/ GiveBack(u)
  \/ \E u, v \in User : HandOver(u, v)

Spec == Init /\ [][Next]_<<used, accepted>>
=============================================================================
