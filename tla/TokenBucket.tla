----------------------------- MODULE TokenBucket -----------------------------
(***************************************************************************)
(* What the rate limiter promises each address: a bucket of Capacity units *)
(* that earns one unit per tick and pays Cost units for a request that is  *)
(* let through.  The clock a request is judged by may be up to Slack ticks *)
(* old, which can cost it an answer or earn the bucket some credit, never  *)
(* more than Slack units of it.  There is no memory to manage: the address *)
(* always has its bucket.                                                  *)
(***************************************************************************)
EXTENDS Integers

CONSTANTS Address, NoAddress, Capacity, Cost, Slack

VARIABLES
  level,   \* units in the bucket of each address
  answer   \* the address last asked about and whether it was let through

Fill(n) == IF n > Capacity THEN Capacity ELSE n

Init ==
  /\ level = [k \in Address |-> Capacity]
  /\ answer = <<NoAddress, TRUE>>

Tick ==
  /\ level' = [k \in Address |-> Fill(level[k] + 1)]
  /\ UNCHANGED answer

Allow(k, credit) ==
  /\ level[k] >= Cost
  /\ level' = [level EXCEPT ![k] = Fill(level[k] - Cost + credit)]
  /\ answer' = <<k, TRUE>>

Refuse(k, credit) ==
  /\ level[k] < Cost + Slack
  /\ level' = [level EXCEPT ![k] = Fill(level[k] + credit)]
  /\ answer' = <<k, FALSE>>

Next ==
  \/ Tick
  \/ \E k \in Address, credit \in 0 .. Slack : Allow(k, credit) \/ Refuse(k, credit)

Spec == Init /\ [][Next]_<<level, answer>>
=============================================================================
