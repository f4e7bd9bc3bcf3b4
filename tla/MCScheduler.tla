---------------------------- MODULE MCScheduler -----------------------------
(* Instances of Scheduler for TLC: who is dialled, who comes in, who gossips. *)
EXTENDS Scheduler, TLC

CONSTANTS a, b, c, i, p, A, B, C

\* Clients only.
Three == {a, b, c}
AddrThree == a :> A @@ b :> B @@ c :> C

\* One of each kind; PEX knows the inbound one, by the same address.
Each == {a, i, p}
AddrEach == a :> A @@ i :> C @@ p :> C

OnlyA == {a}
OnlyI == {i}
Nobody == {}
=============================================================================
