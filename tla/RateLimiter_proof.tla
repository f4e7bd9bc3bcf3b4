-------------------------- MODULE RateLimiter_proof --------------------------
(***************************************************************************)
(* Proofs about RateLimiter, for any rate, requests and number of callers. *)
(***************************************************************************)
EXTENDS RateLimiter, TLAPS

\* What was granted in excess is missing in the bucket, which is as large as a
\* second's worth or as a request.
Conserved ==
    /\ burst + tokens <= capacity
    /\ capacity = rate \/ capacity \in Sizes

IndInv == TypeOK /\ NoLostWakeup /\ Conserved

\* A tenth of the rate is a positive number.
LEMMA RefilledType == Refilled \in Nat
  BY LimiterAssumption DEF Refilled

\* The first state of the limiter is a full bucket.
LEMMA InvInit == Init => IndInv
<1> SUFFICES ASSUME Init PROVE IndInv
  OBVIOUS
<1>1. stopped \in BOOLEAN /\ refilling \in BOOLEAN
  BY DEF Init
<1>2. /\ tokens \in Nat /\ capacity \in Nat /\ burst \in Nat
      /\ burst + tokens <= capacity /\ capacity = rate
  BY LimiterAssumption DEF Init
<1>3. /\ pc \in [Waiters -> {"idle", "asleep", "woken"}]
      /\ need \in [Waiters -> Nat]
      /\ \A w \in Waiters : pc[w] = "idle"
  BY DEF Init
<1> QED
  BY <1>1, <1>2, <1>3 DEF IndInv, TypeOK, NoLostWakeup, Conserved

\* The loop of Wait takes what is there, or sleeps only if it is not.
LEMMA TryStep ==
    ASSUME IndInv, NEW w \in Waiters, NEW n \in Nat, NEW cap \in Nat, Try(w, n),
           n <= cap, capacity <= cap, UNCHANGED stopped,
           need' = [need EXCEPT ![w] = n]
    PROVE  /\ tokens' \in Nat /\ burst' \in Nat /\ burst' + tokens' <= cap
           /\ pc' \in [Waiters -> {"idle", "asleep", "woken"}]
           /\ need' \in [Waiters -> Nat]
           /\ \A v \in Waiters : pc'[v] # "idle" => need'[v] <= cap
           /\ NoLostWakeup'
<1>1. /\ tokens \in Nat /\ burst \in Nat /\ capacity \in Nat
      /\ pc \in [Waiters -> {"idle", "asleep", "woken"}] /\ need \in [Waiters -> Nat]
      /\ \A v \in Waiters : pc[v] # "idle" => need[v] <= capacity
      /\ burst + tokens <= capacity
  BY DEF IndInv, TypeOK, Conserved
<1>2. /\ need' \in [Waiters -> Nat] /\ need'[w] = n
      /\ \A v \in Waiters \ {w} : need'[v] = need[v]
  BY <1>1
<1>6. /\ tokens' \in Nat /\ burst' \in Nat
      /\ burst' + tokens' <= cap /\ tokens' <= tokens
  <2>1. burst + tokens <= cap
    BY <1>1
  <2> QED
    BY <1>1, <2>1 DEF Try, Take, GiveUp, Sleep
<1>3. /\ pc' \in [Waiters -> {"idle", "asleep", "woken"}]
      /\ \A v \in Waiters \ {w} : pc'[v] = pc[v]
      /\ pc'[w] = "idle" \/ (pc'[w] = "asleep" /\ tokens' < n /\ ~stopped')
  BY <1>1 DEF Try, Take, GiveUp, Sleep
<1>4. NoLostWakeup'
  <2> SUFFICES ASSUME NEW v \in Waiters, pc'[v] = "asleep"
               PROVE  tokens' < need'[v] /\ ~stopped'
    BY DEF NoLostWakeup
  <2>1. CASE v = w
    BY <1>2, <1>3, <2>1
  <2>2. CASE v # w
    <3>1. tokens < need[v] /\ ~stopped
      BY <1>3, <2>2 DEF IndInv, NoLostWakeup
    <3>2. need'[v] = need[v] /\ need[v] \in Nat /\ tokens' <= tokens /\ tokens' \in Nat
      BY <1>1, <1>2, <1>6, <2>2
    <3>3. tokens' < need'[v]
      BY <1>1, <3>1, <3>2
    <3> QED
      BY <3>1, <3>3
  <2> QED
    BY <2>1, <2>2
<1>5. \A v \in Waiters : pc'[v] # "idle" => need'[v] <= cap
  BY <1>1, <1>2, <1>3
<1> QED
  BY <1>2, <1>3, <1>4, <1>5, <1>6

\* Every step keeps the bucket's account and wakes whoever it could serve.
LEMMA InvStep == IndInv /\ [Next]_vars => IndInv'
<1> SUFFICES ASSUME IndInv, [Next]_vars PROVE IndInv'
  OBVIOUS
<1> USE LimiterAssumption
<1>1. /\ tokens \in Nat /\ burst \in Nat /\ capacity \in Nat
      /\ stopped \in BOOLEAN /\ refilling \in BOOLEAN
      /\ pc \in [Waiters -> {"idle", "asleep", "woken"}] /\ need \in [Waiters -> Nat]
      /\ \A v \in Waiters : pc[v] # "idle" => need[v] <= capacity
      /\ burst + tokens <= capacity
      /\ capacity = rate \/ capacity \in Sizes
  BY DEF IndInv, TypeOK, Conserved
<1>2. ASSUME NEW w \in Waiters, Wait(w) PROVE IndInv'
  <2>1. PICK n \in Sizes : /\ need' = [need EXCEPT ![w] = n]
                           /\ capacity' = IF n > capacity THEN n ELSE capacity
                           /\ Try(w, n)
    BY <1>2 DEF Wait
  <2>2. /\ n \in Nat /\ capacity' \in Nat /\ n <= capacity' /\ capacity <= capacity'
        /\ capacity' = rate \/ capacity' \in Sizes
        /\ UNCHANGED <<stopped, refilling>>
    BY <1>1, <1>2, <2>1 DEF Wait
  <2>3. /\ tokens' \in Nat /\ burst' \in Nat /\ burst' + tokens' <= capacity'
        /\ pc' \in [Waiters -> {"idle", "asleep", "woken"}]
        /\ need' \in [Waiters -> Nat]
        /\ \A v \in Waiters : pc'[v] # "idle" => need'[v] <= capacity'
        /\ NoLostWakeup'
    BY <2>1, <2>2, TryStep
  <2> QED
    BY <1>1, <2>2, <2>3 DEF IndInv, TypeOK, Conserved
<1>3. ASSUME NEW w \in Waiters, Recheck(w) PROVE IndInv'
  <2>1. /\ Try(w, need[w]) /\ need' = [need EXCEPT ![w] = need[w]]
        /\ UNCHANGED <<capacity, stopped, refilling>>
        /\ need[w] \in Nat /\ need[w] <= capacity
        /\ capacity \in Nat /\ capacity <= capacity
    BY <1>1, <1>3 DEF Recheck
  <2>2. /\ tokens' \in Nat /\ burst' \in Nat /\ burst' + tokens' <= capacity
        /\ pc' \in [Waiters -> {"idle", "asleep", "woken"}]
        /\ need' \in [Waiters -> Nat]
        /\ \A v \in Waiters : pc'[v] # "idle" => need'[v] <= capacity
        /\ NoLostWakeup'
    BY <2>1, TryStep, Zenon
  <2> QED
    BY <1>1, <2>1, <2>2 DEF IndInv, TypeOK, Conserved
<1>4. CASE Refill
  <2>1. /\ tokens' \in Nat /\ burst' \in Nat /\ burst' + tokens' <= capacity
        /\ UNCHANGED <<capacity, stopped, refilling, need>>
    BY <1>1, <1>4, RefilledType DEF Refill, AtMost
  <2>2. /\ pc' \in [Waiters -> {"idle", "asleep", "woken"}]
        /\ \A v \in Waiters : pc'[v] # "asleep" /\ (pc'[v] = "idle" <=> pc[v] = "idle")
    BY <1>1, <1>4 DEF Refill, Broadcast
  <2> QED
    BY <1>1, <2>1, <2>2 DEF IndInv, TypeOK, Conserved, NoLostWakeup
<1>5. CASE RefillStops
  BY <1>1, <1>5 DEF RefillStops, IndInv, TypeOK, Conserved, NoLostWakeup
<1>6. CASE Close
  <2>1. /\ pc' \in [Waiters -> {"idle", "asleep", "woken"}]
        /\ \A v \in Waiters : pc'[v] # "asleep" /\ (pc'[v] = "idle" <=> pc[v] = "idle")
    BY <1>1, <1>6 DEF Close, Broadcast
  <2> QED
    BY <1>1, <1>6, <2>1 DEF Close, IndInv, TypeOK, Conserved, NoLostWakeup
<1>7. CASE UNCHANGED vars
  BY <1>1, <1>7 DEF vars, IndInv, TypeOK, Conserved, NoLostWakeup
<1> QED
  BY <1>2, <1>3, <1>4, <1>5, <1>6, <1>7 DEF Next

LEMMA Inductive == Spec => []IndInv
  BY InvInit, InvStep, PTL DEF Spec

\* The bucket and its callers are well typed.
THEOREM LimiterTypes == Spec => []TypeOK
  BY Inductive, PTL DEF IndInv

\* Over any number of ticks no more is granted than their refills and one full
\* bucket: what is granted beyond the refills is missing in the bucket.
THEOREM RateIsBounded == Spec => []RateBound
<1>1. IndInv => RateBound
  <2> SUFFICES ASSUME IndInv PROVE RateBound
    OBVIOUS
  <2>1. /\ burst \in Nat /\ tokens \in Nat /\ burst + tokens <= capacity
        /\ capacity = rate \/ capacity \in Sizes
    BY DEF IndInv, TypeOK, Conserved
  <2>2. CASE capacity = rate
    BY <2>1, <2>2, LimiterAssumption DEF RateBound
  <2>3. CASE capacity \in Sizes
    <3>1. burst <= capacity
      BY <2>1, <2>3, LimiterAssumption
    <3> QED
      BY <2>3, <3>1 DEF RateBound
  <2> QED
    BY <2>1, <2>2, <2>3
<1> QED
  BY <1>1, Inductive, PTL

\* Nobody sleeps whom the bucket could serve, or after Close.
THEOREM WakeupsAreKept == Spec => []NoLostWakeup
  BY Inductive, PTL DEF IndInv

\* The limiter refills until it is stopped.
Refills == refilling \/ stopped

\* A sleeper is owed a wakeup: the bucket has room for what it waits for, and
\* the goroutine that fills the bucket, by something each time, still runs
\* (rate_limiter.go:60 and :37).
SleepersCanBeServed ==
    \A w \in Waiters : pc[w] = "asleep" =>
        need[w] <= capacity /\ refilling /\ Refilled > 0

\* Nobody sleeps for more than the bucket will ever hold, or when no one refills
\* it any more: the part of SomeoneIsServed that is safety.
THEOREM NobodySleepsForEver == Spec => []SleepersCanBeServed
<1>1. Init => Refills
  BY DEF Init, Refills
<1>2. Refills /\ [Next]_vars => Refills'
  BY DEF Refills, Next, Wait, Recheck, Refill, RefillStops, Close, vars
<1>3. IndInv /\ Refills => SleepersCanBeServed
  <2>1. Refilled > 0
    BY LimiterAssumption DEF Refilled
  <2> QED
    BY <2>1 DEF IndInv, TypeOK, NoLostWakeup, Refills, SleepersCanBeServed
<1> QED
  BY <1>1, <1>2, <1>3, Inductive, PTL DEF Spec
=============================================================================
