---------------------------- MODULE RateLimiter ----------------------------
(***************************************************************************)
(* The token bucket of internal/util/rate_limiter.go: DownloadPiece waits  *)
(* for tokens before each request; a goroutine adds a tenth of the rate    *)
(* every 100 ms.  Steps are the critical sections of mu; cond.Wait leaves  *)
(* one and enters the next.                                                *)
(***************************************************************************)
EXTENDS Integers, FiniteSets

CONSTANTS Waiters,  \* goroutines that call Wait
          rate,     \* tokens per second
          Sizes     \* what they ask for

ASSUME LimiterAssumption ==
    /\ rate \in Nat /\ rate >= 10          \* Download passes multiples of 1024
    /\ Sizes \subseteq Nat \ {0}

VARIABLES tokens,
          capacity,
          stopped,    \* stopChan is closed
          refilling,  \* the refill goroutine runs
          pc,         \* "idle", "asleep" in cond.Wait, or "woken" and due to lock mu
          need,       \* tokens the call asks for
          burst       \* tokens granted beyond what was refilled meanwhile

vars == <<tokens, capacity, stopped, refilling, pc, need, burst>>

Refilled == rate \div 10

AtMost(a, b) == IF a > b THEN b ELSE a

Init ==
    /\ tokens = rate /\ capacity = rate
    /\ stopped = FALSE /\ refilling = TRUE
    /\ pc = [w \in Waiters |-> "idle"]
    /\ need = [w \in Waiters |-> 0]
    /\ burst = 0

\* Mutant of Broadcast: cond.Signal wakes one of them.
Signal ==
    IF \E w \in Waiters : pc[w] = "asleep"
    THEN \E w \in Waiters : pc[w] = "asleep" /\ pc' = [pc EXCEPT ![w] = "woken"]
    ELSE UNCHANGED pc

\* cond.Broadcast.
Broadcast == pc' = [w \in Waiters |-> IF pc[w] = "asleep" THEN "woken" ELSE pc[w]]

-----------------------------------------------------------------------------
(* Wait *)

\* The loop of Wait for n tokens: they are there, or the limiter was stopped
\* while they were not, or the caller goes to sleep.
Take(w, n) ==
    /\ tokens >= n
    /\ tokens' = tokens - n
    /\ burst' = burst + n
    /\ pc' = [pc EXCEPT ![w] = "idle"]

GiveUp(w, n) ==
    /\ tokens < n /\ stopped
    /\ pc' = [pc EXCEPT ![w] = "idle"]
    /\ UNCHANGED <<tokens, burst>>

Sleep(w, n) ==
    /\ tokens < n /\ ~stopped
    /\ pc' = [pc EXCEPT ![w] = "asleep"]
    /\ UNCHANGED <<tokens, burst>>

Try(w, n) == Take(w, n) \/ GiveUp(w, n) \/ Sleep(w, n)

\* Mutant of Wait: the bucket does not grow with the request.
WaitInSmallBucket(w) ==
    /\ pc[w] = "idle"
    /\ \E n \in Sizes : need' = [need EXCEPT ![w] = n] /\ Try(w, n)
    /\ UNCHANGED <<capacity, stopped, refilling>>

\* A call of Wait: the bucket is made large enough for the request.
Wait(w) ==
    /\ pc[w] = "idle"
    /\ \E n \in Sizes :
          /\ need' = [need EXCEPT ![w] = n]
          /\ capacity' = IF n > capacity THEN n ELSE capacity
          /\ Try(w, n)
    /\ UNCHANGED <<stopped, refilling>>

\* The caller was woken and has mu again.
Recheck(w) ==
    /\ pc[w] = "woken"
    /\ Try(w, need[w])
    /\ UNCHANGED <<capacity, stopped, refilling, need>>

-----------------------------------------------------------------------------
(* The refill goroutine, and Close *)

\* Mutant of Refill: the bucket overflows.
RefillUncapped ==
    /\ refilling
    /\ tokens' = tokens + Refilled
    /\ burst' = IF burst > Refilled THEN burst - Refilled ELSE 0
    /\ Broadcast
    /\ UNCHANGED <<capacity, stopped, refilling, need>>

\* A tick.  It may win over the closed stopChan.
Refill ==
    /\ refilling
    /\ tokens' = AtMost(tokens + Refilled, capacity)
    /\ burst' = IF burst > Refilled THEN burst - Refilled ELSE 0
    /\ Broadcast
    /\ UNCHANGED <<capacity, stopped, refilling, need>>

RefillStops ==
    /\ refilling /\ stopped
    /\ refilling' = FALSE
    /\ UNCHANGED <<tokens, capacity, stopped, pc, need, burst>>

Close ==
    /\ stopped' = TRUE
    /\ Broadcast
    /\ UNCHANGED <<tokens, capacity, refilling, need, burst>>

-----------------------------------------------------------------------------
Next ==
    \/ \E w \in Waiters : Wait(w) \/ Recheck(w)
    \/ Refill \/ RefillStops \/ Close

Spec == Init /\ [][Next]_vars

\* The ticker ticks and mu is handed on.  Nobody has to call Wait or Close.
Fairness ==
    /\ WF_vars(Refill \/ RefillStops)
    /\ \A w \in Waiters : WF_vars(Recheck(w))

LiveSpec == Spec /\ Fairness

-----------------------------------------------------------------------------
(* Safety. *)

TypeOK ==
    /\ tokens \in Nat /\ capacity \in Nat /\ burst \in Nat
    /\ stopped \in BOOLEAN /\ refilling \in BOOLEAN
    /\ pc \in [Waiters -> {"idle", "asleep", "woken"}]
    /\ need \in [Waiters -> Nat]
    /\ \A w \in Waiters : pc[w] # "idle" => need[w] <= capacity

\* However the calls interleave with the ticks, and however the bucket has grown:
\* over any number of ticks no more is granted than their refills and one full
\* bucket, which is a second's worth or the largest request.
RateBound == burst <= rate \/ \E n \in Sizes : burst <= n

\* A caller sleeps only while the bucket cannot serve it and the limiter runs:
\* no wakeup is lost between the check and cond.Wait.
NoLostWakeup ==
    \A w \in Waiters : pc[w] = "asleep" => tokens < need[w] /\ ~stopped

-----------------------------------------------------------------------------
(* Liveness. *)

\* Callers never all wait for each other: while one of them waits, somebody is
\* granted tokens again and again, until the limiter is closed; so a request is
\* served, however large, unless others take every refill.
SomeoneIsServed ==
    <>[](~stopped /\ \E w \in Waiters : pc[w] # "idle") => []<><<tokens' < tokens>>_vars
=============================================================================
