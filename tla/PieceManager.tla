---------------------------- MODULE PieceManager ----------------------------
(***************************************************************************)
(* The shared piece ledger of a download: internal/piece/manager.go.       *)
(*                                                                         *)
(* Every worker goroutine and the streaming reader operate on one          *)
(* PieceManager.  Each method of the Go type that holds pm.mu for its      *)
(* whole body is one action operator here; NextPiece, which releases the   *)
(* mutex between its priority scan and the selector it then calls, is the  *)
(* two operators ClaimPriority / NoPriority and Select / SelectNothing.    *)
(*                                                                         *)
(* Maps used as sets are sets; the rarest-first index                      *)
(* buckets[count][piece] is the set of pairs <<count, piece>>; byte counts *)
(* are counted in pieces.                                                  *)
(***************************************************************************)
EXTENDS Integers, FiniteSets, FiniteSetsExt

CONSTANTS TotalPieces,         \* tf.PieceCount()
          MaxRetries,          \* pm.MaxRetries
          StreamingMode,       \* pm.StreamingMode, set before the workers run
          StreamingWindowSize, \* pm.StreamingWindowSize
          Hosts                \* IP addresses without their port

ASSUME ManagerAssumption ==
    /\ TotalPieces \in Nat \ {0}
    /\ MaxRetries \in Nat
    /\ StreamingMode \in BOOLEAN
    /\ StreamingWindowSize \in Nat

Pieces == 0 .. TotalPieces - 1

VARIABLES Pending, InProgress, Completed, PermanentlyFailed, FailedAttempts,
          Downloaded, Availability, availabilitySum, buckets,
          PriorityPieces, BlacklistedPeers

ledger  == <<Pending, InProgress, Completed, PermanentlyFailed,
             FailedAttempts, Downloaded>>
rarity  == <<Availability, availabilitySum, buckets>>
pmVars  == <<ledger, rarity, PriorityPieces, BlacklistedPeers>>

-----------------------------------------------------------------------------
(* Construction, then the resume scan of the output file. *)

Entry(p) == <<Availability[p], p>>

\* NewPieceManager followed by LoadExistingState, which calls MarkComplete on
\* each piece of `verified`: the piece leaves the buckets but not Pending.
InitManager(verified) ==
    /\ Pending = Pieces
    /\ InProgress = {}
    /\ Completed = verified
    /\ PermanentlyFailed = {}
    /\ FailedAttempts = [p \in Pieces |-> 0]
    /\ Downloaded = Cardinality(verified)
    /\ Availability = [p \in Pieces |-> 0]
    /\ availabilitySum = 0
    /\ buckets = {<<0, p>> : p \in Pieces \ verified}
    /\ PriorityPieces = {}
    /\ BlacklistedPeers = {}

-----------------------------------------------------------------------------
(* The rarest-first index. *)

\* What ensureBucketsSync rebuilds: each pending piece under its availability.
Partition == {Entry(p) : p \in Pending}

SumAvailability == MapThenSumSet(LAMBDA p : Availability[p], Pieces)

\* Mutant of SyncedBuckets: nothing is ever rebuilt.
NeverRebuilt == buckets

\* The buckets as ensureBucketsSync leaves them: it compares two counters and
\* rebuilds only when one of them is off.
SyncedBuckets ==
    IF \/ Cardinality(buckets) # Cardinality(Pending)
       \/ SumAvailability # availabilitySum
    THEN Partition
    ELSE buckets

\* Mutant of Rebucket: the entry under the old count stays.
AddOnlyRebucket(bf, newCount) ==
    buckets \cup {<<newCount[p], p>> : p \in bf \cap Pending}

\* moveBucket for the pending pieces of bf, whose availability becomes
\* newCount: drop the entry under the old count, add one under the new.
Rebucket(bf, newCount) ==
    (buckets \ {Entry(p) : p \in bf \cap Pending})
        \cup {<<newCount[p], p>> : p \in bf \cap Pending}

RegisterPeerBitfield(bf) ==
    /\ Availability' = [p \in Pieces |-> IF p \in bf THEN Availability[p] + 1
                                                     ELSE Availability[p]]
    /\ availabilitySum' = availabilitySum + Cardinality(bf)
    /\ buckets' = Rebucket(bf, Availability')
    /\ UNCHANGED <<ledger, PriorityPieces, BlacklistedPeers>>

\* The count never goes below zero, and only a count that was above zero is
\* taken from the sum.
UnregisterPeerBitfield(bf) ==
    LET counted == {p \in bf : Availability[p] > 0} IN
    /\ Availability' = [p \in Pieces |-> IF p \in counted THEN Availability[p] - 1
                                                          ELSE Availability[p]]
    /\ availabilitySum' = IF availabilitySum < Cardinality(counted)
                          THEN 0
                          ELSE availabilitySum - Cardinality(counted)
    /\ buckets' = Rebucket(bf, Availability')
    /\ UNCHANGED <<ledger, PriorityPieces, BlacklistedPeers>>

-----------------------------------------------------------------------------
(* Choosing a piece for a peer that has the pieces of bf. *)

\* claimPiece, on the index as the caller has it.
claimPiece(p, index) ==
    /\ Pending' = Pending \ {p}
    /\ InProgress' = InProgress \cup {p}
    /\ buckets' = index \ {Entry(p)}
    /\ UNCHANGED <<Completed, PermanentlyFailed, FailedAttempts, Downloaded,
                   Availability, PriorityPieces, BlacklistedPeers>>

\* First half of NextPiece.  A piece the video stream asked for is claimed
\* unless it is completed: pending, in progress or given up alike.
Wanted(bf) == (PriorityPieces \ Completed) \cap bf

ClaimPriority(bf, p) ==
    /\ p \in Wanted(bf)
    /\ claimPiece(p, buckets)
    /\ UNCHANGED availabilitySum

NoPriority(bf) == Wanted(bf) = {} /\ UNCHANGED pmVars

\* The pieces the selector may return: with streaming on, the lowest pending
\* piece of the window; otherwise any piece of the lowest bucket the peer can
\* serve from (NextStreamingPiece falls back to the same loop).
Rarest(bf) ==
    LET served == {e \in SyncedBuckets : e[2] \in bf}
    IN  {e[2] : e \in {m \in served : \A n \in served : m[1] <= n[1]}}

InWindow(bf) == {p \in Pending \cap bf : p < StreamingWindowSize}

Selectable(bf) ==
    IF StreamingMode /\ InWindow(bf) # {}
    THEN {p \in InWindow(bf) : \A q \in InWindow(bf) : p <= q}
    ELSE Rarest(bf)

\* Second half of NextPiece: NextStreamingPiece or NextRarestPiece.
Select(bf, p) ==
    /\ p \in Selectable(bf)
    /\ claimPiece(p, SyncedBuckets)
    /\ availabilitySum' = SumAvailability

SelectNothing(bf) ==
    /\ Selectable(bf) = {}
    /\ buckets' = SyncedBuckets
    /\ availabilitySum' = SumAvailability
    /\ UNCHANGED <<ledger, Availability, PriorityPieces, BlacklistedPeers>>

SetPriorityPieces(indices) ==
    /\ PriorityPieces' = indices \cap Pieces
    /\ UNCHANGED <<ledger, rarity, BlacklistedPeers>>

-----------------------------------------------------------------------------
(* The outcomes of a claimed piece. *)

\* A second completion of the same piece only drops the claim.
MarkComplete(p) ==
    /\ InProgress' = InProgress \ {p}
    /\ \/ /\ p \in Completed
          /\ UNCHANGED <<Completed, Downloaded, buckets>>
       \/ /\ p \notin Completed
          /\ Completed' = Completed \cup {p}
          /\ Downloaded' = Downloaded + 1
          /\ buckets' = buckets \ {Entry(p)}
    /\ UNCHANGED <<Pending, PermanentlyFailed, FailedAttempts, Availability,
                   availabilitySum, PriorityPieces, BlacklistedPeers>>

ReturnToPending(p) ==
    /\ InProgress' = InProgress \ {p}
    /\ Pending' = Pending \cup {p}
    /\ buckets' = buckets \cup {Entry(p)}
    /\ UNCHANGED <<Completed, PermanentlyFailed, FailedAttempts, Downloaded,
                   Availability, availabilitySum, PriorityPieces,
                   BlacklistedPeers>>

\* Mutant of Exhausted: off by one.
ExhaustedTooSoon(p) == FailedAttempts[p] + 1 >= MaxRetries

\* MarkFailed returns FALSE, and gives the piece up, beyond MaxRetries.
Exhausted(p) == FailedAttempts[p] + 1 > MaxRetries

\* Mutant of MarkFailed: the piece to retry is not put back.
ForgetfulMarkFailed(p) ==
    /\ InProgress' = InProgress \ {p}
    /\ FailedAttempts' = [FailedAttempts EXCEPT ![p] = @ + 1]
    /\ PermanentlyFailed' = PermanentlyFailed \cup {q \in {p} : Exhausted(q)}
    /\ UNCHANGED <<Pending, buckets, Completed, Downloaded, Availability,
                   availabilitySum, PriorityPieces, BlacklistedPeers>>

MarkFailed(p) ==
    /\ InProgress' = InProgress \ {p}
    /\ FailedAttempts' = [FailedAttempts EXCEPT ![p] = @ + 1]
    /\ \/ /\ Exhausted(p)
          /\ PermanentlyFailed' = PermanentlyFailed \cup {p}
          /\ UNCHANGED <<Pending, buckets>>
       \/ /\ ~Exhausted(p)
          /\ Pending' = Pending \cup {p}
          /\ buckets' = buckets \cup {Entry(p)}
          /\ UNCHANGED PermanentlyFailed
    /\ UNCHANGED <<Completed, Downloaded, Availability, availabilitySum,
                   PriorityPieces, BlacklistedPeers>>

BlacklistPeer(host) ==
    /\ BlacklistedPeers' = BlacklistedPeers \cup {host}
    /\ UNCHANGED <<ledger, rarity, PriorityPieces>>

IsBlacklisted(host) == host \in BlacklistedPeers

IsComplete == PermanentlyFailed = {} /\ Cardinality(Completed) = TotalPieces

\* Mutant of NothingLeft: pieces other workers are fetching do not count.
NonePending == Pending = {}

NothingLeft == Pending = {} /\ InProgress = {}   \* Stats, as StartWorker reads it
=============================================================================
