---------------------------- MODULE Workers_proof ----------------------------
(***************************************************************************)
(* Theorems about Workers, for any number of pieces, connections and       *)
(* addresses, any bitfields, answers, resume state and stream requests.    *)
(***************************************************************************)
EXTENDS Workers, TLAPS, FiniteSetTheorems

\* The control states of a worker.
States == {"absent", "dialing", "start", "loop", "next", "select", "stats",
           "wait", "download", "ban", "write", "complete", "check", "exit", "gone"}

\* The mark of a worker without a piece is not the index of one.
LEMMA NoPieceIsNoPiece == NoPiece \notin Pieces
BY ManagerAssumption DEF NoPiece, Pieces

\* A jump of the program counter keeps it in its type and moves one worker.
LEMMA GotoType ==
    ASSUME TypeOK, NEW w \in Conns, NEW from, NEW to \in States, Goto(w, from, to)
    PROVE  /\ pc' \in [Conns -> States]
           /\ pc[w] = from /\ pc'[w] = to
           /\ \A v \in Conns \ {w} : pc'[v] = pc[v]
BY DEF TypeOK, Goto, States

\* The initial states, resumed ones included, are well typed.
LEMMA InitTypeOK == Init => TypeOK
<1> SUFFICES ASSUME Init PROVE TypeOK
  OBVIOUS
<1>1. PICK verified \in ResumeSets : InitManager(verified) /\ accepted = verified
  BY DEF Init
<1>2. verified \subseteq Pieces /\ Downloaded \in Nat
  <2>1. verified \subseteq Pieces
    BY WorkersAssumption
  <2>2. IsFiniteSet(Pieces)
    BY FS_Interval, ManagerAssumption DEF Pieces
  <2>3. IsFiniteSet(verified)
    BY <2>1, <2>2, FS_Subset
  <2> QED
    BY <1>1, <2>1, <2>3, FS_CardinalityType DEF InitManager
<1>3. Bitfield \in [Conns -> SUBSET Pieces]
  BY DEF Init
<1>4. buckets \subseteq Nat \X Pieces
  BY <1>1 DEF InitManager
<1> QED
  BY <1>1, <1>2, <1>3, <1>4, NoPieceIsNoPiece
     DEF TypeOK, InitManager, Init, Holding

\* The pieces a selector can return are pending pieces of the peer.
LEMMA SelectableIsPiece ==
    ASSUME TypeOK, NEW bf \in SUBSET Pieces
    PROVE  Partition \subseteq Nat \X Pieces /\ SyncedBuckets \subseteq Nat \X Pieces
BY DEF TypeOK, Partition, SyncedBuckets, Entry

\* Every step keeps the types.
LEMMA StepTypeOK == TypeOK /\ [Next]_vars => TypeOK'
<1> SUFFICES ASSUME TypeOK, [Next]_vars PROVE TypeOK'
  OBVIOUS
<1> USE DEF TypeOK
<1>1. ASSUME NEW w \in Conns, Worker(w) PROVE TypeOK'
  <2>1. CASE Register(w)
    BY <2>1 DEF Register, RegisterPeerBitfield, Goto, Rebucket, Entry, Holding, ledger, envVars
  <2>2. CASE CheckContext(w)
    BY <2>2 DEF CheckContext, Goto, Holding, pmVars, ledger, rarity, envVars
  <2>3. CASE NextPriority(w)
    BY <2>3, NoPieceIsNoPiece
       DEF NextPriority, ClaimPriority, claimPiece, TakePiece, Goto, Holding, envVars
  <2>4. CASE NextNoPriority(w)
    BY <2>4 DEF NextNoPriority, NoPriority, Goto, Holding, pmVars, ledger, rarity, envVars
  <2>5. CASE SelectPiece(w)
    BY <2>5, NoPieceIsNoPiece, SelectableIsPiece
       DEF SelectPiece, Select, claimPiece, TakePiece, Goto, Holding, envVars
  <2>6. CASE SelectFails(w)
    BY <2>6, SelectableIsPiece
       DEF SelectFails, SelectNothing, Goto, Holding, ledger, envVars
  <2>7. CASE ReadStats(w)
    BY <2>7 DEF ReadStats, Goto, Holding, pmVars, ledger, rarity, envVars
  <2>8. CASE WaitASecond(w)
    BY <2>8 DEF WaitASecond, Goto, Holding, pmVars, ledger, rarity, envVars
  <2>9. CASE Downloads(w)
    BY <2>9 DEF Downloads, Goto, Holding, pmVars, ledger, rarity, envVars
  <2>10. CASE DownloadFails(w)
    BY <2>10, NoPieceIsNoPiece
       DEF DownloadFails, ReturnToPending, Drop, Goto, Holding, Entry, envVars
  <2>11. CASE VerifyFails(w)
    BY <2>11, NoPieceIsNoPiece
       DEF VerifyFails, MarkFailed, Exhausted, Drop, Goto, Holding, Entry, envVars
  <2>12. CASE Ban(w)
    <3>1. Host[w] \in Hosts
      BY WorkersAssumption
    <3> QED
      BY <2>12, <3>1 DEF Ban, BlacklistPeer, Goto, Holding, ledger, rarity, envVars
  <2>13. CASE WritePiece(w)
    BY <2>13 DEF WritePiece, Goto, Holding, pmVars, ledger, rarity
  <2>14. CASE WriteFails(w)
    BY <2>14, NoPieceIsNoPiece
       DEF WriteFails, MarkFailed, Exhausted, Drop, Goto, Holding, Entry, envVars
  <2>15. CASE Complete(w)
    BY <2>15, NoPieceIsNoPiece DEF Complete, MarkComplete, Drop, Goto, Holding, envVars
  <2>16. CASE CheckComplete(w)
    BY <2>16 DEF CheckComplete, IsComplete, Goto, Holding, pmVars, ledger, rarity
  <2>17. CASE Unregister(w)
    <3>1. Availability' \in [Pieces -> Nat]
      BY <2>17 DEF Unregister, UnregisterPeerBitfield
    <3>2. buckets' \subseteq Nat \X Pieces
      BY <2>17, <3>1 DEF Unregister, UnregisterPeerBitfield, Rebucket
    <3> QED
      BY <2>17, <3>1, <3>2
         DEF Unregister, UnregisterPeerBitfield, Goto, Holding, ledger, envVars
  <2> QED
    BY <1>1, <2>1, <2>2, <2>3, <2>4, <2>5, <2>6, <2>7, <2>8, <2>9, <2>10,
       <2>11, <2>12, <2>13, <2>14, <2>15, <2>16, <2>17 DEF Worker, Fetch
<1>2. ASSUME NEW w \in Conns, Dial(w) \/ DialEnds(w) \/ Accept(w) PROVE TypeOK'
  BY <1>2 DEF Dial, DialEnds, Accept, Goto, Holding, pmVars, ledger, rarity, envVars
<1>3. ASSUME NEW w \in Conns, NEW p \in Pieces, HandleHave(w, p) PROVE TypeOK'
  BY <1>3 DEF HandleHave, Holding, pmVars, ledger, rarity, envVars
<1>4. ASSUME NEW S \in PrioritySets, Seek(S) PROVE TypeOK'
  BY <1>4 DEF Seek, SetPriorityPieces, Holding, ledger, rarity, workerVars, envVars
<1>5. CASE CloseAll \/ DiskFails \/ Cancel
  BY <1>5 DEF CloseAll, DiskFails, Cancel, Live, Holding, pmVars, ledger, rarity, workerVars
<1>6. CASE UNCHANGED vars
  BY <1>6 DEF vars, pmVars, ledger, rarity, workerVars, envVars, Holding
<1> QED
  BY <1>1, <1>2, <1>3, <1>4, <1>5, <1>6 DEF Next, Environment

(***************************************************************************)
(* Every variable keeps its type; in particular no lookup in the ledger or *)
(* the index (buckets, attempts, held) ever meets a piece out of range.    *)
(***************************************************************************)
THEOREM TypeCorrect == Spec => []TypeOK
BY InitTypeOK, StepTypeOK, PTL DEF Spec

-----------------------------------------------------------------------------
(* The accounting of the pieces. *)

\* Initially nothing is in progress and nobody holds a piece.
LEMMA InitAccounting == Init => EveryPieceAccounted
<1> SUFFICES ASSUME Init PROVE EveryPieceAccounted
  OBVIOUS
<1>1. PICK verified \in ResumeSets : InitManager(verified)
  BY DEF Init
<1>2. verified \subseteq Pieces
  BY WorkersAssumption
<1> QED
  BY <1>1, <1>2
     DEF EveryPieceAccounted, NoneMissing, InProgressIsHeld, InitManager

\* claimPiece moves one piece to InProgress, and its worker holds it.
LEMMA ClaimAccounting ==
    ASSUME TypeOK, EveryPieceAccounted, NEW w \in Conns, NEW p \in Pieces, NEW index,
           claimPiece(p, index), TakePiece(w, p), ~Holding(w)
    PROVE  EveryPieceAccounted'
<1>1. NoneMissing'
  BY DEF EveryPieceAccounted, NoneMissing, claimPiece
<1>2. held[w] \notin Pieces
  BY DEF TypeOK
<1>3. InProgressIsHeld'
  BY <1>2 DEF TypeOK, EveryPieceAccounted, InProgressIsHeld, claimPiece, TakePiece
<1> QED
  BY <1>1, <1>3 DEF EveryPieceAccounted

\* The three ways a worker ends its claim file the piece somewhere, and leave
\* it out of InProgress even when another worker fetches it too.
LEMMA ReleaseAccounting ==
    ASSUME TypeOK, EveryPieceAccounted, NEW w \in Conns, Holding(w), Drop(w),
           \/ MarkComplete(held[w])
           \/ ReturnToPending(held[w])
           \/ MarkFailed(held[w])
    PROVE  EveryPieceAccounted'
<1>1. held[w] \in Pieces
  BY DEF TypeOK
<1>2. NoneMissing'
  <2>1. CASE MarkComplete(held[w])
    BY <1>1, <2>1 DEF EveryPieceAccounted, NoneMissing, MarkComplete
  <2>2. CASE ReturnToPending(held[w])
    BY <1>1, <2>2 DEF EveryPieceAccounted, NoneMissing, ReturnToPending
  <2>3. CASE MarkFailed(held[w])
    BY <1>1, <2>3 DEF EveryPieceAccounted, NoneMissing, MarkFailed
  <2> QED
    BY <2>1, <2>2, <2>3
<1>3. InProgress' = InProgress \ {held[w]}
  BY DEF MarkComplete, ReturnToPending, MarkFailed
<1>4. InProgressIsHeld'
  BY <1>3 DEF TypeOK, EveryPieceAccounted, InProgressIsHeld, Drop
<1> QED
  BY <1>2, <1>4 DEF EveryPieceAccounted

\* A step that touches neither the ledger nor what workers hold.
LEMMA OtherAccounting ==
    ASSUME EveryPieceAccounted, UNCHANGED <<ledger, held>>
    PROVE  EveryPieceAccounted'
BY DEF EveryPieceAccounted, NoneMissing, InProgressIsHeld, ledger

\* Every step keeps the accounting of pieces.
LEMMA StepAccounting == TypeOK /\ EveryPieceAccounted /\ [Next]_vars => EveryPieceAccounted'
<1> SUFFICES ASSUME TypeOK, EveryPieceAccounted, [Next]_vars PROVE EveryPieceAccounted'
  OBVIOUS
<1>1. ASSUME NEW w \in Conns, Worker(w) PROVE EveryPieceAccounted'
  <2>1. CASE NextPriority(w)
    BY <2>1, ClaimAccounting DEF NextPriority, ClaimPriority, Goto, Holding
  <2>2. CASE SelectPiece(w)
    BY <2>2, ClaimAccounting DEF SelectPiece, Select, Goto, Holding
  <2>3. CASE DownloadFails(w)
    BY <2>3, ReleaseAccounting DEF DownloadFails, Goto, Holding
  <2>4. CASE VerifyFails(w)
    BY <2>4, ReleaseAccounting DEF VerifyFails, Holding
  <2>5. CASE WriteFails(w)
    BY <2>5, ReleaseAccounting DEF WriteFails, Goto, Holding
  <2>6. CASE Complete(w)
    BY <2>6, ReleaseAccounting DEF Complete, Goto, Holding
  <2>7. CASE \/ Register(w) \/ CheckContext(w) \/ NextNoPriority(w) \/ SelectFails(w)
             \/ ReadStats(w) \/ WaitASecond(w) \/ Downloads(w) \/ Ban(w)
             \/ WritePiece(w) \/ CheckComplete(w) \/ Unregister(w)
    <3>1. UNCHANGED <<ledger, held>>
      BY <2>7
         DEF Register, RegisterPeerBitfield, CheckContext, NextNoPriority,
             NoPriority, SelectFails, SelectNothing, ReadStats, WaitASecond,
             Downloads, Ban, BlacklistPeer, WritePiece, CheckComplete,
             Unregister, UnregisterPeerBitfield, pmVars
    <3> QED
      BY <3>1, OtherAccounting
  <2> QED
    BY <1>1, <2>1, <2>2, <2>3, <2>4, <2>5, <2>6, <2>7 DEF Worker, Fetch
<1>2. CASE Environment \/ UNCHANGED vars
  <2>1. UNCHANGED <<ledger, held>>
    BY <1>2
       DEF Environment, Dial, DialEnds, Accept, HandleHave, Seek,
           SetPriorityPieces, CloseAll, DiskFails, Cancel, vars, pmVars, workerVars
  <2> QED
    BY <2>1, OtherAccounting
<1> QED
  BY <1>1, <1>2 DEF Next

(***************************************************************************)
(* No interleaving of claims, failures, duplicate priority downloads and   *)
(* disconnects loses a piece: each is always pending, in progress,         *)
(* completed or given up, and one in progress has a worker on it.          *)
(***************************************************************************)
THEOREM NoPieceLost == Spec => []EveryPieceAccounted
<1>1. Init => TypeOK /\ EveryPieceAccounted
  BY InitTypeOK, InitAccounting
<1>2. TypeOK /\ EveryPieceAccounted /\ [Next]_vars => (TypeOK /\ EveryPieceAccounted)'
  BY StepTypeOK, StepAccounting
<1> QED
  BY <1>1, <1>2, PTL DEF Spec

-----------------------------------------------------------------------------
(* The rarest-first index. *)

\* A manager starts without an index, which is sound.
LEMMA InitBuckets == Init => BucketsSound
<1> SUFFICES ASSUME Init PROVE BucketsSound
  OBVIOUS
<1>1. PICK verified \in ResumeSets : InitManager(verified)
  BY DEF Init
<1> QED
  BY <1>1 DEF BucketsSound, Partition, Entry, InitManager

\* Moving the pending pieces of a bitfield to their new counts keeps the index.
LEMMA RebucketSound ==
    ASSUME TypeOK, BucketsSound, NEW bf \in SUBSET Pieces,
           UNCHANGED <<Pending, Completed>>,
           Availability' \in [Pieces -> Nat],
           \A p \in Pieces \ bf : Availability'[p] = Availability[p],
           buckets' = Rebucket(bf, Availability')
    PROVE  BucketsSound'
<1>1. ASSUME NEW e \in buckets' PROVE e \in Partition'
  <2>1. CASE e \in {<<Availability'[p], p>> : p \in bf \cap Pending}
    BY <2>1 DEF Partition, Entry
  <2>2. CASE e \in buckets \ {Entry(p) : p \in bf \cap Pending}
    <3>1. PICK p \in Pending : e = Entry(p)
      BY <2>2 DEF BucketsSound, Partition
    <3>2. p \in Pieces \ bf
      BY <2>2, <3>1 DEF TypeOK
    <3> QED
      BY <3>1, <3>2 DEF Partition, Entry
  <2> QED
    BY <1>1, <2>1, <2>2 DEF Rebucket
<1>2. ASSUME NEW p \in Pending \ Completed PROVE <<Availability'[p], p>> \in buckets'
  <2>1. CASE p \in bf
    BY <2>1 DEF Rebucket
  <2>2. CASE p \notin bf
    <3>1. Entry(p) \in buckets /\ Availability'[p] = Availability[p]
      BY <2>2 DEF BucketsSound, TypeOK
    <3>2. \A q \in bf \cap Pending : Entry(q) # Entry(p)
      BY <2>2 DEF Entry
    <3> QED
      BY <3>1, <3>2 DEF Rebucket, Entry
  <2> QED
    BY <2>1, <2>2
<1> QED
  BY <1>1, <1>2 DEF BucketsSound, Entry

\* There are as many entries in the exact index as pending pieces.
LEMMA PartitionSize ==
    ASSUME TypeOK
    PROVE  /\ IsFiniteSet(Pending) /\ IsFiniteSet(Partition)
           /\ Cardinality(Partition) = Cardinality(Pending)
<1> DEFINE f == [p \in Pending |-> Entry(p)]
<1>1. IsFiniteSet(Pending)
  <2>1. IsFiniteSet(Pieces)
    BY FS_Interval, ManagerAssumption DEF Pieces
  <2> QED
    BY <2>1, FS_Subset DEF TypeOK
<1>2. f \in Injection(Pending, Partition)
  BY DEF Injection, IsInjective, Partition, Entry
<1>3. f \in Surjection(Pending, Partition)
  BY DEF Surjection, Partition
<1> QED
  BY <1>1, <1>2, <1>3, FS_Surjection

\* Whether ensureBucketsSync rebuilds or not, the index is exact after it.
LEMMA SyncIsExact ==
    ASSUME TypeOK, BucketsSound
    PROVE  SyncedBuckets = Partition
<1>1. CASE Cardinality(buckets) # Cardinality(Pending)
  BY <1>1 DEF SyncedBuckets
<1>2. CASE Cardinality(buckets) = Cardinality(Pending)
  <2>1. buckets \subseteq Partition
    BY DEF BucketsSound
  <2>2. buckets = Partition
    BY <1>2, <2>1, PartitionSize, FS_Subset
  <2> QED
    BY <2>2 DEF SyncedBuckets
<1> QED
  BY <1>1, <1>2

\* Claiming from a sound index leaves it sound.
LEMMA ClaimBuckets ==
    ASSUME TypeOK, NEW p \in Pieces, NEW index, claimPiece(p, index),
           index \subseteq Partition,
           \A q \in Pending \ Completed : Entry(q) \in index
    PROVE  BucketsSound'
BY DEF BucketsSound, claimPiece, Partition, Entry, TypeOK

\* Ending a claim, however it ends, leaves a sound index sound.
LEMMA ReleaseBuckets ==
    ASSUME TypeOK, BucketsSound, NEW p \in Pieces,
           MarkComplete(p) \/ ReturnToPending(p) \/ MarkFailed(p)
    PROVE  BucketsSound'
<1>1. CASE MarkComplete(p)
  BY <1>1 DEF MarkComplete, BucketsSound, Partition, Entry, TypeOK
<1>2. CASE ReturnToPending(p)
  BY <1>2 DEF ReturnToPending, BucketsSound, Partition, Entry, TypeOK
<1>3. CASE MarkFailed(p)
  BY <1>3 DEF MarkFailed, BucketsSound, Partition, Entry, TypeOK
<1> QED
  BY <1>1, <1>2, <1>3

\* Every step keeps the index sound.
LEMMA StepBuckets == TypeOK /\ BucketsSound /\ [Next]_vars => BucketsSound'
<1> SUFFICES ASSUME TypeOK, BucketsSound, [Next]_vars PROVE BucketsSound'
  OBVIOUS
<1>1. ASSUME NEW w \in Conns, Worker(w) PROVE BucketsSound'
  <2>1. CASE Register(w)
    <3>1. RegisterPeerBitfield(Bitfield[w]) /\ Bitfield[w] \in SUBSET Pieces
      BY <2>1 DEF Register, TypeOK
    <3>2. /\ Availability' \in [Pieces -> Nat]
          /\ \A p \in Pieces \ Bitfield[w] : Availability'[p] = Availability[p]
      BY <3>1 DEF RegisterPeerBitfield, TypeOK
    <3> QED
      BY <3>1, <3>2, RebucketSound DEF RegisterPeerBitfield, ledger
  <2>2. CASE Unregister(w)
    <3>1. UnregisterPeerBitfield(Bitfield[w]) /\ Bitfield[w] \in SUBSET Pieces
      BY <2>2 DEF Unregister, TypeOK
    <3>2. /\ Availability' \in [Pieces -> Nat]
          /\ \A p \in Pieces \ Bitfield[w] : Availability'[p] = Availability[p]
      BY <3>1 DEF UnregisterPeerBitfield, TypeOK
    <3>3. buckets' = Rebucket(Bitfield[w], Availability')
      BY <3>1 DEF UnregisterPeerBitfield
    <3>4. UNCHANGED <<Pending, Completed>>
      BY <3>1 DEF UnregisterPeerBitfield, ledger
    <3> QED
      BY <3>1, <3>2, <3>3, <3>4, RebucketSound
  <2>3. CASE NextPriority(w)
    <3>1. PICK p \in Pieces : claimPiece(p, buckets)
      BY <2>3 DEF NextPriority, ClaimPriority
    <3> QED
      BY <3>1, ClaimBuckets DEF BucketsSound
  <2>4. CASE SelectPiece(w)
    <3>1. PICK p \in Pieces : claimPiece(p, SyncedBuckets)
      BY <2>4 DEF SelectPiece, Select
    <3>2. SyncedBuckets = Partition
      BY SyncIsExact
    <3>3. \A q \in Pending : Entry(q) \in Partition
      BY DEF Partition
    <3> QED
      BY <3>1, <3>2, <3>3, ClaimBuckets
  <2>5. CASE SelectFails(w)
    <3>1. /\ buckets' = Partition
          /\ UNCHANGED <<Pending, Completed, Availability>>
      BY <2>5, SyncIsExact DEF SelectFails, SelectNothing, ledger
    <3> QED
      BY <3>1 DEF BucketsSound, Partition, Entry
  <2>6. CASE DownloadFails(w)
    BY <2>6, ReleaseBuckets DEF DownloadFails, Goto, Holding, TypeOK
  <2>7. CASE VerifyFails(w)
    BY <2>7, ReleaseBuckets DEF VerifyFails, Holding, TypeOK
  <2>8. CASE WriteFails(w)
    BY <2>8, ReleaseBuckets DEF WriteFails, Goto, Holding, TypeOK
  <2>9. CASE Complete(w)
    BY <2>9, ReleaseBuckets DEF Complete, Goto, Holding, TypeOK
  <2>10. CASE \/ CheckContext(w) \/ NextNoPriority(w) \/ ReadStats(w)
              \/ WaitASecond(w) \/ Downloads(w) \/ Ban(w)
              \/ WritePiece(w) \/ CheckComplete(w)
    <3>1. UNCHANGED <<ledger, rarity>>
      BY <2>10
         DEF CheckContext, NextNoPriority, NoPriority, ReadStats, WaitASecond,
             Downloads, Ban, BlacklistPeer, WritePiece, CheckComplete, pmVars
    <3> QED
      BY <3>1 DEF BucketsSound, Partition, Entry, ledger, rarity
  <2> QED
    BY <1>1, <2>1, <2>2, <2>3, <2>4, <2>5, <2>6, <2>7, <2>8, <2>9, <2>10
       DEF Worker, Fetch
<1>2. CASE Environment \/ UNCHANGED vars
  <2>1. UNCHANGED <<ledger, rarity>>
    BY <1>2
       DEF Environment, Dial, DialEnds, Accept, HandleHave, Seek,
           SetPriorityPieces, CloseAll, DiskFails, Cancel, vars, pmVars
  <2> QED
    BY <2>1 DEF BucketsSound, Partition, Entry, ledger, rarity
<1> QED
  BY <1>1, <1>2 DEF Next

\* The types and the index together are invariant.
LEMMA BucketsInvariant == Spec => [](TypeOK /\ BucketsSound)
<1>1. Init => TypeOK /\ BucketsSound
  BY InitTypeOK, InitBuckets
<1>2. TypeOK /\ BucketsSound /\ [Next]_vars => (TypeOK /\ BucketsSound)'
  BY StepTypeOK, StepBuckets
<1> QED
  BY <1>1, <1>2, PTL DEF Spec

(***************************************************************************)
(* The index the selector trusts after comparing two counters holds each   *)
(* pending piece at most once, under its current availability, and misses  *)
(* only completed ones.                                                    *)
(***************************************************************************)
THEOREM IndexIsSound == Spec => []BucketsSound
BY BucketsInvariant, PTL

\* A non-empty set of naturals has a least element.
LEMMA LeastNatural ==
    ASSUME NEW T \in SUBSET Nat, T # {}
    PROVE  \E x \in T : \A y \in T : x <= y
<1> DEFINE R == {ss \in Nat \X Nat : ss[1] < ss[2]}
<1>1. IsWellFoundedOn(R, Nat)
  BY NatLessThanWellFounded DEF OpToRel
<1>2. PICK x \in T : \A y \in T : <<y, x>> \notin R
  BY <1>1, WFMin
<1>3. \A y \in T : ~(y < x)
  BY <1>2
<1>4. \A y \in T : x <= y
  BY <1>3
<1> QED
  BY <1>4

\* A peer is turned away by the selector only if it has no pending piece.
LEMMA SelectorServes ==
    ASSUME TypeOK, BucketsSound, NEW w \in Conns, Selectable(Bitfield[w]) = {}
    PROVE  Servable(w) = {}
<1> SUFFICES ASSUME Servable(w) # {} PROVE FALSE
  OBVIOUS
<1> DEFINE bf == Bitfield[w]
           served == {e \in Partition : e[2] \in bf}
           counts == {Availability[p] : p \in Servable(w)}
<1>1. Servable(w) \subseteq Nat /\ Pieces \subseteq Nat
  BY ManagerAssumption DEF Servable, TypeOK, Pieces
<1>2. CASE StreamingMode /\ InWindow(bf) # {}
  <2>1. PICK p \in InWindow(bf) : \A q \in InWindow(bf) : p <= q
    BY <1>1, <1>2, LeastNatural DEF InWindow, Servable
  <2> QED
    BY <1>2, <2>1 DEF Selectable
<1>3. CASE ~(StreamingMode /\ InWindow(bf) # {})
  <2>1. counts # {} /\ counts \in SUBSET Nat
    BY DEF Servable, TypeOK
  <2>2. PICK p \in Servable(w) : \A q \in Servable(w) : Availability[p] <= Availability[q]
    <3>1. PICK c \in counts : \A d \in counts : c <= d
      BY <2>1, LeastNatural
    <3> QED
      BY <3>1
  <2>3. Entry(p) \in served /\ \A e \in served : Entry(p)[1] <= e[1]
    BY <2>2 DEF Servable, Partition, Entry
  <2>4. p \in Rarest(bf)
    <3>1. Entry(p)[2] = p
      BY DEF Entry
    <3>2. SyncedBuckets = Partition
      BY SyncIsExact
    <3> QED
      BY <2>3, <3>1, <3>2 DEF Rarest
  <2> QED
    BY <1>3, <2>4 DEF Selectable
<1> QED
  BY <1>2, <1>3

\* What the selector returns is the best piece for the peer.
LEMMA SelectorIsBest ==
    ASSUME TypeOK, BucketsSound, NEW w \in Conns, NEW p \in Selectable(Bitfield[w])
    PROVE  BestFor(w, p)
<1>1. CASE StreamingMode /\ InWindow(Bitfield[w]) # {}
  <2>1. p \in InWindow(Bitfield[w]) /\ \A q \in InWindow(Bitfield[w]) : p <= q
    BY <1>1 DEF Selectable
  <2>2. \A q \in Servable(w) : q \in Nat
    BY ManagerAssumption DEF Servable, TypeOK, Pieces
  <2>3. p < StreamingWindowSize /\ p \in Servable(w)
    BY <2>1 DEF InWindow, Servable
  <2>4. \A q \in Servable(w) : p <= q
    BY <2>1, <2>2, <2>3, ManagerAssumption DEF InWindow, Servable
  <2> QED
    BY <1>1, <2>3, <2>4 DEF BestFor
<1>2. CASE ~(StreamingMode /\ InWindow(Bitfield[w]) # {})
  <2>1. p \in Rarest(Bitfield[w])
    BY <1>2 DEF Selectable
  <2>2. PICK m \in Partition :
             /\ m[2] = p /\ p \in Bitfield[w]
             /\ \A n \in Partition : n[2] \in Bitfield[w] => m[1] <= n[1]
    BY <2>1, SyncIsExact DEF Rarest
  <2>3. m = Entry(p) /\ p \in Pending
    BY <2>2 DEF Partition, Entry
  <2>4. ASSUME NEW q \in Servable(w) PROVE Availability[p] <= Availability[q]
    <3>1. Entry(q) \in Partition /\ Entry(q)[2] \in Bitfield[w]
      BY DEF Servable, Partition, Entry
    <3>2. Entry(p)[1] = Availability[p] /\ Entry(q)[1] = Availability[q]
      BY DEF Entry
    <3> QED
      BY <2>2, <2>3, <3>1, <3>2
  <2>5. ~(StreamingMode /\ \E q \in Servable(w) : q < StreamingWindowSize)
    BY <1>2 DEF InWindow, Servable
  <2> QED
    BY <2>2, <2>3, <2>4, <2>5 DEF BestFor, Servable
<1> QED
  BY <1>1, <1>2

(***************************************************************************)
(* The selection policy: every piece NextStreamingPiece or                 *)
(* NextRarestPiece hands out is the first pending one of the window the    *)
(* peer has or one of its rarest, and a peer that has any pending piece    *)
(* gets one, however stale the index was.                                  *)
(***************************************************************************)
THEOREM SelectionPolicy == Spec => RarestFirst
<1> DEFINE A == \A w \in Conns :
                  /\ SelectPiece(w) => BestFor(w, held'[w])
                  /\ SelectFails(w) => Servable(w) = {}
<1>1. TypeOK /\ BucketsSound /\ [Next]_vars => [A]_vars
  <2> SUFFICES ASSUME TypeOK, BucketsSound, NEW w \in Conns
               PROVE  /\ SelectPiece(w) => BestFor(w, held'[w])
                      /\ SelectFails(w) => Servable(w) = {}
    OBVIOUS
  <2>1. ASSUME SelectPiece(w) PROVE BestFor(w, held'[w])
    <3>1. PICK p \in Pieces : p \in Selectable(Bitfield[w]) /\ held'[w] = p
      BY <2>1 DEF SelectPiece, Select, TakePiece, TypeOK
    <3> QED
      BY <3>1, SelectorIsBest
  <2>2. ASSUME SelectFails(w) PROVE Servable(w) = {}
    BY <2>2, SelectorServes DEF SelectFails, SelectNothing
  <2> QED
    BY <2>1, <2>2
<1> QED
  BY <1>1, BucketsInvariant, PTL DEF Spec, RarestFirst

-----------------------------------------------------------------------------
(* Progress. *)

\* Every step keeps the progress counter equal to the completed pieces.
LEMMA StepCounted == TypeOK /\ CountedOnce /\ [Next]_vars => CountedOnce'
<1> SUFFICES ASSUME TypeOK, CountedOnce, [Next]_vars PROVE CountedOnce'
  OBVIOUS
<1>1. ASSUME NEW w \in Conns, Complete(w) PROVE CountedOnce'
  <2>1. IsFiniteSet(Completed)
    <3>1. IsFiniteSet(Pieces)
      BY FS_Interval, ManagerAssumption DEF Pieces
    <3> QED
      BY <3>1, FS_Subset DEF TypeOK
  <2>2. MarkComplete(held[w])
    BY <1>1 DEF Complete
  <2>3. CASE held[w] \in Completed
    BY <2>2, <2>3 DEF MarkComplete, CountedOnce
  <2>4. CASE held[w] \notin Completed
    BY <2>1, <2>2, <2>4, FS_AddElement DEF MarkComplete, CountedOnce
  <2> QED
    BY <2>3, <2>4
<1>2. CASE UNCHANGED <<Completed, Downloaded>>
  BY <1>2 DEF CountedOnce
<1>3. (\E w \in Conns : Complete(w)) \/ UNCHANGED <<Completed, Downloaded>>
  <2>1. ASSUME NEW w \in Conns, Worker(w), ~Complete(w)
        PROVE  UNCHANGED <<Completed, Downloaded>>
    BY <2>1
       DEF Worker, Fetch, Register, RegisterPeerBitfield, CheckContext,
           NextPriority, ClaimPriority, NextNoPriority, NoPriority, SelectPiece,
           Select, claimPiece, SelectFails, SelectNothing, ReadStats, WaitASecond,
           Downloads, DownloadFails, ReturnToPending, VerifyFails, MarkFailed,
           Ban, BlacklistPeer, WritePiece, WriteFails, CheckComplete, Unregister,
           UnregisterPeerBitfield, pmVars, ledger
  <2>2. CASE Environment \/ UNCHANGED vars
    BY <2>2
       DEF Environment, Dial, DialEnds, Accept, HandleHave, Seek,
           SetPriorityPieces, CloseAll, DiskFails, Cancel, vars, pmVars, ledger
  <2> QED
    BY <2>1, <2>2 DEF Next
<1> QED
  BY <1>1, <1>2, <1>3

(***************************************************************************)
(* Downloaded counts each completed piece exactly once, also when several  *)
(* workers fetched it or the resume scan had found it.                     *)
(***************************************************************************)
THEOREM ProgressIsExact == Spec => []CountedOnce
<1>1. Init => TypeOK /\ CountedOnce
  BY InitTypeOK DEF Init, InitManager, CountedOnce
<1>2. TypeOK /\ CountedOnce /\ [Next]_vars => (TypeOK /\ CountedOnce)'
  BY StepTypeOK, StepCounted
<1> QED
  BY <1>1, <1>2, PTL DEF Spec

-----------------------------------------------------------------------------
(* The workers implement the abstract ledger. *)

\* A worker about to mark its piece has had it accepted by the disk writer.
AcceptedFirst == \A w \in Conns : pc[w] = "complete" => held[w] \in accepted

\* A piece is completed only after the writer accepted it.
LEMMA StepAcceptedFirst == TypeOK /\ AcceptedFirst /\ [Next]_vars => AcceptedFirst'
<1> SUFFICES ASSUME TypeOK, AcceptedFirst, [Next]_vars PROVE AcceptedFirst'
  OBVIOUS
<1> USE DEF TypeOK, AcceptedFirst
<1>1. ASSUME NEW w \in Conns, Worker(w) PROVE AcceptedFirst'
  <2>1. CASE WritePiece(w)
    BY <2>1 DEF WritePiece, Goto
  <2>2. CASE NextPriority(w) \/ SelectPiece(w)
    BY <2>2 DEF NextPriority, SelectPiece, TakePiece, Goto, envVars
  <2>3. CASE DownloadFails(w) \/ VerifyFails(w) \/ WriteFails(w) \/ Complete(w)
    BY <2>3 DEF DownloadFails, VerifyFails, WriteFails, Complete, Drop, Goto, envVars
  <2>4. CASE \/ Register(w) \/ CheckContext(w) \/ NextNoPriority(w) \/ SelectFails(w)
             \/ ReadStats(w) \/ WaitASecond(w) \/ Downloads(w) \/ Ban(w)
             \/ CheckComplete(w) \/ Unregister(w)
    BY <2>4 DEF Register, CheckContext, NextNoPriority, SelectFails, ReadStats,
                WaitASecond, Downloads, Ban, CheckComplete, Unregister, Goto, envVars
  <2> QED
    BY <1>1, <2>1, <2>2, <2>3, <2>4 DEF Worker, Fetch
<1>2. CASE Environment \/ UNCHANGED vars
  BY <1>2 DEF Environment, Dial, DialEnds, Accept, HandleHave, Seek, CloseAll,
              DiskFails, Cancel, Goto, vars, workerVars, envVars
<1> QED
  BY <1>1, <1>2 DEF Next

\* IsComplete compares two numbers; they differ unless every piece is there.
LEMMA CompleteIsAll ==
    ASSUME TypeOK, IsComplete
    PROVE  Completed = Pieces
<1>1. IsFiniteSet(Pieces) /\ Cardinality(Pieces) = TotalPieces
  BY FS_Interval, ManagerAssumption DEF Pieces
<1> QED
  BY <1>1, FS_Subset DEF IsComplete, TypeOK

\* Every step of the workers is a step of the ledger or stutters.
LEMMA StepRefines ==
    TypeOK /\ AcceptedFirst /\ [Next]_vars => [Ledger!Next]_(Ledger!ledgerVars)
<1> SUFFICES ASSUME TypeOK, AcceptedFirst, [Next]_vars
             PROVE  Ledger!Next \/ UNCHANGED Ledger!ledgerVars
  OBVIOUS
<1> USE DEF Ledger!ledgerVars
<1>1. ASSUME NEW w \in Conns, Worker(w)
      PROVE  Ledger!Next \/ UNCHANGED Ledger!ledgerVars
  <2>0. Holding(w) => held[w] \in Pieces
    BY DEF TypeOK
  <2>1. CASE WritePiece(w)
    <3>1. Ledger!Store(held[w])
      BY <2>1 DEF WritePiece, pmVars, ledger, Ledger!Store
    <3>2. held[w] \in Pieces
      BY <2>0, <2>1 DEF WritePiece, Goto, Holding
    <3> QED
      BY <3>1, <3>2 DEF Ledger!Next
  <2>2. CASE Complete(w)
    <3>1. held[w] \in Pieces /\ held[w] \in accepted
      BY <2>0, <2>2 DEF Complete, Goto, Holding, AcceptedFirst
    <3>2. Completed' = Completed \cup {held[w]}
      BY <2>2 DEF Complete, MarkComplete
    <3>3. Ledger!Finish(held[w])
      BY <2>2, <3>1, <3>2 DEF Complete, MarkComplete, envVars, Ledger!Finish
    <3> QED
      BY <3>1, <3>3 DEF Ledger!Next
  <2>3. CASE VerifyFails(w) \/ WriteFails(w)
    <3>1. held[w] \in Pieces
      BY <2>0, <2>3 DEF VerifyFails, WriteFails, Goto, Holding
    <3>2. \/ Ledger!GiveUp(held[w])
          \/ UNCHANGED Ledger!ledgerVars
      BY <2>3 DEF VerifyFails, WriteFails, MarkFailed, envVars, Ledger!GiveUp
    <3> QED
      BY <3>1, <3>2 DEF Ledger!Next
  <2>4. CASE CheckComplete(w)
    <3>1. CASE IsComplete
      <4>1. Completed = Pieces
        BY <3>1, CompleteIsAll
      <4>2. Ledger!Announce
        BY <2>4, <3>1, <4>1
           DEF CheckComplete, IsComplete, pmVars, ledger, Ledger!Announce
      <4> QED
        BY <4>2 DEF Ledger!Next
    <3>2. CASE ~IsComplete
      <4>1. completions' = completions
        BY <2>4, <3>2 DEF CheckComplete, TypeOK
      <4> QED
        BY <2>4, <4>1 DEF CheckComplete, pmVars, ledger
    <3> QED
      BY <3>1, <3>2
  <2>5. CASE \/ Register(w) \/ CheckContext(w) \/ NextPriority(w) \/ NextNoPriority(w)
             \/ SelectPiece(w) \/ SelectFails(w) \/ ReadStats(w) \/ WaitASecond(w)
             \/ Downloads(w) \/ DownloadFails(w) \/ Ban(w) \/ Unregister(w)
    BY <2>5
       DEF Register, RegisterPeerBitfield, CheckContext, NextPriority,
           ClaimPriority, NextNoPriority, NoPriority, SelectPiece, Select,
           claimPiece, TakePiece, SelectFails, SelectNothing, ReadStats,
           WaitASecond, Downloads, DownloadFails, ReturnToPending, Ban,
           BlacklistPeer, Unregister, UnregisterPeerBitfield, pmVars, ledger, envVars
  <2> QED
    BY <1>1, <2>1, <2>2, <2>3, <2>4, <2>5 DEF Worker, Fetch
<1>2. CASE Environment \/ UNCHANGED vars
  BY <1>2
     DEF Environment, Dial, DialEnds, Accept, HandleHave, Seek, SetPriorityPieces,
         CloseAll, DiskFails, Cancel, vars, pmVars, ledger, envVars
<1> QED
  BY <1>1, <1>2 DEF Next

\* The initial states map to initial states of the ledger.
LEMMA InitRefines == Init => Ledger!Init /\ AcceptedFirst
<1> SUFFICES ASSUME Init PROVE Ledger!Init /\ AcceptedFirst
  OBVIOUS
<1>1. PICK verified \in ResumeSets : InitManager(verified) /\ accepted = verified
  BY DEF Init
<1>2. verified \subseteq Pieces
  BY WorkersAssumption
<1>3. \A w \in Conns : pc[w] # "complete"
  BY DEF Init
<1> QED
  BY <1>1, <1>2, <1>3 DEF Ledger!Init, InitManager, Init, AcceptedFirst

(***************************************************************************)
(* The workers implement DownloadLedger: a piece is completed only after   *)
(* the disk writer took its data, stays completed, and completeChan is     *)
(* signalled only when all pieces are completed and none was given up.     *)
(***************************************************************************)
THEOREM WorkersRefineLedger == Spec => RefinesLedger
<1>1. Init => TypeOK /\ AcceptedFirst /\ Ledger!Init
  BY InitTypeOK, InitRefines
<1>2. TypeOK /\ AcceptedFirst /\ [Next]_vars => (TypeOK /\ AcceptedFirst)'
  BY StepTypeOK, StepAcceptedFirst
<1> QED
  BY <1>1, <1>2, StepRefines, PTL DEF Spec, RefinesLedger, Ledger!Spec

-----------------------------------------------------------------------------
(* One worker per piece the stream does not ask for. *)

Streamed == UNION PrioritySets

\* The strengthening: a held piece the stream cannot ask for is in progress, so
\* the selector, which only offers pending pieces, cannot offer it again.
OneWorkerPerPiece ==
    /\ PriorityPieces \subseteq Streamed
    /\ \A w \in Conns : Holding(w) => held[w] \in InProgress \cup Streamed
    /\ NoDuplicateFetch

\* Initially no worker holds a piece.
LEMMA InitOneWorker == Init => OneWorkerPerPiece
BY DEF Init, InitManager, OneWorkerPerPiece, NoDuplicateFetch, Holding

\* Ending one claim leaves the pieces of the other workers in progress.
LEMMA ReleaseOneWorker ==
    ASSUME TypeOK, OneWorkerPerPiece, NEW w \in Conns, Holding(w), Drop(w),
           NEW to \in States, pc' = [pc EXCEPT ![w] = to],
           to \notin {"download", "write", "complete"},
           \/ MarkComplete(held[w])
           \/ ReturnToPending(held[w])
           \/ MarkFailed(held[w])
    PROVE  OneWorkerPerPiece'
<1>1. InProgress' = InProgress \ {held[w]} /\ PriorityPieces' = PriorityPieces
  BY DEF MarkComplete, ReturnToPending, MarkFailed
<1>2. ~Holding(w)'
  BY DEF Holding, TypeOK
<1>3. \A v \in Conns \ {w} : Holding(v)' = Holding(v) /\ held'[v] = held[v]
  BY DEF Holding, TypeOK, Drop
<1>4. ASSUME NEW v \in Conns, Holding(v)' PROVE held'[v] \in InProgress' \cup Streamed
  <2>1. v # w /\ Holding(v) /\ held'[v] = held[v]
    BY <1>2, <1>3, <1>4
  <2>2. held[v] \in InProgress \cup Streamed
    BY <2>1 DEF OneWorkerPerPiece
  <2>3. held[v] # held[w] \/ held[v] \in Streamed
    BY <2>1 DEF OneWorkerPerPiece, NoDuplicateFetch, Streamed
  <2> QED
    BY <1>1, <2>1, <2>2, <2>3
<1>5. NoDuplicateFetch'
  BY <1>2, <1>3 DEF OneWorkerPerPiece, NoDuplicateFetch
<1> QED
  BY <1>1, <1>4, <1>5 DEF OneWorkerPerPiece

\* A step that takes up no piece and ends no claim.
LEMMA OtherOneWorker ==
    ASSUME OneWorkerPerPiece, UNCHANGED <<InProgress, PriorityPieces, held>>,
           \A v \in Conns : Holding(v)' => Holding(v)
    PROVE  OneWorkerPerPiece'
BY DEF OneWorkerPerPiece, NoDuplicateFetch

\* Every step leaves one worker per piece the stream does not ask for.
LEMMA StepOneWorker ==
    TypeOK /\ EveryPieceAccounted /\ BucketsSound /\ OneWorkerPerPiece /\ [Next]_vars
        => OneWorkerPerPiece'
<1> SUFFICES ASSUME TypeOK, EveryPieceAccounted, BucketsSound, OneWorkerPerPiece, [Next]_vars
             PROVE  OneWorkerPerPiece'
  OBVIOUS
<1>1. ASSUME NEW w \in Conns, Worker(w) PROVE OneWorkerPerPiece'
  <2>1. CASE SelectPiece(w)
    <3>1. PICK p \in Pieces : p \in Selectable(Bitfield[w])
                             /\ claimPiece(p, SyncedBuckets) /\ TakePiece(w, p)
      BY <2>1 DEF SelectPiece, Select
    <3>2. p \in Pending
      BY <3>1, SelectorIsBest DEF BestFor, Servable
    <3>3. p \notin InProgress
      BY <3>2 DEF EveryPieceAccounted, NoneMissing
    <3>4. \A v \in Conns \ {w} : Holding(v)' = Holding(v) /\ held'[v] = held[v]
      BY <2>1, <3>1 DEF SelectPiece, Goto, TakePiece, Holding, TypeOK
    <3>5. held'[w] = p /\ InProgress' = InProgress \cup {p} /\ PriorityPieces' = PriorityPieces
      BY <3>1 DEF TakePiece, claimPiece, TypeOK
    <3>6. \A v \in Conns \ {w} : Holding(v)' => held'[v] # p \/ p \in Streamed
      BY <3>3, <3>4 DEF OneWorkerPerPiece
    <3>7. \A v \in Conns : Holding(v)' => held'[v] \in InProgress' \cup Streamed
      BY <3>4, <3>5 DEF OneWorkerPerPiece
    <3>8. NoDuplicateFetch'
      BY <3>4, <3>5, <3>6 DEF OneWorkerPerPiece, NoDuplicateFetch, Streamed
    <3> QED
      BY <3>5, <3>7, <3>8 DEF OneWorkerPerPiece
  <2>2. CASE NextPriority(w)
    <3>1. PICK p \in PriorityPieces : claimPiece(p, buckets) /\ TakePiece(w, p)
      BY <2>2 DEF NextPriority, ClaimPriority, Wanted
    <3>2. p \in Streamed
      BY <3>1 DEF OneWorkerPerPiece
    <3>3. \A v \in Conns \ {w} : Holding(v)' = Holding(v) /\ held'[v] = held[v]
      BY <2>2, <3>1 DEF NextPriority, Goto, TakePiece, Holding, TypeOK
    <3>4. held'[w] = p /\ InProgress' = InProgress \cup {p} /\ PriorityPieces' = PriorityPieces
      BY <3>1 DEF TakePiece, claimPiece, TypeOK
    <3>5. \A v \in Conns : Holding(v)' => held'[v] \in InProgress' \cup Streamed
      BY <3>2, <3>3, <3>4 DEF OneWorkerPerPiece
    <3>6. NoDuplicateFetch'
      BY <3>2, <3>3, <3>4 DEF OneWorkerPerPiece, NoDuplicateFetch, Streamed
    <3> QED
      BY <3>4, <3>5, <3>6 DEF OneWorkerPerPiece
  <2>3. CASE DownloadFails(w)
    BY <2>3, ReleaseOneWorker DEF DownloadFails, Goto, Holding, States
  <2>4. CASE VerifyFails(w)
    BY <2>4, ReleaseOneWorker DEF VerifyFails, Goto, Holding, States
  <2>5. CASE WriteFails(w)
    BY <2>5, ReleaseOneWorker DEF WriteFails, Goto, Holding, States
  <2>6. CASE Complete(w)
    BY <2>6, ReleaseOneWorker DEF Complete, Goto, Holding, States
  <2>7. CASE \/ Register(w) \/ CheckContext(w) \/ NextNoPriority(w) \/ SelectFails(w)
             \/ ReadStats(w) \/ WaitASecond(w) \/ Downloads(w) \/ Ban(w)
             \/ WritePiece(w) \/ CheckComplete(w) \/ Unregister(w)
    <3>1. UNCHANGED <<InProgress, PriorityPieces, held>>
      BY <2>7
         DEF Register, RegisterPeerBitfield, CheckContext, NextNoPriority,
             NoPriority, SelectFails, SelectNothing, ReadStats, WaitASecond,
             Downloads, Ban, BlacklistPeer, WritePiece, CheckComplete,
             Unregister, UnregisterPeerBitfield, pmVars, ledger
    <3>2. \A v \in Conns : Holding(v)' => Holding(v)
      BY <2>7
         DEF Register, CheckContext, NextNoPriority, SelectFails, ReadStats,
             WaitASecond, Downloads, Ban, WritePiece, CheckComplete, Unregister,
             Goto, Holding, TypeOK
    <3> QED
      BY <3>1, <3>2, OtherOneWorker
  <2> QED
    BY <1>1, <2>1, <2>2, <2>3, <2>4, <2>5, <2>6, <2>7 DEF Worker, Fetch
<1>2. ASSUME NEW S \in PrioritySets, Seek(S) PROVE OneWorkerPerPiece'
  <2>1. PriorityPieces' \subseteq Streamed
    BY <1>2 DEF Seek, SetPriorityPieces, Streamed
  <2>2. UNCHANGED <<InProgress, held, pc>>
    BY <1>2 DEF Seek, SetPriorityPieces, ledger, workerVars
  <2> QED
    BY <2>1, <2>2 DEF OneWorkerPerPiece, NoDuplicateFetch, Holding
<1>3. CASE \/ \E w \in Conns : Dial(w) \/ DialEnds(w) \/ Accept(w)
                              \/ \E p \in Pieces : HandleHave(w, p)
           \/ CloseAll \/ DiskFails \/ Cancel \/ UNCHANGED vars
  <2>1. UNCHANGED <<InProgress, PriorityPieces, held>>
    BY <1>3 DEF Dial, DialEnds, Accept, HandleHave, CloseAll, DiskFails, Cancel,
                vars, pmVars, ledger, workerVars
  <2>2. \A v \in Conns : Holding(v)' => Holding(v)
    BY <1>3 DEF Dial, DialEnds, Accept, HandleHave, CloseAll, DiskFails, Cancel,
                vars, workerVars, Goto, Holding, TypeOK
  <2> QED
    BY <2>1, <2>2, OtherOneWorker
<1> QED
  BY <1>1, <1>2, <1>3 DEF Next, Environment

(***************************************************************************)
(* Two workers never fetch the same piece, whatever fails, is resumed or   *)
(* reconnects, unless the video stream may ask for that piece; so never in *)
(* a download nobody streams (the command-line client).                    *)
(***************************************************************************)
THEOREM OneFetchPerPiece == Spec => []NoDuplicateFetch
<1>1. Init => TypeOK /\ EveryPieceAccounted /\ BucketsSound /\ OneWorkerPerPiece
  BY InitTypeOK, InitAccounting, InitBuckets, InitOneWorker
<1>2. TypeOK /\ EveryPieceAccounted /\ BucketsSound /\ OneWorkerPerPiece /\ [Next]_vars
        => (TypeOK /\ EveryPieceAccounted /\ BucketsSound /\ OneWorkerPerPiece)'
  BY StepTypeOK, StepAccounting, StepBuckets, StepOneWorker
<1>3. OneWorkerPerPiece => NoDuplicateFetch
  BY DEF OneWorkerPerPiece, NoDuplicateFetch
<1> QED
  BY <1>1, <1>2, <1>3, PTL DEF Spec

-----------------------------------------------------------------------------
(* The state machine of a piece, in a download that is neither streamed nor *)
(* resumed.                                                                 *)

NeitherStreamedNorResumed == Streamed = {} /\ ResumeSets \subseteq {{}}

OneStateEach ==
    /\ (Pending \cup InProgress) \cap (Completed \cup PermanentlyFailed) = {}
    /\ CompleteOrFailed

\* Such a download starts with every piece pending.
LEMMA InitOneState == NeitherStreamedNorResumed /\ Init => OneStateEach
<1> SUFFICES ASSUME NeitherStreamedNorResumed, Init PROVE OneStateEach
  OBVIOUS
<1>1. PICK verified \in ResumeSets : InitManager(verified)
  BY DEF Init
<1>2. verified = {}
  BY DEF NeitherStreamedNorResumed
<1> QED
  BY <1>1, <1>2 DEF InitManager, OneStateEach, CompleteOrFailed

\* A claim ends in exactly one of the other states: the piece is in progress,
\* hence in none of them, until then.
LEMMA ClaimEndsInOneState ==
    ASSUME TypeOK, NoneMissing, OneWorkerPerPiece, OneStateEach, Streamed = {},
           NEW w \in Conns, Holding(w),
           \/ MarkComplete(held[w])
           \/ ReturnToPending(held[w])
           \/ MarkFailed(held[w])
    PROVE  OneStateEach'
<1>1. held[w] \in InProgress
  BY DEF OneWorkerPerPiece
<1>2. held[w] \notin Pending \cup Completed \cup PermanentlyFailed
  BY <1>1 DEF NoneMissing, OneStateEach
<1>3. InProgress' = InProgress \ {held[w]}
  BY DEF MarkComplete, ReturnToPending, MarkFailed
<1>4. CASE MarkComplete(held[w])
  <2>1. Completed' = Completed \cup {held[w]} /\ UNCHANGED <<Pending, PermanentlyFailed>>
    BY <1>2, <1>4 DEF MarkComplete
  <2> QED
    BY <1>2, <1>3, <2>1 DEF OneStateEach, CompleteOrFailed
<1>5. CASE ReturnToPending(held[w])
  <2>1. Pending' = Pending \cup {held[w]} /\ UNCHANGED <<Completed, PermanentlyFailed>>
    BY <1>5 DEF ReturnToPending
  <2> QED
    BY <1>2, <1>3, <2>1 DEF OneStateEach, CompleteOrFailed
<1>6. CASE MarkFailed(held[w])
  <2>1. /\ UNCHANGED Completed
        /\ \/ Pending' = Pending \cup {held[w]} /\ UNCHANGED PermanentlyFailed
           \/ PermanentlyFailed' = PermanentlyFailed \cup {held[w]} /\ UNCHANGED Pending
    BY <1>6 DEF MarkFailed
  <2> QED
    BY <1>2, <1>3, <2>1 DEF OneStateEach, CompleteOrFailed
<1> QED
  BY <1>4, <1>5, <1>6

\* Every step of such a download keeps a piece in one state: the selector, the
\* only one who claims, claims pending pieces.
LEMMA StepOneState ==
    NeitherStreamedNorResumed /\ TypeOK /\ NoneMissing /\ BucketsSound
        /\ OneWorkerPerPiece /\ OneStateEach /\ [Next]_vars
            => OneStateEach'
<1> SUFFICES ASSUME NeitherStreamedNorResumed, TypeOK, NoneMissing, BucketsSound,
                    OneWorkerPerPiece, OneStateEach, [Next]_vars
             PROVE  OneStateEach'
  OBVIOUS
<1>1. Streamed = {}
  BY DEF NeitherStreamedNorResumed
<1>2. ASSUME NEW w \in Conns, SelectPiece(w) PROVE OneStateEach'
  <2>1. PICK p \in Pieces : p \in Selectable(Bitfield[w]) /\ claimPiece(p, SyncedBuckets)
    BY <1>2 DEF SelectPiece, Select
  <2>2. p \in Pending
    BY <2>1, SelectorIsBest DEF BestFor, Servable
  <2>3. /\ Pending' \cup InProgress' = Pending \cup InProgress
        /\ UNCHANGED <<Completed, PermanentlyFailed>>
    BY <2>1, <2>2 DEF claimPiece
  <2> QED
    BY <2>3 DEF OneStateEach, CompleteOrFailed
<1>3. ASSUME NEW w \in Conns PROVE ~NextPriority(w)
  BY <1>1 DEF NextPriority, ClaimPriority, Wanted, OneWorkerPerPiece
<1>4. ASSUME NEW w \in Conns,
             DownloadFails(w) \/ VerifyFails(w) \/ WriteFails(w) \/ Complete(w)
      PROVE  OneStateEach'
  <2>1. /\ Holding(w)
        /\ \/ MarkComplete(held[w])
           \/ ReturnToPending(held[w])
           \/ MarkFailed(held[w])
    BY <1>4 DEF DownloadFails, VerifyFails, WriteFails, Complete, Goto, Holding
  <2> QED
    BY <1>1, <2>1, ClaimEndsInOneState
<1>5. CASE \/ \E w \in Conns :
                  \/ Register(w) \/ CheckContext(w) \/ NextNoPriority(w) \/ SelectFails(w)
                  \/ ReadStats(w) \/ WaitASecond(w) \/ Downloads(w) \/ Ban(w)
                  \/ WritePiece(w) \/ CheckComplete(w) \/ Unregister(w)
           \/ Environment \/ UNCHANGED vars
  <2>1. UNCHANGED <<Pending, InProgress, Completed, PermanentlyFailed>>
    BY <1>5
       DEF Register, RegisterPeerBitfield, CheckContext, NextNoPriority,
           NoPriority, SelectFails, SelectNothing, ReadStats, WaitASecond,
           Downloads, Ban, BlacklistPeer, WritePiece, CheckComplete,
           Unregister, UnregisterPeerBitfield, Environment, Dial, DialEnds,
           Accept, HandleHave, Seek, SetPriorityPieces, CloseAll, DiskFails,
           Cancel, vars, pmVars, ledger
  <2> QED
    BY <2>1 DEF OneStateEach, CompleteOrFailed
<1> QED
  BY <1>2, <1>3, <1>4, <1>5 DEF Next, Worker, Fetch

(***************************************************************************)
(* The state machine of the architecture document holds where no priority  *)
(* is set and nothing was verified at startup: there a piece is pending,   *)
(* in progress, completed or given up, and never two of these.  The run    *)
(* seek shows a priority breaking it; what a resume breaks is the first    *)
(* conjunct of OneStateEach, the verified piece being still pending.       *)
(***************************************************************************)
THEOREM OneStateUnlessStreamed ==
    ASSUME NeitherStreamedNorResumed
    PROVE  Spec => [](NoneMissing /\ OneStateEach)
<1> DEFINE IInv == /\ TypeOK /\ EveryPieceAccounted /\ BucketsSound
                   /\ OneWorkerPerPiece /\ OneStateEach
<1>1. Init => IInv
  BY InitTypeOK, InitAccounting, InitBuckets, InitOneWorker, InitOneState
<1>2. IInv /\ [Next]_vars => IInv'
  BY StepTypeOK, StepAccounting, StepBuckets, StepOneWorker, StepOneState
     DEF EveryPieceAccounted
<1>3. IInv => NoneMissing /\ OneStateEach
  BY DEF EveryPieceAccounted
<1> QED
  BY <1>1, <1>2, <1>3, PTL DEF Spec

-----------------------------------------------------------------------------
(* The availability of a piece and the peers that own it. *)

\* Every set of owners is a set of connections, hence finite.
LEMMA OwnersFinite ==
    ASSUME NEW p
    PROVE  /\ IsFiniteSet(Owners(p)) /\ IsFiniteSet(Owners(p)')
           /\ Cardinality(Owners(p)) \in Nat /\ Cardinality(Owners(p)') \in Nat
<1>1. Owners(p) \subseteq Conns /\ Owners(p)' \subseteq Conns
  BY DEF Owners, Registered, Live
<1>2. IsFiniteSet(Owners(p)) /\ IsFiniteSet(Owners(p)')
  BY <1>1, FS_Subset, WorkersAssumption
<1> QED
  BY <1>2, FS_CardinalityType

\* Initially nobody is registered and nothing is counted.
LEMMA InitCounted == Init => NoOfflinePeerCounted
<1> SUFFICES ASSUME Init, NEW p \in Pieces
             PROVE  Availability[p] <= Cardinality(Owners(p))
  BY DEF NoOfflinePeerCounted
<1>1. Availability[p] = 0
  BY DEF Init, InitManager
<1> QED
  BY <1>1, OwnersFinite

\* A step that counts nothing anew and takes no owner away.
LEMMA OwnersGrow ==
    ASSUME TypeOK, NoOfflinePeerCounted, UNCHANGED Availability,
           Registered \subseteq Registered',
           \A w \in Conns : Bitfield[w] \subseteq Bitfield'[w]
    PROVE  NoOfflinePeerCounted'
<1> SUFFICES ASSUME NEW p \in Pieces
             PROVE  Availability[p] <= Cardinality(Owners(p)')
  BY DEF NoOfflinePeerCounted
<1>1. Owners(p) \subseteq Owners(p)'
  BY DEF Owners, Registered, Live
<1>2. Cardinality(Owners(p)) <= Cardinality(Owners(p)')
  BY <1>1, OwnersFinite, FS_Subset
<1>3. Availability[p] <= Cardinality(Owners(p))
  BY DEF NoOfflinePeerCounted
<1> HIDE DEF Owners
<1>4. Availability[p] \in Nat
  BY DEF TypeOK
<1> QED
  BY <1>2, <1>3, <1>4, OwnersFinite

\* RegisterPeerBitfield counts exactly the worker that becomes an owner.
LEMMA RegisterCounts ==
    ASSUME TypeOK, NoOfflinePeerCounted, NEW w \in Conns, Register(w)
    PROVE  NoOfflinePeerCounted'
<1> SUFFICES ASSUME NEW p \in Pieces
             PROVE  Availability'[p] <= Cardinality(Owners(p)')
  BY DEF NoOfflinePeerCounted
<1>1. w \notin Registered /\ Registered' = Registered \cup {w} /\ UNCHANGED Bitfield
  BY DEF Register, Goto, Registered, Live, TypeOK
<1>2. Availability[p] \in Nat /\ Availability[p] <= Cardinality(Owners(p))
  BY DEF TypeOK, NoOfflinePeerCounted
<1>3. CASE p \in Bitfield[w]
  <2>1. Owners(p)' = Owners(p) \cup {w} /\ w \notin Owners(p)
    BY <1>1, <1>3 DEF Owners
  <2>2. Cardinality(Owners(p)') = Cardinality(Owners(p)) + 1
    BY <2>1, OwnersFinite, FS_AddElement
  <2>3. Availability'[p] = Availability[p] + 1
    BY <1>3 DEF Register, RegisterPeerBitfield
  <2> QED
    BY <1>2, <2>2, <2>3, OwnersFinite
<1>4. CASE p \notin Bitfield[w]
  <2>1. Owners(p)' = Owners(p)
    BY <1>1, <1>4 DEF Owners
  <2>2. Availability'[p] = Availability[p]
    BY <1>4 DEF Register, RegisterPeerBitfield
  <2> QED
    BY <1>2, <2>1, <2>2
<1> QED
  BY <1>3, <1>4

\* UnregisterPeerBitfield takes the leaving worker off every piece it owns,
\* unless the count has already reached zero.
LEMMA UnregisterForgets ==
    ASSUME TypeOK, NoOfflinePeerCounted, NEW w \in Conns, Unregister(w)
    PROVE  NoOfflinePeerCounted'
<1> SUFFICES ASSUME NEW p \in Pieces
             PROVE  Availability'[p] <= Cardinality(Owners(p)')
  BY DEF NoOfflinePeerCounted
<1>1. w \in Registered /\ Registered' = Registered \ {w} /\ UNCHANGED Bitfield
  BY DEF Unregister, Goto, Registered, Live, TypeOK
<1>2. Availability[p] \in Nat /\ Availability[p] <= Cardinality(Owners(p))
  BY DEF TypeOK, NoOfflinePeerCounted
<1>3. CASE p \in Bitfield[w]
  <2>1. Owners(p)' = Owners(p) \ {w} /\ w \in Owners(p)
    BY <1>1, <1>3 DEF Owners
  <2>2. Cardinality(Owners(p)') = Cardinality(Owners(p)) - 1
    BY <2>1, OwnersFinite, FS_RemoveElement
  <2>3. Availability'[p] = IF Availability[p] > 0 THEN Availability[p] - 1
                                                  ELSE Availability[p]
    BY <1>3 DEF Unregister, UnregisterPeerBitfield
  <2> QED
    BY <1>2, <2>2, <2>3, OwnersFinite
<1>4. CASE p \notin Bitfield[w]
  <2>1. Owners(p)' = Owners(p)
    BY <1>1, <1>4 DEF Owners
  <2>2. Availability'[p] = Availability[p]
    BY <1>4 DEF Unregister, UnregisterPeerBitfield
  <2> QED
    BY <1>2, <2>1, <2>2
<1> QED
  BY <1>3, <1>4

\* Every step keeps the counts below the number of owners.
LEMMA StepOwnersCounted ==
    TypeOK /\ NoOfflinePeerCounted /\ [Next]_vars => NoOfflinePeerCounted'
<1> SUFFICES ASSUME TypeOK, NoOfflinePeerCounted, [Next]_vars
             PROVE  NoOfflinePeerCounted'
  OBVIOUS
<1>1. ASSUME NEW w \in Conns, Worker(w), ~Register(w), ~Unregister(w)
      PROVE  NoOfflinePeerCounted'
  <2>1. UNCHANGED <<Availability, Bitfield>>
    BY <1>1
       DEF Worker, Fetch, CheckContext, NextPriority, ClaimPriority, claimPiece,
           TakePiece, NextNoPriority, NoPriority, SelectPiece, Select,
           SelectFails, SelectNothing, ReadStats, WaitASecond, Downloads,
           DownloadFails, ReturnToPending, VerifyFails, MarkFailed, Ban,
           BlacklistPeer, WritePiece, WriteFails, Complete, MarkComplete,
           CheckComplete, pmVars, rarity
  <2>2. /\ w \in Registered
        /\ pc' \in [Conns -> States]
        /\ pc'[w] \notin {"absent", "dialing", "start", "gone"}
        /\ \A v \in Conns \ {w} : pc'[v] = pc[v]
    BY <1>1
       DEF Worker, Fetch, CheckContext, NextPriority, NextNoPriority,
           SelectPiece, SelectFails, ReadStats, WaitASecond, Downloads,
           DownloadFails, VerifyFails, Ban, WritePiece, WriteFails, Complete,
           CheckComplete, Goto, Registered, Live, TypeOK, States
  <2>3. Registered \subseteq Registered'
    BY <2>2 DEF Registered, Live
  <2> QED
    BY <2>1, <2>3, OwnersGrow
<1>2. CASE Environment \/ UNCHANGED vars
  <2>1. UNCHANGED Availability
    BY <1>2
       DEF Environment, Dial, DialEnds, Accept, HandleHave, Seek,
           SetPriorityPieces, CloseAll, DiskFails, Cancel, vars, pmVars, rarity
  <2>2. \A v \in Conns : Bitfield[v] \subseteq Bitfield'[v]
    BY <1>2
       DEF Environment, Dial, DialEnds, Accept, HandleHave, Seek, CloseAll,
           DiskFails, Cancel, vars, workerVars, TypeOK
  <2>3. Registered \subseteq Registered'
    BY <1>2
       DEF Environment, Dial, DialEnds, Accept, HandleHave, Seek, CloseAll,
           DiskFails, Cancel, vars, workerVars, Goto, Registered, Live, TypeOK
  <2> QED
    BY <2>1, <2>2, <2>3, OwnersGrow
<1> QED
  BY <1>1, <1>2, RegisterCounts, UnregisterForgets DEF Next

(***************************************************************************)
(* Whatever bitfields peers open with, announce later and take away when   *)
(* they leave, a piece is never counted for more peers than are connected  *)
(* and own it: rarest-first does not chase pieces of peers that are gone.  *)
(***************************************************************************)
THEOREM OfflinePeersAreForgotten == Spec => []NoOfflinePeerCounted
<1>1. Init => TypeOK /\ NoOfflinePeerCounted
  BY InitTypeOK, InitCounted
<1>2. TypeOK /\ NoOfflinePeerCounted /\ [Next]_vars => (TypeOK /\ NoOfflinePeerCounted)'
  BY StepTypeOK, StepOwnersCounted
<1> QED
  BY <1>1, <1>2, PTL DEF Spec
-----------------------------------------------------------------------------
(* Poisoners and the retry limit. *)

\* The corrupt pieces counted so far: the first, second, ... of each poisoner.
Strikes == {s \in Poisoners \X (1 .. CorruptLimit) : s[2] <= CorruptCount[s[1]]}

\* Only poisoners are struck, and one with all its strikes is on its way out.
StrikesCounted ==
    /\ \A w \in Conns : CorruptCount[w] > 0 => w \in Poisoners
    /\ \A w \in Conns : CorruptCount[w] <= CorruptLimit
    /\ \A w \in Conns : CorruptCount[w] = CorruptLimit => pc[w] \in {"ban", "exit", "gone"}

\* The retry limit leaves room for every strike of every poisoner.
FewPoisoners == CorruptLimit * Cardinality(Poisoners) <= MaxRetries

\* While the disk is well every failed attempt at a piece is a strike.
FailuresAreStrikes ==
    /\ PermanentlyFailed = {}
    /\ \A p \in Pieces : FailedAttempts[p] <= Cardinality(Strikes)

\* The poisoners are finitely many.
LEMMA PoisonersFinite == IsFiniteSet(Poisoners) /\ Cardinality(Poisoners) \in Nat
<1>1. Poisoners \subseteq Conns /\ IsFiniteSet(Conns)
  BY WorkersAssumption DEF Poisoners
<1> QED
  BY <1>1, FS_Subset, FS_CardinalityType

\* How many strikes all poisoners together are allowed.
LEMMA AllStrikes ==
    /\ IsFiniteSet(Poisoners \X (1 .. CorruptLimit))
    /\ Cardinality(Poisoners \X (1 .. CorruptLimit)) = CorruptLimit * Cardinality(Poisoners)
<1> DEFINE limit == 1 .. CorruptLimit
<1>1. IsFiniteSet(limit) /\ Cardinality(limit) = CorruptLimit
  <2>1. limit = {1} \cup {2} /\ 2 \notin {1}
    BY DEF CorruptLimit
  <2>2. IsFiniteSet({1}) /\ Cardinality({1}) = 1
    BY FS_Singleton
  <2>3. IsFiniteSet({1} \cup {2}) /\ Cardinality({1} \cup {2}) = 1 + 1
    BY <2>1, <2>2, FS_AddElement
  <2> QED
    BY <2>1, <2>3 DEF CorruptLimit
<1> HIDE DEF limit
<1>2. /\ IsFiniteSet(Poisoners \X limit)
      /\ Cardinality(Poisoners \X limit) = Cardinality(Poisoners) * Cardinality(limit)
  BY <1>1, PoisonersFinite, FS_Product
<1>3. Cardinality(Poisoners \X limit) = CorruptLimit * Cardinality(Poisoners)
  BY <1>1, <1>2, PoisonersFinite DEF CorruptLimit
<1> QED
  BY <1>2, <1>3 DEF limit

\* There are at most as many strikes as all poisoners together are allowed.
StrikesFit ==
    /\ IsFiniteSet(Strikes) /\ Cardinality(Strikes) \in Nat
    /\ Cardinality(Strikes) <= CorruptLimit * Cardinality(Poisoners)

LEMMA StrikesBounded == StrikesFit
<1>1. Strikes \subseteq Poisoners \X (1 .. CorruptLimit)
  BY DEF Strikes
<1>2. /\ IsFiniteSet(Strikes)
      /\ Cardinality(Strikes) <= Cardinality(Poisoners \X (1 .. CorruptLimit))
  BY <1>1, AllStrikes, FS_Subset
<1> QED
  BY <1>2, AllStrikes, FS_CardinalityType DEF StrikesFit

\* Initially nobody is struck and nothing has failed.
LEMMA InitStrikes == Init => StrikesCounted /\ FailuresAreStrikes
<1> SUFFICES ASSUME Init PROVE StrikesCounted /\ FailuresAreStrikes
  OBVIOUS
<1>1. /\ \A w \in Conns : CorruptCount[w] = 0
      /\ PermanentlyFailed = {}
      /\ \A p \in Pieces : FailedAttempts[p] = 0
  BY DEF Init, InitManager
<1>2. StrikesCounted
  BY <1>1 DEF StrikesCounted, CorruptLimit
<1>3. FailuresAreStrikes
  <2>1. 0 <= Cardinality(Strikes)
    BY StrikesBounded DEF StrikesFit
  <2> QED
    BY <1>1, <2>1 DEF FailuresAreStrikes
<1> QED
  BY <1>2, <1>3

\* A corrupt piece that is counted is one strike more.
LEMMA StrikeIsNew ==
    ASSUME TypeOK, StrikesCounted, NEW w \in Conns, VerifyFails(w)
    PROVE  /\ CorruptCount[w] + 1 \in 1 .. CorruptLimit
           /\ CorruptCount' = [CorruptCount EXCEPT ![w] = @ + 1]
                 => /\ Strikes' = Strikes \cup {<<w, CorruptCount[w] + 1>>}
                    /\ Cardinality(Strikes') = Cardinality(Strikes) + 1
<1>1. w \in Poisoners /\ pc[w] = "download"
  BY DEF VerifyFails, Poisoners
<1>2. CorruptCount[w] \in Nat /\ CorruptCount[w] <= CorruptLimit /\ CorruptCount[w] # CorruptLimit
  BY <1>1 DEF TypeOK, StrikesCounted
<1>3. CorruptCount[w] + 1 \in 1 .. CorruptLimit
  BY <1>2 DEF CorruptLimit
<1>4. ASSUME CorruptCount' = [CorruptCount EXCEPT ![w] = @ + 1]
      PROVE  /\ Strikes' = Strikes \cup {<<w, CorruptCount[w] + 1>>}
             /\ <<w, CorruptCount[w] + 1>> \notin Strikes
  <2>1. <<w, CorruptCount[w] + 1>> \notin Strikes
    BY <1>2 DEF Strikes
  <2>2. CorruptCount'[w] = CorruptCount[w] + 1
    BY <1>4 DEF TypeOK
  <2>3. \A v \in Poisoners : v # w => CorruptCount'[v] = CorruptCount[v]
    BY <1>4 DEF TypeOK, Poisoners
  <2>4. ASSUME NEW v \in Poisoners, NEW i \in 1 .. CorruptLimit
        PROVE  i <= CorruptCount'[v]
                 <=> (i <= CorruptCount[v] \/ <<v, i>> = <<w, CorruptCount[w] + 1>>)
    <3>1. CASE v = w
      BY <3>1, <1>2, <2>2 DEF CorruptLimit
    <3>2. CASE v # w
      BY <3>2, <2>3
    <3> QED
      BY <3>1, <3>2
  <2>5. <<w, CorruptCount[w] + 1>> \in Poisoners \X (1 .. CorruptLimit)
    BY <1>1, <1>3
  <2> QED
    BY <2>1, <2>4, <2>5 DEF Strikes, Poisoners
<1>5. ASSUME CorruptCount' = [CorruptCount EXCEPT ![w] = @ + 1]
      PROVE  Cardinality(Strikes') = Cardinality(Strikes) + 1
  BY <1>4, <1>5, StrikesBounded, FS_AddElement DEF StrikesFit
<1> QED
  BY <1>3, <1>4, <1>5

\* There is room for the strike a failed verification would add.
LEMMA StrikeLeavesRoom ==
    ASSUME TypeOK, StrikesCounted, NEW w \in Conns, VerifyFails(w)
    PROVE  Cardinality(Strikes) + 1 <= CorruptLimit * Cardinality(Poisoners)
<1> DEFINE s == <<w, CorruptCount[w] + 1>>
           all == Poisoners \X (1 .. CorruptLimit)
<1>1. w \in Poisoners /\ CorruptCount[w] \in Nat
  BY DEF VerifyFails, Poisoners, TypeOK
<1>2. s \in all
  BY <1>1, StrikeIsNew
<1>3. s \notin Strikes
  BY <1>1 DEF Strikes
<1>4. Strikes \subseteq all \ {s}
  BY <1>3 DEF Strikes
<1>5. IsFiniteSet(all) /\ Cardinality(all) = CorruptLimit * Cardinality(Poisoners)
  BY AllStrikes
<1> HIDE DEF s, all
<1>6. /\ IsFiniteSet(all \ {s})
      /\ Cardinality(all \ {s}) = Cardinality(all) - 1
  BY <1>2, <1>5, FS_RemoveElement
<1>7. Cardinality(Strikes) <= Cardinality(all \ {s})
  BY <1>4, <1>6, FS_Subset
<1>8. Cardinality(Strikes) \in Nat /\ Cardinality(all) \in Nat
  BY <1>5, StrikesBounded, FS_CardinalityType DEF StrikesFit
<1>9. Cardinality(Strikes) + 1 <= Cardinality(all)
  BY <1>6, <1>7, <1>8
<1> QED
  BY <1>5, <1>9

\* A step keeps the strikes of every worker below the limit.
LEMMA StepStrikes == TypeOK /\ StrikesCounted /\ [Next]_vars => StrikesCounted'
<1> SUFFICES ASSUME TypeOK, StrikesCounted, [Next]_vars PROVE StrikesCounted'
  OBVIOUS
<1>1. ASSUME NEW w \in Conns, VerifyFails(w) PROVE StrikesCounted'
  <2>1. /\ pc[w] = "download" /\ pc'[w] \in {"exit", "ban", "loop"}
        /\ \A v \in Conns \ {w} : pc'[v] = pc[v]
        /\ \A v \in Conns \ {w} : CorruptCount'[v] = CorruptCount[v]
        /\ w \in Poisoners
    BY <1>1 DEF VerifyFails, Goto, TypeOK, Poisoners, CorruptLimit
  <2>2. CorruptCount[w] + 1 \in 1 .. CorruptLimit
    BY <1>1, StrikeIsNew
  <2>3. \/ CorruptCount'[w] = CorruptCount[w] /\ pc'[w] = "exit"
        \/ /\ CorruptCount'[w] = CorruptCount[w] + 1
           /\ CorruptCount'[w] >= CorruptLimit => pc'[w] = "ban"
    BY <1>1 DEF VerifyFails, Goto, TypeOK, CorruptLimit
  <2>4. CorruptCount[w] \in Nat
    BY DEF TypeOK
  <2>5. CorruptCount'[w] <= CorruptLimit
    BY <2>2, <2>3, <2>4 DEF CorruptLimit
  <2>6. CorruptCount'[w] = CorruptLimit => pc'[w] \in {"ban", "exit", "gone"}
    BY <2>2, <2>3, <2>4 DEF CorruptLimit
  <2> QED
    BY <2>1, <2>5, <2>6 DEF StrikesCounted
<1>2. ASSUME UNCHANGED CorruptCount,
             \A v \in Conns : pc[v] \in {"ban", "exit", "gone"}
                                => pc'[v] \in {"ban", "exit", "gone"}
      PROVE  StrikesCounted'
  BY <1>2 DEF StrikesCounted
<1>3. ASSUME NEW w \in Conns, Worker(w), ~VerifyFails(w) PROVE StrikesCounted'
  <2>1. UNCHANGED CorruptCount
    BY <1>3
       DEF Worker, Fetch, Register, CheckContext, NextPriority, TakePiece,
           NextNoPriority, SelectPiece, SelectFails, ReadStats, WaitASecond,
           Downloads, DownloadFails, Ban, WritePiece, WriteFails, Complete,
           CheckComplete, Unregister
  <2>2. /\ pc[w] \notin {"ban", "exit", "gone"} \/ pc'[w] \in {"exit", "gone"}
        /\ \A v \in Conns \ {w} : pc'[v] = pc[v]
    BY <1>3
       DEF Worker, Fetch, Register, CheckContext, NextPriority, NextNoPriority,
           SelectPiece, SelectFails, ReadStats, WaitASecond, Downloads,
           DownloadFails, Ban, WritePiece, WriteFails, Complete, CheckComplete,
           Unregister, Goto, TypeOK
  <2> QED
    BY <1>2, <2>1, <2>2
<1>4. CASE Environment \/ UNCHANGED vars
  <2>1. UNCHANGED CorruptCount
    BY <1>4 DEF Environment, Dial, DialEnds, Accept, HandleHave, Seek, CloseAll,
                DiskFails, Cancel, vars, workerVars
  <2>2. \A v \in Conns : pc[v] \in {"ban", "exit", "gone"} => pc'[v] = pc[v]
    BY <1>4 DEF Environment, Dial, DialEnds, Accept, HandleHave, Seek, CloseAll,
                DiskFails, Cancel, vars, workerVars, Goto, TypeOK
  <2> QED
    BY <1>2, <2>1, <2>2
<1> QED
  BY <1>1, <1>3, <1>4 DEF Next

\* As long as the disk is well nothing fails but a verification, and with few
\* poisoners the strike it adds finds room below the retry limit.
LEMMA StepFailures ==
    TypeOK /\ StrikesCounted /\ FewPoisoners /\ (~diskFailed => FailuresAreStrikes)
      /\ [Next]_vars => (~diskFailed => FailuresAreStrikes)'
<1> SUFFICES ASSUME TypeOK, StrikesCounted, FewPoisoners,
                    ~diskFailed => FailuresAreStrikes, [Next]_vars, ~diskFailed'
             PROVE  FailuresAreStrikes'
  OBVIOUS
<1>1. ~diskFailed
  BY DEF Next, Worker, Fetch, Register, CheckContext, NextPriority, TakePiece,
         NextNoPriority, SelectPiece, SelectFails, ReadStats, WaitASecond,
         Downloads, DownloadFails, VerifyFails, Ban, WritePiece, WriteFails,
         Complete, CheckComplete, Unregister, Environment, Dial, DialEnds,
         Accept, HandleHave, Seek, CloseAll, DiskFails, Cancel, vars, envVars
<1>2. FailuresAreStrikes
  BY <1>1
<1>3. ASSUME NEW w \in Conns, VerifyFails(w) PROVE FailuresAreStrikes'
  <2>1. held[w] \in Pieces
    BY <1>3 DEF VerifyFails, TypeOK, Holding
  <2>2. FailedAttempts[held[w]] + 1 <= MaxRetries
    <3>2. Cardinality(Strikes) + 1 <= CorruptLimit * Cardinality(Poisoners)
      BY <1>3, StrikeLeavesRoom
    <3>3. FailedAttempts[held[w]] <= Cardinality(Strikes)
      BY <1>2, <2>1 DEF FailuresAreStrikes
    <3>4. FailedAttempts[held[w]] \in Nat /\ Cardinality(Strikes) \in Nat
      BY <2>1, StrikesBounded DEF TypeOK, StrikesFit
    <3>5. Cardinality(Strikes) + 1 <= MaxRetries
      BY <3>2, <3>4, PoisonersFinite, ManagerAssumption DEF FewPoisoners, CorruptLimit
    <3> QED
      BY <3>3, <3>4, <3>5, ManagerAssumption
  <2>3. ~Exhausted(held[w])
    BY <2>1, <2>2, ManagerAssumption DEF Exhausted, TypeOK
  <2>4. CorruptCount' = [CorruptCount EXCEPT ![w] = @ + 1]
    BY <1>3, <2>3 DEF VerifyFails
  <2>5. Cardinality(Strikes') = Cardinality(Strikes) + 1
    BY <1>3, <2>4, StrikeIsNew
  <2>6. /\ UNCHANGED PermanentlyFailed
        /\ FailedAttempts' = [FailedAttempts EXCEPT ![held[w]] = @ + 1]
    BY <1>3, <2>3 DEF VerifyFails, MarkFailed
  <2>7. ASSUME NEW p \in Pieces PROVE FailedAttempts'[p] <= Cardinality(Strikes')
    <3>1. FailedAttempts[p] \in Nat /\ Cardinality(Strikes) \in Nat
      BY StrikesBounded DEF TypeOK, StrikesFit
    <3>2. FailedAttempts'[p] \in {FailedAttempts[p], FailedAttempts[p] + 1}
      BY <2>6 DEF TypeOK
    <3>3. FailedAttempts[p] <= Cardinality(Strikes)
      BY <1>2 DEF FailuresAreStrikes
    <3> QED
      BY <2>5, <3>1, <3>2, <3>3
  <2> QED
    BY <1>2, <2>6, <2>7 DEF FailuresAreStrikes
<1>4. ASSUME UNCHANGED <<FailedAttempts, PermanentlyFailed, CorruptCount>>
      PROVE  FailuresAreStrikes'
  BY <1>2, <1>4 DEF FailuresAreStrikes, Strikes
<1>5. ASSUME NEW w \in Conns, Worker(w), ~VerifyFails(w) PROVE FailuresAreStrikes'
  <2>1. ~WriteFails(w)
    BY <1>1 DEF WriteFails
  <2>2. UNCHANGED <<FailedAttempts, PermanentlyFailed, CorruptCount>>
    BY <1>5, <2>1
       DEF Worker, Fetch, Register, RegisterPeerBitfield, CheckContext,
           NextPriority, ClaimPriority, claimPiece, TakePiece, NextNoPriority,
           NoPriority, SelectPiece, Select, SelectFails, SelectNothing,
           ReadStats, WaitASecond, Downloads, DownloadFails, ReturnToPending,
           Ban, BlacklistPeer, WritePiece, Complete, MarkComplete,
           CheckComplete, Unregister, UnregisterPeerBitfield, pmVars, ledger
  <2> QED
    BY <1>4, <2>2
<1>6. CASE Environment \/ UNCHANGED vars
  <2>1. UNCHANGED <<FailedAttempts, PermanentlyFailed, CorruptCount>>
    BY <1>6 DEF Environment, Dial, DialEnds, Accept, HandleHave, Seek,
                SetPriorityPieces, CloseAll, DiskFails, Cancel, vars, workerVars,
                pmVars, ledger
  <2> QED
    BY <1>4, <2>1
<1> QED
  BY <1>3, <1>5, <1>6 DEF Next

(***************************************************************************)
(* Poisoners alone never get a piece given up while the retry limit of a   *)
(* piece is at least the strike limit of a peer times their number: each   *)
(* is banned before, however their strikes are spread over the pieces.     *)
(***************************************************************************)
PoisonersCannotKill == FewPoisoners /\ ~diskFailed => PermanentlyFailed = {}

THEOREM FewPoisonersAreHarmless == Spec => []PoisonersCannotKill
<1> DEFINE Known == FewPoisoners /\ ~diskFailed => FailuresAreStrikes
           IInv == TypeOK /\ StrikesCounted /\ Known
<1>1. Init => IInv
  BY InitTypeOK, InitStrikes
<1>2. IInv /\ [Next]_vars => IInv'
  <2>1. FewPoisoners' <=> FewPoisoners
    BY DEF FewPoisoners, Poisoners, CorruptLimit
  <2> QED
    BY <2>1, StepTypeOK, StepStrikes, StepFailures
<1>3. IInv => PoisonersCannotKill
  BY DEF FailuresAreStrikes, PoisonersCannotKill
<1> QED
  BY <1>1, <1>2, <1>3, PTL DEF Spec

(***************************************************************************)
(* The case the run checks: the two strikes of a single corrupting peer,   *)
(* and a retry limit of at least two.                                      *)
(***************************************************************************)
THEOREM OnePoisonerIsHarmless == Spec => []OnePoisonerCannotKill
<1>1. PoisonersCannotKill => OnePoisonerCannotKill
  <2>1. Cardinality(Poisoners) <= 1 /\ MaxRetries >= 2 => FewPoisoners
    BY PoisonersFinite, ManagerAssumption DEF FewPoisoners, CorruptLimit
  <2> QED
    BY <2>1 DEF PoisonersCannotKill, OnePoisonerCannotKill
<1> QED
  BY <1>1, FewPoisonersAreHarmless, PTL

-----------------------------------------------------------------------------
(* Who is blacklisted. *)

StruckOut(w) == CorruptCount[w] = CorruptLimit

\* A worker goes to Ban after the last strike only, and leaves the host banned.
BansAreForStrikes ==
    /\ \A w \in Conns : StruckOut(w) => pc[w] = "ban" \/ Host[w] \in BlacklistedPeers
    /\ \A w \in Conns : pc[w] = "ban" => StruckOut(w)
    /\ \A host \in BlacklistedPeers : \E w \in Conns : Host[w] = host /\ StruckOut(w)

LEMMA StepBans ==
    TypeOK /\ StrikesCounted /\ BansAreForStrikes /\ [Next]_vars => BansAreForStrikes'
<1> SUFFICES ASSUME TypeOK, StrikesCounted, BansAreForStrikes, [Next]_vars
             PROVE  BansAreForStrikes'
  OBVIOUS
<1> USE DEF BansAreForStrikes, StruckOut, Goto, workerVars, envVars, pmVars, CorruptLimit
<1>1. pc \in [Conns -> States] /\ CorruptCount \in [Conns -> Nat]
  BY DEF TypeOK, States
<1>2. ASSUME NEW w \in Conns, VerifyFails(w) PROVE BansAreForStrikes'
  <2>1. CorruptCount[w] < CorruptLimit /\ UNCHANGED BlacklistedPeers
    BY <1>1, <1>2 DEF VerifyFails, MarkFailed, StrikesCounted
  <2>2. \/ UNCHANGED CorruptCount /\ pc' = [pc EXCEPT ![w] = "exit"]
        \/ /\ CorruptCount' = [CorruptCount EXCEPT ![w] = @ + 1]
           /\ pc' = [pc EXCEPT ![w] = IF CorruptCount'[w] >= CorruptLimit THEN "ban" ELSE "loop"]
    BY <1>2 DEF VerifyFails
  <2> QED
    BY <1>1, <1>2, <2>1, <2>2 DEF VerifyFails
<1>3. ASSUME NEW w \in Conns, Ban(w) PROVE BansAreForStrikes'
  BY <1>1, <1>3 DEF Ban, BlacklistPeer
<1>4. ASSUME UNCHANGED <<CorruptCount, BlacklistedPeers>>,
             \A w \in Conns : pc'[w] = "ban" <=> pc[w] = "ban"
      PROVE  BansAreForStrikes'
  BY <1>4
<1>5. ASSUME NEW w \in Conns,
             \/ Register(w) \/ CheckContext(w) \/ NextPriority(w) \/ NextNoPriority(w)
             \/ SelectPiece(w) \/ SelectFails(w) \/ ReadStats(w) \/ WaitASecond(w)
             \/ Downloads(w) \/ DownloadFails(w) \/ WritePiece(w) \/ WriteFails(w)
             \/ Complete(w) \/ CheckComplete(w) \/ Unregister(w)
      PROVE  BansAreForStrikes'
  <2>1. UNCHANGED <<CorruptCount, BlacklistedPeers>>
    BY <1>5 DEF Register, RegisterPeerBitfield, CheckContext, NextPriority, ClaimPriority,
       claimPiece, TakePiece, NextNoPriority, NoPriority, SelectPiece, Select, SelectFails,
       SelectNothing, ReadStats, WaitASecond, Downloads, DownloadFails, ReturnToPending,
       WritePiece, WriteFails, MarkFailed, Complete, MarkComplete, CheckComplete,
       Unregister, UnregisterPeerBitfield
  <2>2. \A v \in Conns : pc'[v] = "ban" <=> pc[v] = "ban"
    BY <1>1, <1>5 DEF Register, CheckContext, NextPriority, NextNoPriority, SelectPiece,
       SelectFails, ReadStats, WaitASecond, Downloads, DownloadFails, WritePiece,
       WriteFails, Complete, CheckComplete, Unregister
  <2> QED
    BY <1>4, <2>1, <2>2
<1>6. CASE Environment \/ UNCHANGED vars
  <2>1. UNCHANGED <<CorruptCount, BlacklistedPeers>>
    BY <1>6 DEF Environment, Dial, DialEnds, Accept, HandleHave, Seek, SetPriorityPieces,
       CloseAll, DiskFails, Cancel, vars
  <2>2. \A v \in Conns : pc'[v] = "ban" <=> pc[v] = "ban"
    BY <1>1, <1>6 DEF Environment, Dial, DialEnds, Accept, HandleHave, Seek,
       CloseAll, DiskFails, Cancel, vars
  <2> QED
    BY <1>4, <2>1, <2>2
<1> QED
  BY <1>2, <1>3, <1>5, <1>6 DEF Next, Worker, Fetch

\* A peer with two corrupt pieces gets no third: its worker is about to ban it, or
\* is leaving with its host on the blacklist.  Nobody is on it for less.
BannedForStrikes ==
    /\ \A w \in Conns : CorruptCount[w] >= CorruptLimit =>
          \/ pc[w] = "ban"
          \/ pc[w] \in {"exit", "gone"} /\ Host[w] \in BlacklistedPeers
    /\ \A host \in BlacklistedPeers :
          \E w \in Poisoners : Host[w] = host /\ CorruptCount[w] >= CorruptLimit

(***************************************************************************)
(* The strike limit bans exactly the peers that sent that many corrupt     *)
(* pieces, however their downloads interleave with those of others and     *)
(* with the retry limits of the pieces (worker.go:93-101).                 *)
(***************************************************************************)
THEOREM OnlyStrikesBan == Spec => []BannedForStrikes
<1>1. Init => TypeOK /\ StrikesCounted /\ BansAreForStrikes
  <2>1. Init => BansAreForStrikes
    BY DEF Init, InitManager, BansAreForStrikes, StruckOut, CorruptLimit
  <2> QED
    BY <2>1, InitTypeOK, InitStrikes
<1>2. TypeOK /\ StrikesCounted /\ BansAreForStrikes /\ [Next]_vars
        => (TypeOK /\ StrikesCounted /\ BansAreForStrikes)'
  BY StepTypeOK, StepStrikes, StepBans
<1>3. TypeOK /\ StrikesCounted /\ BansAreForStrikes => BannedForStrikes
  <2> SUFFICES ASSUME TypeOK, StrikesCounted, BansAreForStrikes PROVE BannedForStrikes
    OBVIOUS
  <2>1. \A w \in Conns : CorruptCount[w] \in Nat /\ CorruptCount[w] <= CorruptLimit
    BY DEF TypeOK, StrikesCounted
  <2>2. \A w \in Conns : CorruptCount[w] >= CorruptLimit => StruckOut(w)
    BY <2>1 DEF StruckOut, CorruptLimit
  <2>3. \A w \in Conns : StruckOut(w) => w \in Poisoners /\ CorruptCount[w] >= CorruptLimit
    BY <2>1 DEF StruckOut, CorruptLimit, StrikesCounted
  <2> QED
    BY <2>2, <2>3 DEF BannedForStrikes, BansAreForStrikes, StrikesCounted, StruckOut
<1> QED
  BY <1>1, <1>2, <1>3, PTL DEF Spec
=============================================================================
