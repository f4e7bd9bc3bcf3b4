------------------------------- MODULE Workers -------------------------------
(***************************************************************************)
(* The download workers of a swarm on one PieceManager:                    *)
(* internal/piece/worker.go (StartWorker), with what reaches them from     *)
(* outside: the connections scheduler.go starts, the priorities the        *)
(* streaming reader sets, the announcements of the peers, the verdict of   *)
(* the disk writer, and the cancellation of the context.                   *)
(*                                                                         *)
(* One worker per connection.  Its program counter names the statement it  *)
(* is about to run; every step is one critical section of the manager or   *)
(* one call that can block.  A download is one step: DownloadPiece touches *)
(* nothing shared, so only its outcome matters here.                       *)
(***************************************************************************)
EXTENDS PieceManager

CONSTANTS Conns,         \* connections, each used at most once
          Initial,       \* those Download dialled before starting the scheduler
          PexConns,      \* those the PEX dialer may open; the rest are inbound
          Host,          \* the IP address at the other end of a connection
          Answers,       \* what a peer may do with a piece request
          Bitfields,     \* the bitfields a peer may open with
          ResumeSets,    \* the pieces that may verify on disk at startup
          PrioritySets,  \* the piece sets the streaming reader may ask for
          DiskMayFail

Outcome == {"data", "corrupt", "error", "lost"}

ASSUME WorkersAssumption ==
    /\ IsFiniteSet(Conns)
    /\ Initial \subseteq Conns
    /\ PexConns \subseteq Conns
    /\ Host \in [Conns -> Hosts]
    /\ Answers \in [Conns -> SUBSET Outcome]
    /\ Bitfields \in [Conns -> SUBSET SUBSET Pieces]
    /\ ResumeSets \subseteq SUBSET Pieces
    /\ PrioritySets \subseteq SUBSET Pieces
    /\ DiskMayFail \in BOOLEAN

VARIABLES pc,            \* the statement each worker is about to run
          Bitfield,      \* client.State.Bitfield
          held,          \* pieceIndex, while the worker has one; else NoPiece
          CorruptCount,  \* client.State.CorruptCount
          closed,        \* connections the scheduler closed under their worker
          completions,   \* completeChan has been signalled
          cancelled,     \* ctx is done
          accepted,      \* pieces the disk writer took, or had at startup
          diskFailed     \* the disk writer's sticky error is set

NoPiece == -1

workerVars == <<pc, Bitfield, held, CorruptCount>>
envVars    == <<closed, completions, cancelled, accepted, diskFailed>>
vars       == <<pmVars, workerVars, envVars>>

Live == {w \in Conns : pc[w] \notin {"absent", "dialing", "gone"}}

\* Between RegisterPeerBitfield and the deferred UnregisterPeerBitfield.
Registered == {w \in Live : pc[w] # "start"}

\* Holding a piece that it has neither completed, failed nor returned.
Holding(w) == pc[w] \in {"download", "write", "complete"}

Init ==
    /\ \E verified \in ResumeSets :
          /\ verified # Pieces   \* Download returns before the scheduler
          /\ InitManager(verified)
          /\ accepted = verified
    /\ pc = [w \in Conns |-> IF w \in Initial THEN "start" ELSE "absent"]
    /\ Bitfield \in {f \in [Conns -> SUBSET Pieces] :
                        \A w \in Conns : f[w] \in Bitfields[w]}
    /\ held = [w \in Conns |-> NoPiece]
    /\ CorruptCount = [w \in Conns |-> 0]
    /\ closed = {}
    /\ completions = FALSE
    /\ cancelled = FALSE
    /\ diskFailed = FALSE

-----------------------------------------------------------------------------
(* Steps of one worker. *)

Goto(w, from, to) == pc[w] = from /\ pc' = [pc EXCEPT ![w] = to]

Register(w) ==
    /\ Goto(w, "start", "loop")
    /\ RegisterPeerBitfield(Bitfield[w])
    /\ UNCHANGED <<Bitfield, held, CorruptCount, envVars>>

\* Mutant of CheckContext: the context is not looked at.
SkipContext(w) ==
    /\ Goto(w, "loop", "next")
    /\ UNCHANGED <<pmVars, Bitfield, held, CorruptCount, envVars>>

\* The select at the top of the loop: leave if the context is done.
CheckContext(w) ==
    /\ Goto(w, "loop", IF cancelled THEN "exit" ELSE "next")
    /\ UNCHANGED <<pmVars, Bitfield, held, CorruptCount, envVars>>

TakePiece(w, p) ==
    /\ held' = [held EXCEPT ![w] = p]
    /\ UNCHANGED <<Bitfield, CorruptCount, envVars>>

NextPriority(w) ==
    /\ Goto(w, "next", "download")
    /\ \E p \in Pieces : ClaimPriority(Bitfield[w], p) /\ TakePiece(w, p)

NextNoPriority(w) ==
    /\ Goto(w, "next", "select")
    /\ NoPriority(Bitfield[w])
    /\ UNCHANGED <<Bitfield, held, CorruptCount, envVars>>

SelectPiece(w) ==
    /\ Goto(w, "select", "download")
    /\ \E p \in Pieces : Select(Bitfield[w], p) /\ TakePiece(w, p)

SelectFails(w) ==
    /\ Goto(w, "select", "stats")
    /\ SelectNothing(Bitfield[w])
    /\ UNCHANGED <<Bitfield, held, CorruptCount, envVars>>

\* No piece for this peer: leave when none is pending or in progress anywhere,
\* else wait a second and ask again.
ReadStats(w) ==
    /\ Goto(w, "stats", IF NothingLeft THEN "exit" ELSE "wait")
    /\ UNCHANGED <<pmVars, Bitfield, held, CorruptCount, envVars>>

WaitASecond(w) ==
    /\ \/ Goto(w, "wait", "loop")
       \/ cancelled /\ Goto(w, "wait", "exit")
    /\ UNCHANGED <<pmVars, Bitfield, held, CorruptCount, envVars>>

Drop(w) == held' = [held EXCEPT ![w] = NoPiece]

\* DownloadPiece and VerifyPiece succeed.
Downloads(w) ==
    /\ Goto(w, "download", "write")
    /\ w \notin closed /\ "data" \in Answers[w]
    /\ UNCHANGED <<pmVars, Bitfield, held, CorruptCount, envVars>>

\* DownloadPiece fails: the worker goes on unless the connection is lost.
DownloadFails(w) ==
    /\ \/ /\ Goto(w, "download", "loop")
          /\ w \notin closed /\ "error" \in Answers[w]
       \/ /\ Goto(w, "download", "exit")
          /\ w \in closed \/ "lost" \in Answers[w]
    /\ ReturnToPending(held[w])
    /\ Drop(w)
    /\ UNCHANGED <<Bitfield, CorruptCount, envVars>>

\* The corrupt pieces that get a peer banned.
CorruptLimit == 2

\* VerifyPiece fails.  A piece given up ends the worker before the peer's
\* corruption is counted; the second counted one leads to the blacklist.
VerifyFails(w) ==
    /\ pc[w] = "download" /\ w \notin closed /\ "corrupt" \in Answers[w]
    /\ \/ /\ Exhausted(held[w])
          /\ Goto(w, "download", "exit")
          /\ UNCHANGED CorruptCount
       \/ /\ ~Exhausted(held[w])
          /\ CorruptCount' = [CorruptCount EXCEPT ![w] = @ + 1]
          /\ Goto(w, "download", IF CorruptCount'[w] >= CorruptLimit THEN "ban" ELSE "loop")
    /\ MarkFailed(held[w])
    /\ Drop(w)
    /\ UNCHANGED <<Bitfield, envVars>>

Ban(w) ==
    /\ Goto(w, "ban", "exit")
    /\ BlacklistPeer(Host[w])
    /\ UNCHANGED <<Bitfield, held, CorruptCount, envVars>>

\* Mutant of WritePiece: the error of the disk writer is ignored.
WriteRegardless(w) ==
    /\ Goto(w, "write", "complete")
    /\ accepted' = IF diskFailed THEN accepted ELSE accepted \cup {held[w]}
    /\ UNCHANGED <<pmVars, Bitfield, held, CorruptCount,
                   closed, completions, cancelled, diskFailed>>

WritePiece(w) ==
    /\ Goto(w, "write", "complete")
    /\ ~diskFailed
    /\ accepted' = accepted \cup {held[w]}
    /\ UNCHANGED <<pmVars, Bitfield, held, CorruptCount,
                   closed, completions, cancelled, diskFailed>>

WriteFails(w) ==
    /\ Goto(w, "write", IF Exhausted(held[w]) THEN "exit" ELSE "loop")
    /\ diskFailed
    /\ MarkFailed(held[w])
    /\ Drop(w)
    /\ UNCHANGED <<Bitfield, CorruptCount, envVars>>

Complete(w) ==
    /\ Goto(w, "complete", "check")
    /\ MarkComplete(held[w])
    /\ Drop(w)
    /\ UNCHANGED <<Bitfield, CorruptCount, envVars>>

CheckComplete(w) ==
    /\ Goto(w, "check", IF IsComplete THEN "exit" ELSE "loop")
    /\ completions' = (completions \/ IsComplete)
    /\ UNCHANGED <<pmVars, Bitfield, held, CorruptCount,
                   closed, cancelled, accepted, diskFailed>>

\* Mutant of Unregister: the bitfield is not given back.
LeaveRegistered(w) ==
    /\ Goto(w, "exit", "gone")
    /\ UNCHANGED <<pmVars, Bitfield, held, CorruptCount, envVars>>

\* The deferred calls: the bitfield is given back as it is now.
Unregister(w) ==
    /\ Goto(w, "exit", "gone")
    /\ UnregisterPeerBitfield(Bitfield[w])
    /\ UNCHANGED <<Bitfield, held, CorruptCount, envVars>>

\* Client.HandleHave, called from the read loop of DownloadPiece.
HandleHave(w, p) ==
    /\ pc[w] = "download" /\ w \notin closed
    /\ p \notin Bitfield[w]
    /\ Bitfield' = [Bitfield EXCEPT ![w] = @ \cup {p}]
    /\ UNCHANGED <<pmVars, pc, held, CorruptCount, envVars>>

-----------------------------------------------------------------------------
(* Steps of the scheduler, the streaming reader, the disk and the user. *)

\* A PEX dial starts with the blacklist and ends in a worker, later.
Dial(w) ==
    /\ w \in PexConns /\ ~IsBlacklisted(Host[w])
    /\ Goto(w, "absent", "dialing")
    /\ UNCHANGED <<pmVars, Bitfield, held, CorruptCount, envVars>>

DialEnds(w) ==
    /\ \/ ~cancelled /\ Goto(w, "dialing", "start")
       \/ Goto(w, "dialing", "gone")
    /\ UNCHANGED <<pmVars, Bitfield, held, CorruptCount, envVars>>

Accept(w) ==
    /\ w \notin PexConns
    /\ Goto(w, "absent", "start")
    /\ UNCHANGED <<pmVars, Bitfield, held, CorruptCount, envVars>>

\* StartScheduler closes the active connections once it has read the
\* completion signal or seen the context done; it does so once.
CloseAll ==
    /\ completions \/ cancelled
    /\ closed = {}
    /\ Live # {}
    /\ closed' = Live
    /\ UNCHANGED <<pmVars, workerVars, completions, cancelled, accepted, diskFailed>>

Seek(S) ==
    /\ PriorityPieces # S
    /\ SetPriorityPieces(S)
    /\ UNCHANGED <<workerVars, envVars>>

DiskFails ==
    /\ DiskMayFail /\ ~diskFailed
    /\ diskFailed' = TRUE
    /\ UNCHANGED <<pmVars, workerVars, closed, completions, cancelled, accepted>>

Cancel ==
    /\ ~cancelled
    /\ cancelled' = TRUE
    /\ UNCHANGED <<pmVars, workerVars, closed, completions, accepted, diskFailed>>

-----------------------------------------------------------------------------
Fetch(w) == Downloads(w) \/ DownloadFails(w) \/ VerifyFails(w)

\* The steps the goroutine of w takes by itself.
Worker(w) ==
    \/ Register(w) \/ CheckContext(w)
    \/ NextPriority(w) \/ NextNoPriority(w) \/ SelectPiece(w) \/ SelectFails(w)
    \/ ReadStats(w) \/ WaitASecond(w)
    \/ Fetch(w) \/ Ban(w)
    \/ WritePiece(w) \/ WriteFails(w) \/ Complete(w) \/ CheckComplete(w)
    \/ Unregister(w)

Environment ==
    \/ \E w \in Conns : \/ Dial(w) \/ DialEnds(w) \/ Accept(w)
                        \/ \E p \in Pieces : HandleHave(w, p)
    \/ \E S \in PrioritySets : Seek(S)
    \/ CloseAll \/ DiskFails \/ Cancel

Next == (\E w \in Conns : Worker(w)) \/ Environment

Spec == Init /\ [][Next]_vars

\* The Go runtime schedules every worker, every read in DownloadPiece has a
\* deadline, and StartScheduler is waiting on completeChan and ctx.
Fairness == (\A w \in Conns : WF_vars(Worker(w))) /\ WF_vars(CloseAll)

LiveSpec == Spec /\ Fairness

-----------------------------------------------------------------------------
(* Safety. *)

\* Types of the ledger, the index and the workers (SumSound gives that of
\* availabilitySum); a worker holds a piece in the three states that need one.
TypeOK ==
    /\ Pending \subseteq Pieces /\ InProgress \subseteq Pieces
    /\ Completed \subseteq Pieces /\ PermanentlyFailed \subseteq Pieces
    /\ FailedAttempts \in [Pieces -> Nat]
    /\ Downloaded \in Nat
    /\ Availability \in [Pieces -> Nat]
    /\ buckets \subseteq Nat \X Pieces
    /\ PriorityPieces \subseteq Pieces
    /\ BlacklistedPeers \subseteq Hosts
    /\ pc \in [Conns -> {"absent", "dialing", "start", "loop", "next", "select",
                        "stats", "wait", "download", "ban", "write", "complete",
                        "check", "exit", "gone"}]
    /\ Bitfield \in [Conns -> SUBSET Pieces]
    /\ held \in [Conns -> Pieces \cup {NoPiece}]
    /\ \A w \in Conns : held[w] \in Pieces <=> Holding(w)
    /\ CorruptCount \in [Conns -> Nat]
    /\ closed \subseteq Conns
    /\ accepted \subseteq Pieces
    /\ {completions, cancelled, diskFailed} \subseteq BOOLEAN

\* Every piece is pending, in progress, completed or given up, and never both
\* pending and in progress.
NoneMissing ==
    /\ Pending \cup InProgress \cup Completed \cup PermanentlyFailed = Pieces
    /\ Pending \cap InProgress = {}

\* A piece is in progress only while some worker still works on it, so no
\* worker waits (ReadStats) for a piece that nobody is fetching any more.
InProgressIsHeld ==
    \A p \in InProgress : \E w \in Conns : held[w] = p

\* No piece is ever lost between the maps of PieceManager, or in the hands of a
\* worker that left, whatever claims, failures, resumes and duplicate (priority)
\* downloads interleave.
EveryPieceAccounted == NoneMissing /\ InProgressIsHeld

\* The buckets hold each pending piece at most once, under its current
\* availability, and miss none that is still to be downloaded: the counters
\* ensureBucketsSync compares are enough to know them exact.
BucketsSound ==
    /\ buckets \subseteq Partition
    /\ \A p \in Pending \ Completed : Entry(p) \in buckets

Owners(p) == {w \in Registered : p \in Bitfield[w]}

\* UnregisterPeerBitfield leaves no trace of a peer that disconnected: a piece
\* is never counted more often than connected peers own it.
NoOfflinePeerCounted ==
    \A p \in Pieces : Availability[p] <= Cardinality(Owners(p))

\* Progress counts a piece once, however many workers fetched it.
CountedOnce == Downloaded = Cardinality(Completed)

Poisoners == {w \in Conns : "corrupt" \in Answers[w]}

\* The strike limit of a peer and the retry limit of a piece fit together: one
\* corrupting connection is gone before it can have any piece given up.
OnePoisonerCannotKill ==
    (Cardinality(Poisoners) <= 1 /\ MaxRetries >= 2 /\ ~diskFailed)
        => PermanentlyFailed = {}

\* Two workers fetch the same piece only if the stream may ask for it again.
NoDuplicateFetch ==
    \A w, v \in Conns :
        Holding(w) /\ Holding(v) /\ held[w] = held[v]
            => w = v \/ held[w] \in UNION PrioritySets

-----------------------------------------------------------------------------
(* What a step may never do. *)

Servable(w) == Pending \cap Bitfield[w]

\* What the selector owes a peer: with streaming on, the first pending piece
\* of the window it has; else one that no other pending piece it has is rarer.
BestFor(w, p) ==
    /\ p \in Servable(w)
    /\ IF StreamingMode /\ \E q \in Servable(w) : q < StreamingWindowSize
       THEN \A q \in Servable(w) : p <= q
       ELSE \A q \in Servable(w) : Availability[p] <= Availability[q]

\* The selector keeps that promise through its index, and turns a peer away
\* only if the peer has nothing pending.
RarestFirst ==
    [][\A w \in Conns :
         /\ SelectPiece(w) => BestFor(w, held'[w])
         /\ SelectFails(w) => Servable(w) = {}]_vars

-----------------------------------------------------------------------------
(* The workers implement the abstract ledger: whatever they race on, a piece *)
(* is completed after the disk writer took it and never un-completed, and    *)
(* completeChan is signalled only with every piece completed and none given  *)
(* up.                                                                       *)
Ledger == INSTANCE DownloadLedger
          WITH stored <- accepted, done <- Completed,
               lost <- PermanentlyFailed, told <- completions

RefinesLedger == Ledger!Spec

-----------------------------------------------------------------------------
(* Liveness. *)

\* A connection that answers every request and has every piece from the start.
Seeds == {w \in Initial : Answers[w] = {"data"} /\ Bitfields[w] = {Pieces}}

\* With one seed connected and at most one poisoner the download completes,
\* unless the disk fails or the user gives up.
DownloadCompletes ==
    (Seeds # {} /\ Cardinality(Poisoners) <= 1)
        => <>(completions \/ cancelled \/ diskFailed)

Gone == \A w \in Conns : pc[w] \in {"absent", "gone"}

\* Once the completion is signalled or the context is done every worker ends,
\* so that the wg.Wait() of StartScheduler returns, unless a piece that is
\* already completed was left pending for workers to wait for.
WorkersEnd ==
    completions \/ cancelled
        ~> Gone \/ (~cancelled /\ Pending \cap Completed # {})

-----------------------------------------------------------------------------
(* What the documentation says, and the code does not do. *)

\* SiddTorrent_Architecture_and_Math.md:244, "claim -> in-progress ->
\* complete/failed state machine": a piece ends up completed or given up.
CompleteOrFailed == Completed \cap PermanentlyFailed = {}
=============================================================================
