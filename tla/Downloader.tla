----------------------------- MODULE Downloader -----------------------------
(***************************************************************************)
(* One connection and the pieces a worker downloads over it:               *)
(* internal/piece/downloader.go (DownloadPiece, waitForUnchoke) with the   *)
(* assembler of assembler.go and the parser of parse_piece.go, called from *)
(* the loop of worker.go.                                                  *)
(*                                                                         *)
(* The two directions of the connection are FIFO queues.  A client step is *)
(* one message read or written.  The peer follows the protocol, except for *)
(* the faults in its conduct.  The peer's messages that change nothing but *)
(* the bitfield or the address pool are in Workers and Scheduler; here     *)
(* they read like a keep-alive.                                            *)
(***************************************************************************)
EXTENDS Integers, Sequences, FiniteSets

CONSTANTS Pieces,             \* piece indices
          PieceSize,          \* tf.PieceLengthAt, in units of which
          BlockSize,          \*   a block has this many
          PipelineQueueSize,  \* requests the client keeps outstanding
          Conducts,           \* the sets of faults a peer may have
          MaxWhims,           \* bound: chokes and unasked messages of the peer
          MaxFailures,        \* bound: failed calls after which none is started
          WireCap             \* bound: unread messages of the peer

Faults == {"corrupt", "malformed", "unasked", "silent", "leaves", "chatter"}

ASSUME DownloaderAssumption ==
    /\ IsFiniteSet(Pieces) /\ Pieces \subseteq Nat
    /\ PieceSize \in [Pieces -> Nat \ {0}]
    /\ BlockSize \in Nat \ {0}
    /\ PipelineQueueSize \in Nat \ {0}
    /\ Conducts \subseteq SUBSET Faults
    /\ MaxWhims \in Nat /\ MaxFailures \in Nat
    /\ WireCap \in Nat \ {0}

VARIABLES pc,            \* what the worker is doing
          choked,        \* client.State.Choked
          pieceIndex,    \* the piece of the current call, or NoPiece
          Requested,     \* the assembler's blocks that were asked for,
          Received,      \*   that arrived,
          Data,          \*   and which piece the bytes of each are from
          failures,      \* calls of DownloadPiece that returned an error
          CorruptCount,  \* client.State.CorruptCount
          Finished,      \* pieces that passed VerifyPiece
          toPeer,        \* requests the peer has not handled
          toClient,      \* messages the client has not read
          peerChoking,   \* the peer's side: it chokes the client,
          interested,    \*   it was told of the client's interest,
          present,       \*   it has not closed the connection,
          conduct,       \*   its faults,
          whims          \*   its chokes and unasked messages so far

callVars == <<pieceIndex, Requested, Received, Data>>
peerVars == <<peerChoking, interested, present, conduct, whims>>
vars == <<pc, choked, callVars, failures, CorruptCount, Finished, toPeer, toClient, peerVars>>

NoPiece == -1
NoData  == -2   \* nothing was copied there
Junk    == -3   \* bytes of no piece

\* The blocks of a piece, and the length of each: the last may be shorter.
TotalBlocks(p) == (PieceSize[p] + BlockSize - 1) \div BlockSize
Blocks(p)      == 0 .. TotalBlocks(p) - 1
AllBlocks      == UNION {Blocks(p) : p \in Pieces}
BlockLength(p, b) ==
    LET remaining == PieceSize[p] - b * BlockSize
    IN  IF remaining <= BlockSize THEN remaining ELSE BlockSize

\* Messages of the peer; a piece message carries bytes of that piece if good.
Control   == [kind : {"choke", "unchoke", "keepAlive", "badHave", "badBlock"}]
BlockMsgs == [kind : {"piece"}, piece : Pieces, block : AllBlocks, good : BOOLEAN]
Piece(p, b, good) == [kind |-> "piece", piece |-> p, block |-> b, good |-> good]
Requests  == Pieces \X AllBlocks

Outstanding == Requested \ Received
IsComplete  == Blocks(pieceIndex) \subseteq Received
NoBlocks    == [b \in AllBlocks |-> NoData]

Init ==
    /\ pc = "idle" /\ choked = TRUE /\ failures = 0
    /\ pieceIndex = NoPiece /\ Requested = {} /\ Received = {} /\ Data = NoBlocks
    /\ CorruptCount = 0 /\ Finished = {}
    /\ toPeer = <<>> /\ toClient = <<>>
    /\ peerChoking = TRUE /\ interested = FALSE /\ present = TRUE /\ whims = 0
    /\ conduct \in Conducts

-----------------------------------------------------------------------------
(* The client: one call of DownloadPiece. *)

\* The manager gives the worker a piece.  A choked client first says that it is
\* interested; the others start with an empty assembler.
Start(p) ==
    /\ pc = "idle" /\ p \notin Finished /\ failures <= MaxFailures
    /\ pieceIndex' = p
    /\ pc' = IF choked THEN "interest" ELSE "queue"
    /\ UNCHANGED <<choked, Requested, Received, Data, failures, CorruptCount, Finished,
                   toPeer, toClient, peerVars>>

SendInterested ==
    /\ pc = "interest" /\ pc' = "unchoke"
    /\ interested' = TRUE
    /\ UNCHANGED <<choked, callVars, failures, CorruptCount, Finished, toPeer, toClient,
                   peerChoking, present, conduct, whims>>

\* Mutant of EndCall: the next call goes on with the assembler of this one.
EndCallKeepingBlocks(next) ==
    /\ pc' = next
    /\ pieceIndex' = NoPiece
    /\ UNCHANGED <<Requested, Received, Data>>

\* The call returns: with a failure, unless it is VerifyPiece that follows.
EndCall(next) ==
    /\ pc' = next
    /\ pieceIndex' = NoPiece /\ Requested' = {} /\ Received' = {} /\ Data' = NoBlocks

Fail(next) ==
    /\ EndCall(next)
    /\ failures' = failures + 1
    /\ UNCHANGED <<CorruptCount, Finished, toPeer, peerVars>>

\* NextMissingBlock scans for a block neither received nor requested.
Missing == Blocks(pieceIndex) \ (Received \cup Requested)

MayRequest == Cardinality(Outstanding) < PipelineQueueSize /\ Missing # {}

\* One round of queueRequests; the rate limiter may delay each.
Request ==
    /\ pc = "queue" /\ MayRequest
    /\ \E b \in Missing :
          /\ \A other \in Missing : b <= other
          /\ Requested' = Requested \cup {b}
          /\ toPeer' = IF present THEN Append(toPeer, <<pieceIndex, b>>) ELSE toPeer
    /\ UNCHANGED <<pc, choked, pieceIndex, Received, Data, failures, CorruptCount, Finished,
                   toClient, peerVars>>

\* The window is full or nothing is missing: on to the loop, or out of it.
Queued ==
    /\ pc = "queue" /\ ~MayRequest
    /\ pc' = IF IsComplete THEN "verify" ELSE "read"
    /\ UNCHANGED <<choked, callVars, failures, CorruptCount, Finished, toPeer, toClient, peerVars>>

\* A write fails when the peer is gone or does not read (the write deadline).
WriteFails ==
    /\ pc = "interest" \/ (pc = "queue" /\ MayRequest)
    /\ ~present \/ "silent" \in conduct
    /\ Fail("gone")
    /\ UNCHANGED <<choked, toClient>>

Read(m) == toClient # <<>> /\ m = Head(toClient) /\ toClient' = Tail(toClient)

\* waitForUnchoke skips everything but an unchoke and an invalid HAVE.
Unchoked ==
    /\ pc = "unchoke" /\ pc' = "queue"
    /\ Read([kind |-> "unchoke"])
    /\ choked' = FALSE
    /\ UNCHANGED <<callVars, failures, CorruptCount, Finished, toPeer, peerVars>>

StillChoked ==
    /\ pc = "unchoke"
    /\ \E m \in Control \cup BlockMsgs : Read(m) /\ m.kind \notin {"unchoke", "badHave"}
    /\ UNCHANGED <<pc, choked, callVars, failures, CorruptCount, Finished, toPeer, peerVars>>

\* A choke ends the call; what was asked for is forgotten with its assembler.
ReadChoke ==
    /\ pc = "read"
    /\ Read([kind |-> "choke"])
    /\ choked' = TRUE
    /\ Fail("idle")

\* An unchoke fills up the window; a keep-alive is skipped.
ReadOther ==
    /\ pc = "read"
    /\ \/ Read([kind |-> "unchoke"]) /\ choked' = FALSE /\ pc' = "queue"
       \/ Read([kind |-> "keepAlive"]) /\ UNCHANGED <<choked, pc>>
    /\ UNCHANGED <<callVars, failures, CorruptCount, Finished, toPeer, peerVars>>

\* Mutant of Fits: a block must end before the end of the piece.
FitsStrictly(m) ==
    m.block * BlockSize + BlockLength(m.piece, m.block) < PieceSize[pieceIndex]

\* AddBlock's bounds, on the length of the block that came.
Fits(m) ==
    /\ m.block * BlockSize < PieceSize[pieceIndex]
    /\ m.block * BlockSize + BlockLength(m.piece, m.block) <= PieceSize[pieceIndex]

\* Mutant of AddBlock: the window is not filled up after a block.
AddBlockOnly ==
    /\ pc = "read"
    /\ \E m \in BlockMsgs :
          /\ Read(m) /\ Fits(m)
          /\ Received' = Received \cup {m.block}
          /\ Data' = [Data EXCEPT ![m.block] = IF m.good THEN m.piece ELSE Junk]
          /\ pc' = IF Blocks(pieceIndex) \subseteq Received' THEN "verify" ELSE "read"
    /\ UNCHANGED <<choked, pieceIndex, Requested, failures, CorruptCount, Finished, toPeer, peerVars>>

\* A block is copied to its offset, of whatever piece it says it is.
AddBlock ==
    /\ pc = "read" /\ pc' = "queue"
    /\ \E m \in BlockMsgs :
          /\ Read(m) /\ Fits(m)
          /\ Received' = Received \cup {m.block}
          /\ Data' = [Data EXCEPT ![m.block] = IF m.good THEN m.piece ELSE Junk]
    /\ UNCHANGED <<choked, pieceIndex, Requested, failures, CorruptCount, Finished, toPeer, peerVars>>

\* A block out of bounds, misaligned or too short to parse, or a HAVE of no
\* piece: the call fails, the worker goes on.
ReadInvalid ==
    /\ \/ pc \in {"read", "unchoke"} /\ Read([kind |-> "badHave"])
       \/ pc = "read" /\ Read([kind |-> "badBlock"])
       \/ pc = "read" /\ \E m \in BlockMsgs : Read(m) /\ ~Fits(m)
    /\ Fail("idle")
    /\ UNCHANGED choked

\* The peer has something to do for the client, and will within the deadline.
PeerOwes == present /\ (toPeer # <<>> \/ (peerChoking /\ interested))

\* Mutant of ReadFails: no read deadline.
ReadFailsAtEOF ==
    /\ pc \in {"read", "unchoke"} /\ toClient = <<>>
    /\ ~present
    /\ Fail("gone")
    /\ UNCHANGED <<choked, toClient>>

\* End of file, or the read deadline: an error of the connection, the worker ends.
ReadFails ==
    /\ pc \in {"read", "unchoke"} /\ toClient = <<>>
    /\ ~PeerOwes \/ "silent" \in conduct
    /\ Fail("gone")
    /\ UNCHANGED <<choked, toClient>>

Verified == \A b \in Blocks(pieceIndex) : Data[b] = pieceIndex

VerifyPasses ==
    /\ pc = "verify" /\ Verified
    /\ Finished' = Finished \cup {pieceIndex}
    /\ EndCall(IF Finished' = Pieces THEN "done" ELSE "idle")
    /\ UNCHANGED <<choked, failures, CorruptCount, toPeer, toClient, peerVars>>

\* Two pieces that do not verify, and the peer is blacklisted.
VerifyFails ==
    /\ pc = "verify" /\ ~Verified
    /\ CorruptCount' = CorruptCount + 1
    /\ EndCall(IF CorruptCount' >= 2 THEN "banned" ELSE "idle")
    /\ UNCHANGED <<choked, failures, Finished, toPeer, toClient, peerVars>>

Client ==
    \/ \E p \in Pieces : Start(p)
    \/ SendInterested \/ Request \/ Queued \/ WriteFails
    \/ Unchoked \/ StillChoked
    \/ ReadChoke \/ ReadOther \/ AddBlock \/ ReadInvalid \/ ReadFails
    \/ VerifyPasses \/ VerifyFails

-----------------------------------------------------------------------------
(* The peer: not under src/, modelled from what the client expects of it. *)

clientVars == <<pc, choked, callVars, failures, CorruptCount, Finished>>

PeerSends(m) == Len(toClient) < WireCap /\ toClient' = Append(toClient, m)

\* It answers the requests in order; while it chokes it drops them.
Answer(p, b) == {Piece(p, b, TRUE)}
    \cup (IF "corrupt" \in conduct THEN {Piece(p, b, FALSE)} ELSE {})
    \cup (IF "malformed" \in conduct THEN {[kind |-> "badBlock"]} ELSE {})

Serve ==
    /\ present /\ toPeer # <<>>
    /\ toPeer' = Tail(toPeer)
    /\ \/ peerChoking /\ UNCHANGED toClient
       \/ ~peerChoking /\ \E m \in Answer(Head(toPeer)[1], Head(toPeer)[2]) : PeerSends(m)
    /\ UNCHANGED <<clientVars, peerVars>>

Unchoke ==
    /\ present /\ peerChoking /\ interested
    /\ peerChoking' = FALSE
    /\ PeerSends([kind |-> "unchoke"])
    /\ UNCHANGED <<clientVars, toPeer, interested, present, conduct, whims>>

Choke ==
    /\ present /\ ~peerChoking /\ whims < MaxWhims
    /\ peerChoking' = TRUE /\ whims' = whims + 1
    /\ PeerSends([kind |-> "choke"])
    /\ UNCHANGED <<clientVars, toPeer, interested, present, conduct>>

\* A block nobody asked for, or a HAVE with an index out of range.
SendUnasked ==
    /\ present /\ whims < MaxWhims
    /\ \/ /\ "unasked" \in conduct
          /\ \E p \in Pieces : \E b \in Blocks(p) : PeerSends(Piece(p, b, TRUE))
       \/ "malformed" \in conduct /\ PeerSends([kind |-> "badHave"])
    /\ whims' = whims + 1
    /\ UNCHANGED <<clientVars, toPeer, peerChoking, interested, present, conduct>>

KeepAlive ==
    /\ present /\ "chatter" \in conduct
    /\ PeerSends([kind |-> "keepAlive"])
    /\ UNCHANGED <<clientVars, toPeer, peerVars>>

Leave ==
    /\ present /\ "leaves" \in conduct
    /\ present' = FALSE
    /\ UNCHANGED <<clientVars, toPeer, toClient, peerChoking, interested, conduct, whims>>

Peer == Serve \/ Unchoke \/ Choke \/ SendUnasked \/ KeepAlive \/ Leave

Next == Client \/ Peer
Spec == Init /\ [][Next]_vars

\* The client's goroutine runs, and a peer that is not silent does what it owes.
KeepsUp  == "silent" \notin conduct /\ (Serve \/ Unchoke)
LiveSpec == Spec /\ WF_vars(Client) /\ WF_vars(KeepsUp)

-----------------------------------------------------------------------------
(* Properties *)

TypeOK ==
    /\ pc \in {"idle", "interest", "unchoke", "queue", "read", "verify",
               "done", "banned", "gone"}
    /\ choked \in BOOLEAN /\ failures \in Nat
    /\ pieceIndex \in IF pc \in {"idle", "done", "banned", "gone"} THEN {NoPiece} ELSE Pieces
    /\ Requested \subseteq AllBlocks /\ Received \subseteq AllBlocks
    /\ Data \in [AllBlocks -> Pieces \cup {NoData, Junk}]
    /\ CorruptCount \in Nat /\ Finished \subseteq Pieces
    /\ toPeer \in Seq(Requests) /\ toClient \in Seq(Control \cup BlockMsgs)
    /\ peerChoking \in BOOLEAN /\ interested \in BOOLEAN /\ present \in BOOLEAN
    /\ conduct \in Conducts /\ whims \in Nat

Honest == conduct = {}

ChokeComing == \E i \in 1 .. Len(toClient) : toClient[i].kind = "choke"

\* Until a call fails, an honest peer's blocks land in the piece they are of, so
\* that none of its pieces fails to verify (downloader.go:132-160, worker.go:82).
DeliveredAsAsked ==
    Honest /\ failures = 0 =>
        /\ \A b \in Received : Data[b] = pieceIndex
        /\ CorruptCount = 0

\* The client never waits, until its deadline, for an honest peer that owes it
\* nothing: whatever chokes and late blocks came before (downloader.go:81-100).
NeverWaitsInVain ==
    Honest /\ pc \in {"read", "unchoke"} /\ toClient = <<>> => PeerOwes

\* Every call of DownloadPiece returns, however the peer fails, unless it keeps
\* the read deadline from expiring by messages that bring nothing.
EveryCallReturns ==
    "chatter" \notin conduct => (pieceIndex # NoPiece ~> pieceIndex = NoPiece)

\* An honest peer that never chokes delivers every piece.
HonestDelivers == Honest => <>(pc = "done" \/ whims > 0)

\* Fails: only a peer that sends corrupt data is banned for it (worker.go:98).
OnlyLiarsBanned == pc = "banned" => conduct # {}
=============================================================================
