------------------------------ MODULE Streaming ------------------------------
(***************************************************************************)
(* From a verified piece to the video player: the asynchronous writer      *)
(* (DiskWriter) writes into the files of the torrent (TorrentStorage),     *)
(* file by file, while the StreamingReader of internal/api/server.go,      *)
(* which asks only the piece manager, reads one of these files.            *)
(*                                                                         *)
(* A worker marks its piece complete as soon as WritePiece took it: here   *)
(* in the same step.  The priorities a Read sets are Seek in Workers.      *)
(***************************************************************************)
EXTENDS DiskWriter, TorrentStorage

CONSTANTS IsVideo,    \* which files have the extension of a video
          MultiFile,  \* tf.IsMultiFile
          MaxRead     \* bound: bytes asked for by one Read

ASSUME StreamingAssumption ==
    /\ Pieces = 0 .. PieceCount - 1
    /\ IsVideo \in [DOMAIN FileLength -> BOOLEAN]
    /\ MultiFile \in BOOLEAN
    /\ MaxRead \in Nat \ {0}

VARIABLES leftover,  \* what an earlier session left in the files
          resumed,   \* pieces the resume scan found in the files
          at,        \* the file from which WriteAt goes on with the current piece
          reader,    \* "none", "idle" between calls of Read, or "wait"
          offset,    \* sr.offset
          limit,     \* bytes the Read under way returns
          got        \* what the last Read returned

resumeVars == <<leftover, resumed>>
readerVars == <<reader, offset, limit, got>>
streamVars == <<vars, storageVars, resumeVars, at, readerVars>>

\* Mutant of Completed: pieces count as complete once they are requested.
Requested == resumed \cup {request[c].piece : c \in Callers}

\* What IsPieceComplete says.
Completed == resumed \cup Filled(latest)

InitStreaming ==
    /\ Init /\ InitStorage
    /\ leftover \in Leftovers
    /\ resumed = {}
    /\ at = 1
    /\ reader = "none" /\ offset = 0 /\ limit = 0 /\ got = <<>>

-----------------------------------------------------------------------------
(* NewWriter, and the resume scan before the download starts. *)

Open ==
    /\ OpenFile(leftover) \/ OpenFails
    /\ UNCHANGED <<vars, resumeVars, at, readerVars>>

LoadExistingState ==
    /\ storage = "scan"
    /\ storage' = "open"
    /\ resumed' = {p \in Pieces : Verifies(p)}
    /\ UNCHANGED <<vars, files, content, leftover, at, readerVars>>

-----------------------------------------------------------------------------
(* The writer's WriteAt, one file after the other. *)

\* The files of piece p that WriteAt has not come to yet.
Rest(p) == {i \in DOMAIN files : i >= at /\ Overlaps(i, p * PieceLength, PieceLengthAt(p))}

\* Mutant of WriteFile: WriteAt returns after the first file.
WriteFirstFile ==
    /\ storage = "open" /\ WriteAt
    /\ \E p \in Filled(batch), i \in DOMAIN files :
          /\ Lowest(p) /\ i \in Rest(p) /\ \A j \in Rest(p) : i <= j
          /\ content' = [content EXCEPT ![i] =
                Written(i, p * PieceLength, Data(p),
                        OverlapLen(i, p * PieceLength, PieceLengthAt(p)))]
    /\ UNCHANGED <<files, storage, resumeVars, at, readerVars>>

WriteFile ==
    /\ storage = "open" /\ Writing /\ ~err
    /\ \E p \in Filled(batch), i \in DOMAIN files :
          /\ Lowest(p) /\ i \in Rest(p) /\ \A j \in Rest(p) : i <= j
          /\ content' = [content EXCEPT ![i] =
                Written(i, p * PieceLength, Data(p),
                        OverlapLen(i, p * PieceLength, PieceLengthAt(p)))]
          /\ \/ Rest(p) = {i} /\ WriteAt /\ at' = 1
             \/ Rest(p) # {i} /\ UNCHANGED vars /\ at' = i + 1
    /\ UNCHANGED <<files, storage, resumeVars, readerVars>>

\* A file takes only part of its bytes: WriteAt returns the error.
WriteFileFails ==
    /\ storage = "open" /\ WriteAtFails
    /\ \E p \in Filled(batch), i \in DOMAIN files :
          /\ Lowest(p) /\ i \in Rest(p) /\ \A j \in Rest(p) : i <= j
          /\ \E len \in 0 .. OverlapLen(i, p * PieceLength, PieceLengthAt(p)) - 1 :
                content' = [content EXCEPT ![i] =
                              Written(i, p * PieceLength, Data(p), len)]
    /\ at' = 1
    /\ UNCHANGED <<files, storage, resumeVars, readerVars>>

\* Everything else the writer and its callers do leaves the files alone.
Apart(A) ==
    /\ storage \in {"open", "closed"} /\ A
    /\ UNCHANGED <<storageVars, resumeVars, at, readerVars>>

LoopElse == Apart(Receive \/ CheckSize \/ Tick \/ Drained \/ TakeCache \/ FlushReturns)

\* storage.Writer.Close: the files are closed once DiskWriter.Close returned.
CloseFiles ==
    /\ \E k \in Closers : closer[k] \in {"nil", "error"}
    /\ CloseStorage
    /\ UNCHANGED <<vars, resumeVars, at, readerVars>>

-----------------------------------------------------------------------------
(* The streaming reader. *)

\* findVideoFile: the first of the longest videos, or of the longest files if
\* there is no video.
VideoFile ==
    LET videos == {i \in DOMAIN FileLength : IsVideo[i]}
        some   == IF videos = {} THEN DOMAIN FileLength ELSE videos
    IN  CHOOSE i \in some : \A j \in some :
            FileLength[j] < FileLength[i] \/ (FileLength[j] = FileLength[i] /\ i <= j)

fileLength  == FileLength[VideoFile]
startOffset == files[VideoFile].startOffset

\* streamDownloadByID: the file must be there.  The path is looked for below the
\* output path, where a torrent of a single file has none.
OpenReader ==
    /\ reader = "none" /\ MultiFile /\ fileLength > 0
    /\ VideoFile \in DOMAIN files
    /\ reader' = "idle"
    /\ UNCHANGED <<vars, storageVars, resumeVars, at, offset, limit, got>>

\* ServeContent seeks to the range the player asks for.
SeekTo ==
    /\ reader = "idle"
    /\ offset' \in 0 .. fileLength
    /\ limit' = 0 /\ got' = <<>>
    /\ UNCHANGED <<vars, storageVars, resumeVars, at, reader>>

\* The piece of the first byte asked for: the only one that is waited for.
startPiece == (startOffset + offset) \div PieceLength

Read ==
    /\ reader = "idle" /\ offset < fileLength
    /\ \E n \in 1 .. MaxRead : limit' = MinVal(n, fileLength - offset)
    /\ reader' = "wait"
    /\ got' = <<>>
    /\ UNCHANGED <<vars, storageVars, resumeVars, at, offset>>

\* The piece is complete: the bytes are read from the file.
ReadFile ==
    /\ reader = "wait" /\ startPiece \in Completed
    /\ got' = [k \in 1 .. limit |-> content[VideoFile][offset + (k - 1)]]
    /\ offset' = offset + limit
    /\ reader' = "idle"
    /\ UNCHANGED <<vars, storageVars, resumeVars, at, limit>>

\* After 30 s without the piece Read fails, and the request ends with it.
TimesOut ==
    /\ reader = "wait" /\ startPiece \notin Completed
    /\ reader' = "none" /\ offset' = 0 /\ limit' = 0 /\ got' = <<>>
    /\ UNCHANGED <<vars, storageVars, resumeVars, at>>

CloseReader ==
    /\ reader = "idle"
    /\ reader' = "none" /\ offset' = 0 /\ limit' = 0 /\ got' = <<>>
    /\ UNCHANGED <<vars, storageVars, resumeVars, at>>

-----------------------------------------------------------------------------
StorageStep == Open \/ LoadExistingState \/ CloseFiles

LoopStep == WriteFile \/ WriteFileFails \/ LoopElse

CallStep(c) == Apart(Call(c))

CloseStep(k) == Apart(Close(k))

ReaderStep == OpenReader \/ SeekTo \/ Read \/ ReadFile \/ TimesOut \/ CloseReader

NextStreaming ==
    \/ StorageStep \/ LoopStep \/ ReaderStep
    \/ \E c \in Callers : Apart(CheckError(c)) \/ CallStep(c)
    \/ \E k \in Closers : CloseStep(k)

SpecStreaming == InitStreaming /\ [][NextStreaming]_streamVars

\* Every goroutine is scheduled; sync.Mutex hands closeMu to a caller that has
\* waited for long, and a blocked send is served in turn.  Nobody has to open the
\* files, write, read or close.
FairStreaming ==
    /\ WF_streamVars(LoopStep)
    /\ \A c \in Callers : SF_streamVars(CallStep(c))
    /\ \A k \in Closers : WF_streamVars(Apart(CloseReturns(k)))

LiveStreaming == SpecStreaming /\ FairStreaming

-----------------------------------------------------------------------------
(* Safety. *)

\* The files follow one another, and each of their bytes, and each byte the
\* player gets, is the byte of the torrent at that place, or a hole.
BytesInPlace ==
    /\ \A i \in DOMAIN files :
          /\ files[i].startOffset = IF i = 1 THEN 0 ELSE files[i - 1].endOffset
          /\ files[i].endOffset = files[i].startOffset + FileLength[i]
          /\ \A j \in DOMAIN content[i] :
                content[i][j] \in {Hole, files[i].startOffset + j}
    /\ \A k \in DOMAIN got :
          got[k] \in {Hole, startOffset + (offset - limit) + (k - 1)}

\* A piece that is on disk, over however many files, or was found there, is read
\* back and verifies: the next session will find it.
StoredIsFound ==
    \A p \in Pieces : p \in resumed \/ disk[p] # Absent => Verifies(p)

\* The piece is queued, in the cache or in the batch being written.
OnTheWay(p) ==
    \/ \E i \in DOMAIN writeChan : writeChan[i].piece = p
    \/ cache[p] # Absent \/ batch[p] # Absent

\* The piece Read waited for is complete, yet it may have holes in the file: only
\* if the writer has still to write it, or failed.  Nothing is said of the
\* pieces after it, which Read does not wait for.
HolesAreOnTheWay ==
    [][ReadFile => \A k \in 1 .. limit :
          /\ got'[k] = Hole
          /\ (startOffset + offset + (k - 1)) \div PieceLength = startPiece
          => err \/ OnTheWay(startPiece)]_streamVars

-----------------------------------------------------------------------------
(* Liveness. *)

\* No call of WritePiece blocks for good, on the mutex or on the full channel,
\* and a Close that has closed the channel returns.
CallsReturn ==
    /\ \A c \in Callers : caller[c] # "idle" ~> caller[c] = "idle"
    /\ \A k \in Closers : closer[k] = "wait" ~> closer[k] \in {"nil", "error"}

\* A complete piece reaches the files in full, whether the session is closed or
\* not, unless a write fails; from then on a Read of it has no holes.
CompletedReachesFiles ==
    \A p \in Pieces : p \in Completed ~> err \/ Verifies(p)
=============================================================================
