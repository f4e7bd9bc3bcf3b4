--------------------------- MODULE TorrentStorage ---------------------------
(***************************************************************************)
(* internal/storage/storage.go and the piece lengths of                    *)
(* internal/torrent/pieces.go: the files of a torrent, opened one after    *)
(* the other, and a byte range of the torrent read from or written to      *)
(* them.  A byte is the offset in the torrent it belongs to, or Hole: a    *)
(* place of the file that was only truncated to size.                      *)
(***************************************************************************)
EXTENDS Naturals, Sequences, FiniteSets

CONSTANTS FileLength,   \* lengths of the files, in the order of the torrent
          PieceLength,  \* standard piece length
          Length,       \* total length
          Hole,         \* a byte that was never written
          Leftovers     \* what earlier sessions may have left: sets of offsets

ASSUME StorageAssumption ==
    /\ FileLength \in Seq(Nat) /\ FileLength # <<>>
    /\ PieceLength \in Nat \ {0}
    /\ Length \in Nat \ {0}
    /\ Hole \notin Nat
    /\ \E start \in [1 .. Len(FileLength) + 1 -> 0 .. Length] :   \* Length is their sum
          /\ start[1] = 0 /\ start[Len(FileLength) + 1] = Length
          /\ \A i \in DOMAIN FileLength : start[i + 1] = start[i] + FileLength[i]

VARIABLES files,    \* ts.files: the place of each open file in the torrent
          content,  \* the bytes of each of them
          storage   \* "opening", "scan" (resume), "open", "failed" or "closed"

storageVars == <<files, content, storage>>

\* The last piece may be shorter.
PieceCount == (Length \div PieceLength) + (IF Length % PieceLength > 0 THEN 1 ELSE 0)

PieceLengthAt(p) ==
    IF Length % PieceLength > 0 /\ p = PieceCount - 1 THEN Length % PieceLength
    ELSE PieceLength

MaxVal(a, b) == IF a > b THEN a ELSE b
MinVal(a, b) == IF a < b THEN a ELSE b

-----------------------------------------------------------------------------
(* NewTorrentStorage *)

\* The running offset: where the next file starts.
NextOffset == IF files = <<>> THEN 0 ELSE files[Len(files)].endOffset

InitStorage ==
    /\ files = <<>>
    /\ content = <<>>
    /\ storage = "opening"

\* The next file is created, or found, and truncated to its length; the last
\* one ends the loop.
OpenFile(leftover) ==
    /\ storage = "opening"
    /\ LET n == FileLength[Len(files) + 1]
       IN  /\ files' = Append(files, [startOffset |-> NextOffset,
                                      endOffset   |-> NextOffset + n])
           /\ content' = Append(content, [j \in 0 .. n - 1 |->
                            IF NextOffset + j \in leftover THEN NextOffset + j ELSE Hole])
    /\ storage' = IF Len(files) + 1 = Len(FileLength) THEN "scan" ELSE "opening"

\* A directory, a file or its size cannot be made: the open files are closed.
OpenFails ==
    /\ storage = "opening"
    /\ storage' = "failed"
    /\ UNCHANGED <<files, content>>

-----------------------------------------------------------------------------
(* ReadAt and WriteAt, on n bytes at offset off: the loop over the files. *)

Overlaps(i, off, n) == ~(off >= files[i].endOffset \/ off + n <= files[i].startOffset)

OverlapStart(i, off) == MaxVal(off, files[i].startOffset)
OverlapLen(i, off, n) == MinVal(off + n, files[i].endOffset) - OverlapStart(i, off)
PhysicalOffset(i, off) == OverlapStart(i, off) - files[i].startOffset

\* Mutant of BufferOffset: each file gets the first bytes of the buffer.
BufferOffsetZero(i, off) == 0

BufferOffset(i, off) == OverlapStart(i, off) - off

\* The first len bytes of the overlap, written to file i from the buffer data.
Written(i, off, data, len) ==
    [j \in DOMAIN content[i] |->
        IF PhysicalOffset(i, off) <= j /\ j < PhysicalOffset(i, off) + len
        THEN data[BufferOffset(i, off) + (j - PhysicalOffset(i, off))]
        ELSE content[i][j]]

\* The buffer ReadAt fills: byte k comes from the file whose overlap has it.
Reads(i, off, n, k) ==
    /\ Overlaps(i, off, n)
    /\ BufferOffset(i, off) <= k /\ k < BufferOffset(i, off) + OverlapLen(i, off, n)

ReadAt(off, n) ==
    [k \in 0 .. n - 1 |->
        IF \E i \in DOMAIN files : Reads(i, off, n, k)
        THEN LET i == CHOOSE i \in DOMAIN files : Reads(i, off, n, k)
             IN  content[i][PhysicalOffset(i, off) + (k - BufferOffset(i, off))]
        ELSE Hole]

CloseStorage ==
    /\ storage = "open"
    /\ storage' = "closed"
    /\ UNCHANGED <<files, content>>

-----------------------------------------------------------------------------
(* Pieces. *)

\* The data of a verified piece: its bytes, each in its place.
Data(p) == [k \in 0 .. PieceLengthAt(p) - 1 |-> p * PieceLength + k]

\* VerifyPiece on what ReadAt returns.
Verifies(p) == ReadAt(p * PieceLength, PieceLengthAt(p)) = Data(p)
=============================================================================
