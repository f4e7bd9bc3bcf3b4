--------------------------- MODULE Streaming_proof ---------------------------
(***************************************************************************)
(* Proofs about Streaming, for any files, pieces, callers and leftovers:   *)
(* bytes are never misplaced, and what was stored is found again.          *)
(***************************************************************************)
EXTENDS Streaming, DiskWriter_proof, SequenceTheorems, WellFoundedInduction

-----------------------------------------------------------------------------
(* The places of the files and of the pieces in the torrent. *)

N == Len(FileLength)

\* Where each file starts, and where the last one ends.
IsStart(s) ==
    /\ s \in [1 .. N + 1 -> 0 .. Length]
    /\ s[1] = 0 /\ s[N + 1] = Length
    /\ \A i \in 1 .. N : s[i + 1] = s[i] + FileLength[i]

Start == CHOOSE s : IsStart(s)

LEMMA StartFacts ==
    /\ N \in Nat \ {0} /\ FileLength \in [1 .. N -> Nat] /\ IsStart(Start)
<1>1. N \in Nat \ {0} /\ DOMAIN FileLength = 1 .. N /\ FileLength \in [1 .. N -> Nat]
  BY StorageAssumption DEF N
<1>2. \E s : IsStart(s)
  BY <1>1, StorageAssumption DEF IsStart, N
<1> QED
  BY <1>1, <1>2 DEF Start

\* A non-empty set of naturals has a least element.
LEMMA LeastNat ==
    ASSUME NEW T \in SUBSET Nat, T # {}
    PROVE  \E x \in T : \A y \in T : x <= y
<1> DEFINE R == {ss \in Nat \X Nat : ss[1] < ss[2]}
<1>1. IsWellFoundedOn(R, Nat)
  BY NatLessThanWellFounded DEF OpToRel
<1>2. PICK x \in T : \A y \in T : <<y, x>> \notin R
  BY <1>1, WFMin
<1>3. \A y \in T : ~(y < x)
  BY <1>2
<1>4. \A y \in T : x <= y
  BY <1>3
<1> QED
  BY <1>4

\* Every byte of the torrent lies in a file.
LEMMA Covered ==
    ASSUME NEW b \in Nat, b < Length
    PROVE  \E i \in 1 .. N : Start[i] <= b /\ b < Start[i + 1]
<1> DEFINE T == {i \in 1 .. N + 1 : Start[i] > b}
<1>1. N \in Nat \ {0} /\ Start \in [1 .. N + 1 -> 0 .. Length]
      /\ Start[1] = 0 /\ Start[N + 1] = Length
  BY StartFacts DEF IsStart
<1>2. N + 1 \in T /\ T \in SUBSET Nat
  BY <1>1, StorageAssumption
<1>3. PICK i \in T : \A j \in T : i <= j
  BY <1>2, LeastNat
<1>4. i \in 1 .. N + 1 /\ Start[i] > b
  BY <1>3
<1>5. i # 1
  BY <1>1, <1>4
<1>6. i - 1 \in 1 .. N /\ i - 1 \notin T
  BY <1>1, <1>3, <1>4, <1>5
<1>7. Start[i - 1] <= b
  BY <1>1, <1>6
<1>8. (i - 1) + 1 = i
  BY <1>4
<1> QED
  BY <1>4, <1>6, <1>7, <1>8

\* A piece lies in the torrent.
LEMMA PieceInside ==
    ASSUME NEW p \in Pieces
    PROVE  /\ p \in Nat /\ p * PieceLength \in Nat /\ PieceLengthAt(p) \in Nat \ {0}
           /\ p * PieceLength + PieceLengthAt(p) <= Length
<1> DEFINE c == Length \div PieceLength
           r == Length % PieceLength
<1>1. PieceLength \in Nat \ {0} /\ Length \in Nat \ {0}
  BY StorageAssumption
<1>2. c \in Nat /\ r \in Nat /\ r < PieceLength /\ Length = PieceLength * c + r
  BY <1>1
<1>3. PieceCount = c + (IF r > 0 THEN 1 ELSE 0)
  BY DEF PieceCount
<1>4. p \in Nat /\ p <= PieceCount - 1
  BY <1>2, <1>3, StreamingAssumption
<1>5. p * PieceLength \in Nat /\ c * PieceLength \in Nat /\ Length = c * PieceLength + r
  BY <1>1, <1>2, <1>4
<1>6. CASE r > 0 /\ p = PieceCount - 1
  <2>1. p = c /\ PieceLengthAt(p) = r
    BY <1>2, <1>3, <1>6 DEF PieceLengthAt
  <2> QED
    BY <1>2, <1>4, <1>5, <1>6, <2>1
<1>7. CASE ~(r > 0 /\ p = PieceCount - 1)
  <2>1. PieceLengthAt(p) = PieceLength
    BY <1>7 DEF PieceLengthAt
  <2>2. p <= c - 1
    BY <1>2, <1>3, <1>4, <1>7
  <2>3. PICK d \in Nat : c = p + 1 + d
    <3>1. c - p - 1 \in Nat /\ c = p + 1 + (c - p - 1)
      BY <1>2, <1>4, <2>2
    <3> QED BY <3>1
  <2>4. d * PieceLength \in Nat
    BY <1>1, <2>3
  <2>5. c * PieceLength = p * PieceLength + PieceLength + d * PieceLength
    BY <1>1, <1>4, <2>3
  <2> QED
    BY <1>1, <1>2, <1>4, <1>5, <2>1, <2>4, <2>5
<1> QED
  BY <1>6, <1>7

-----------------------------------------------------------------------------
(* Writing and reading the files. *)

Places == [startOffset : Nat, endOffset : Nat]
Bytes == UNION {[0 .. n - 1 -> Nat \cup {Hole}] : n \in Nat}

\* The open files are the first ones of the torrent, in their places, and each
\* byte of them is the byte of its place or a hole.
Layout ==
    /\ files \in Seq(Places) /\ content \in Seq(Bytes)
    /\ Len(files) <= N /\ Len(content) = Len(files)
    /\ \A i \in DOMAIN files :
          /\ files[i].startOffset = Start[i] /\ files[i].endOffset = Start[i + 1]
          /\ DOMAIN content[i] = 0 .. FileLength[i] - 1
          /\ \A j \in DOMAIN content[i] : content[i][j] \in {Hole, Start[i] + j}

\* The place of one open file, in numbers.
LEMMA FilePlace ==
    ASSUME Layout, NEW i \in DOMAIN files
    PROVE  /\ i \in 1 .. N /\ i \in Nat
           /\ files[i].startOffset = Start[i] /\ files[i].endOffset = Start[i + 1]
           /\ Start[i] \in Nat /\ Start[i + 1] \in Nat /\ FileLength[i] \in Nat
           /\ Start[i + 1] = Start[i] + FileLength[i]
           /\ DOMAIN content[i] = 0 .. FileLength[i] - 1
<1>1. i \in 1 .. N /\ i \in Nat
  BY StartFacts DEF Layout
<1>2. /\ files[i].startOffset = Start[i] /\ files[i].endOffset = Start[i + 1]
      /\ DOMAIN content[i] = 0 .. FileLength[i] - 1
  BY DEF Layout
<1>3. /\ Start \in [1 .. N + 1 -> 0 .. Length] /\ FileLength \in [1 .. N -> Nat]
      /\ Start[i + 1] = Start[i] + FileLength[i]
  BY <1>1, StartFacts DEF IsStart
<1>4. i \in 1 .. N + 1 /\ i + 1 \in 1 .. N + 1
  BY <1>1, StartFacts
<1>5. Start[i] \in 0 .. Length /\ Start[i + 1] \in 0 .. Length /\ FileLength[i] \in Nat
  BY <1>1, <1>3, <1>4
<1>6. Start[i] \in Nat /\ Start[i + 1] \in Nat
  BY <1>5, StorageAssumption
<1> QED
  BY <1>1, <1>2, <1>3, <1>5, <1>6

\* The overlap of a file with a range of bytes, in numbers.
LEMMA OverlapPlace ==
    ASSUME Layout, NEW i \in DOMAIN files, NEW off \in Nat, NEW n \in Nat,
           Overlaps(i, off, n)
    PROVE  /\ PhysicalOffset(i, off) \in Nat /\ BufferOffset(i, off) \in Nat
           /\ OverlapLen(i, off, n) \in Nat
           /\ PhysicalOffset(i, off) + Start[i] = BufferOffset(i, off) + off
           /\ PhysicalOffset(i, off) + OverlapLen(i, off, n) <= FileLength[i]
           /\ BufferOffset(i, off) + OverlapLen(i, off, n) <= n
           /\ \A b \in Nat : off <= b /\ b < off + n /\ Start[i] <= b /\ b < Start[i + 1] =>
                 /\ PhysicalOffset(i, off) <= b - Start[i]
                 /\ b - Start[i] < PhysicalOffset(i, off) + OverlapLen(i, off, n)
<1>1. /\ files[i].startOffset = Start[i] /\ files[i].endOffset = Start[i + 1]
      /\ Start[i] \in Nat /\ Start[i + 1] \in Nat /\ FileLength[i] \in Nat
      /\ Start[i + 1] = Start[i] + FileLength[i]
  BY FilePlace
<1> DEFINE from == IF off > Start[i] THEN off ELSE Start[i]
           to == IF off + n < Start[i + 1] THEN off + n ELSE Start[i + 1]
<1>2. off < Start[i + 1] /\ Start[i] < off + n
  BY <1>1 DEF Overlaps
<1>3. /\ PhysicalOffset(i, off) = from - Start[i] /\ BufferOffset(i, off) = from - off
      /\ OverlapLen(i, off, n) = to - from
  BY <1>1 DEF OverlapStart, OverlapLen, PhysicalOffset, BufferOffset, MaxVal, MinVal
<1>4. from \in Nat /\ from >= off /\ from >= Start[i]
  BY <1>1
<1>5. to \in Nat /\ to <= off + n /\ to <= Start[i + 1]
  BY <1>1
<1>6. to >= from
  BY <1>1, <1>2
<1>7. \A b \in Nat : off <= b /\ b < off + n /\ Start[i] <= b /\ b < Start[i + 1] =>
            from <= b /\ b < to
  BY <1>1
<1> HIDE DEF from, to
<1> QED
  BY <1>1, <1>3, <1>4, <1>5, <1>6, <1>7

\* Bytes that are in place stay in place.
OnlyFills ==
    \A i \in DOMAIN files :
       /\ DOMAIN content'[i] = DOMAIN content[i]
       /\ \A j \in DOMAIN content[i] : content'[i][j] \in {content[i][j], Start[i] + j}

\* File i has all its bytes of piece p.
HasPart(i, p) ==
    \A b \in Nat : /\ p * PieceLength <= b /\ b < p * PieceLength + PieceLengthAt(p)
                   /\ Start[i] <= b /\ b < Start[i + 1]
                   => content[i][b - Start[i]] = b

\* WriteAt puts the bytes of a piece, or the first of them, in their places.
LEMMA WrittenInPlace ==
    ASSUME Layout, NEW p \in Pieces, NEW i \in DOMAIN files,
           Overlaps(i, p * PieceLength, PieceLengthAt(p)),
           NEW len \in Nat, len <= OverlapLen(i, p * PieceLength, PieceLengthAt(p)),
           files' = files,
           content' = [content EXCEPT ![i] = Written(i, p * PieceLength, Data(p), len)]
    PROVE  /\ OnlyFills
           /\ content' \in Seq(Bytes) /\ Len(content') = Len(content)
           /\ len = OverlapLen(i, p * PieceLength, PieceLengthAt(p)) => HasPart(i, p)'
<1> DEFINE off == p * PieceLength
           n == PieceLengthAt(p)
           phys == PhysicalOffset(i, off)
           buf == BufferOffset(i, off)
           size == OverlapLen(i, off, n)
<1>1. off \in Nat /\ n \in Nat
  BY PieceInside
<1>2. /\ phys \in Nat /\ buf \in Nat /\ size \in Nat /\ phys + Start[i] = buf + off
      /\ phys + size <= FileLength[i] /\ buf + size <= n
      /\ \A b \in Nat : off <= b /\ b < off + n /\ Start[i] <= b /\ b < Start[i + 1] =>
            phys <= b - Start[i] /\ b - Start[i] < phys + size
  BY <1>1, OverlapPlace
<1>3. /\ i \in DOMAIN content /\ DOMAIN content[i] = 0 .. FileLength[i] - 1
      /\ Start[i] \in Nat /\ FileLength[i] \in Nat /\ Start[i + 1] = Start[i] + FileLength[i]
  BY FilePlace DEF Layout
<1>4. DOMAIN content' = DOMAIN content /\ content'[i] = Written(i, off, Data(p), len)
      /\ \A k \in DOMAIN content : k # i => content'[k] = content[k]
  BY <1>3
<1>5. ASSUME NEW j \in DOMAIN content[i], phys <= j, j < phys + len
      PROVE  content'[i][j] = Start[i] + j
  <2>1. j \in Nat /\ j < phys + size
    BY <1>2, <1>3, <1>5
  <2>2. buf + (j - phys) \in 0 .. n - 1
    BY <1>1, <1>2, <1>5, <2>1
  <2>3. Data(p)[buf + (j - phys)] = off + (buf + (j - phys))
    BY <2>2 DEF Data
  <2>4. off + (buf + (j - phys)) = Start[i] + j
    <3> HIDE DEF off, buf, phys
    <3>1. off \in Nat /\ buf \in Nat /\ phys \in Nat /\ Start[i] \in Nat
          /\ phys + Start[i] = buf + off
      BY <1>1, <1>2, <1>3
    <3> QED
      BY <2>1, <3>1
  <2>5. content'[i][j] = Data(p)[buf + (j - phys)]
    BY <1>4, <1>5 DEF Written
  <2> QED
    BY <2>3, <2>4, <2>5
<1>6. ASSUME NEW j \in DOMAIN content[i], ~(phys <= j /\ j < phys + len)
      PROVE  content'[i][j] = content[i][j]
  BY <1>4, <1>6 DEF Written
<1>7. DOMAIN content'[i] = DOMAIN content[i]
  BY <1>4 DEF Written
<1>8. OnlyFills
  <2>1. ASSUME NEW k \in DOMAIN files, k # i
        PROVE  content'[k] = content[k]
    BY <1>4, <2>1 DEF Layout
  <2> QED
    BY <1>5, <1>6, <1>7, <2>1 DEF OnlyFills
<1>9. ASSUME len = size PROVE HasPart(i, p)'
  <2> SUFFICES ASSUME NEW b \in Nat, off <= b, b < off + n, Start[i] <= b, b < Start[i + 1]
               PROVE  content'[i][b - Start[i]] = b
    BY DEF HasPart
  <2>1. phys <= b - Start[i] /\ b - Start[i] < phys + len
    BY <1>2, <1>9
  <2>2. b - Start[i] \in 0 .. FileLength[i] - 1
    BY <1>3
  <2>3. content'[i][b - Start[i]] = Start[i] + (b - Start[i])
    BY <1>3, <1>5, <2>1, <2>2
  <2> QED
    BY <1>3, <2>3
<1>10. Written(i, off, Data(p), len) \in Bytes
  <2> DEFINE f == Written(i, off, Data(p), len)
  <2>1. f \in [0 .. FileLength[i] - 1 -> Nat \cup {Hole}]
    <3>1. \A j \in 0 .. FileLength[i] - 1 : f[j] \in Nat \cup {Hole}
      <4> SUFFICES ASSUME NEW j \in 0 .. FileLength[i] - 1 PROVE f[j] \in Nat \cup {Hole}
        OBVIOUS
      <4>1. f[j] \in {content[i][j], Start[i] + j}
        BY <1>3, <1>4, <1>5, <1>6
      <4>2. content[i][j] \in {Hole, Start[i] + j}
        BY <1>3 DEF Layout
      <4> QED
        BY <1>3, <4>1, <4>2
    <3> QED
      BY <1>3, <3>1 DEF Written
  <2> QED
    BY <1>3, <2>1 DEF Bytes
<1>11. content' \in Seq(Bytes) /\ Len(content') = Len(content)
  <2>1. content \in Seq(Bytes) /\ i \in 1 .. Len(content)
    BY DEF Layout
  <2> DEFINE g == [content EXCEPT ![i] = Written(i, off, Data(p), len)]
  <2>2. g \in Seq(Bytes) /\ Len(g) = Len(content)
    <3> DEFINE w == Written(i, off, Data(p), len)
    <3>1. w \in Bytes
      BY <1>10
    <3> HIDE DEF w
    <3>2. [content EXCEPT ![i] = w] \in Seq(Bytes) /\ Len([content EXCEPT ![i] = w]) = Len(content)
      BY <2>1, <3>1, ExceptSeq
    <3> QED
      BY <3>2 DEF w
  <2> QED
    BY <2>2
<1> QED
  BY <1>8, <1>9, <1>11

\* Nothing is lost of the layout by filling places.
LEMMA LayoutKept ==
    ASSUME Layout, OnlyFills, files' = files,
           content' \in Seq(Bytes), Len(content') = Len(content)
    PROVE  Layout'
<1>1. ASSUME NEW i \in DOMAIN files
      PROVE  /\ DOMAIN content'[i] = 0 .. FileLength[i] - 1
             /\ \A j \in DOMAIN content'[i] : content'[i][j] \in {Hole, Start[i] + j}
  BY DEF Layout, OnlyFills
<1> QED
  BY <1>1 DEF Layout

LEMMA PartKept ==
    ASSUME Layout, OnlyFills, NEW i \in DOMAIN files, NEW p \in Pieces, HasPart(i, p)
    PROVE  HasPart(i, p)'
<1> SUFFICES ASSUME NEW b \in Nat,
                    p * PieceLength <= b, b < p * PieceLength + PieceLengthAt(p),
                    Start[i] <= b, b < Start[i + 1]
             PROVE  content'[i][b - Start[i]] = b
  BY DEF HasPart
<1>1. content[i][b - Start[i]] = b
  BY DEF HasPart
<1>2. Start[i] \in Nat /\ b - Start[i] \in DOMAIN content[i]
  BY FilePlace
<1>3. content'[i][b - Start[i]] \in {b, Start[i] + (b - Start[i])}
  BY <1>1, <1>2 DEF OnlyFills
<1> QED
  BY <1>2, <1>3

\* The place a byte is read from.
Place(i, off, k) == PhysicalOffset(i, off) + (k - BufferOffset(i, off))

LEMMA ReadsPlace ==
    ASSUME Layout, NEW i \in DOMAIN files, NEW off \in Nat, NEW n \in Nat,
           NEW k \in 0 .. n - 1, Reads(i, off, n, k)
    PROVE  /\ Place(i, off, k) \in DOMAIN content[i]
           /\ Place(i, off, k) = (off + k) - Start[i]
           /\ Start[i] <= off + k /\ off + k < Start[i + 1]
<1> DEFINE phys == PhysicalOffset(i, off)
           buf == BufferOffset(i, off)
           size == OverlapLen(i, off, n)
<1>1. /\ Start[i] \in Nat /\ FileLength[i] \in Nat /\ Start[i + 1] = Start[i] + FileLength[i]
      /\ DOMAIN content[i] = 0 .. FileLength[i] - 1
  BY FilePlace
<1>2. /\ phys \in Nat /\ buf \in Nat /\ size \in Nat /\ phys + Start[i] = buf + off
      /\ phys + size <= FileLength[i]
  BY OverlapPlace DEF Reads
<1>3. buf <= k /\ k < buf + size
  BY DEF Reads
<1>4. k \in Nat
  OBVIOUS
<1>5. phys + (k - buf) \in 0 .. FileLength[i] - 1 /\ phys + (k - buf) = (off + k) - Start[i]
      /\ Start[i] <= off + k /\ off + k < Start[i] + FileLength[i]
  <2> HIDE DEF phys, buf, size
  <2>1. Start[i] \in Nat /\ FileLength[i] \in Nat /\ phys \in Nat /\ buf \in Nat /\ size \in Nat
    BY <1>1, <1>2
  <2>2. phys + Start[i] = buf + off /\ phys + size <= FileLength[i]
    BY <1>1, <1>2
  <2>3. buf <= k /\ k < buf + size
    BY <1>3
  <2>4. phys + (k - buf) \in 0 .. FileLength[i] - 1
    BY <2>1, <2>2, <2>3, <1>4
  <2>5. phys + (k - buf) = (off + k) - Start[i]
    BY <2>1, <2>2, <2>3, <1>4
  <2>6. Start[i] <= off + k /\ off + k < Start[i] + FileLength[i]
    BY <2>1, <2>2, <2>3, <1>4
  <2> QED
    BY <2>4, <2>5, <2>6
<1> QED
  BY <1>1, <1>5 DEF Place

\* Conversely, a file that has a byte of the range is one it may be read from.
LEMMA CanRead ==
    ASSUME Layout, NEW i \in DOMAIN files, NEW off \in Nat, NEW n \in Nat,
           NEW k \in 0 .. n - 1, Start[i] <= off + k, off + k < Start[i + 1]
    PROVE  Reads(i, off, n, k)
<1>1. /\ files[i].startOffset = Start[i] /\ files[i].endOffset = Start[i + 1]
      /\ Start[i] \in Nat /\ Start[i + 1] \in Nat
  BY FilePlace
<1>2. Overlaps(i, off, n)
  BY <1>1 DEF Overlaps
<1> DEFINE from == IF off > Start[i] THEN off ELSE Start[i]
           to == IF off + n < Start[i + 1] THEN off + n ELSE Start[i + 1]
<1>3. BufferOffset(i, off) = from - off /\ OverlapLen(i, off, n) = to - from
  BY <1>1 DEF OverlapStart, OverlapLen, BufferOffset, MaxVal, MinVal
<1>4. from \in Nat /\ from <= off + k
  BY <1>1
<1>5. to \in Nat /\ off + k < to
  BY <1>1
<1> HIDE DEF from, to
<1>6. from - off <= k /\ k < (from - off) + (to - from)
  BY <1>4, <1>5
<1> QED
  BY <1>2, <1>3, <1>6 DEF Reads

\* A piece that verifies still does when places are filled.
LEMMA StillVerifies ==
    ASSUME Layout, OnlyFills, files' = files, NEW p \in Pieces, Verifies(p)
    PROVE  Verifies(p)'
<1> DEFINE off == p * PieceLength
           n == PieceLengthAt(p)
<1>1. off \in Nat /\ n \in Nat
  BY PieceInside
<1>2. ReadAt(off, n) = Data(p)
  BY DEF Verifies
<1>3. ASSUME NEW k \in 0 .. n - 1
      PROVE  ReadAt(off, n)'[k] = off + k
  <2>1. ReadAt(off, n)[k] = off + k /\ off + k \in Nat
    BY <1>1, <1>2 DEF Data
  <2>2. \E m \in DOMAIN files : Reads(m, off, n, k)
    BY <2>1, StorageAssumption DEF ReadAt
  <2>3. PICK i \in DOMAIN files : /\ i = CHOOSE j \in DOMAIN files : Reads(j, off, n, k)
                                 /\ Reads(i, off, n, k)
    BY <2>2
  <2>4. ReadAt(off, n)[k] = content[i][Place(i, off, k)]
    BY <2>2, <2>3 DEF ReadAt, Place
  <2>5. /\ Place(i, off, k) \in DOMAIN content[i]
        /\ Place(i, off, k) = (off + k) - Start[i] /\ Start[i] \in Nat
    BY <1>1, <2>3, ReadsPlace, FilePlace
  <2>6. ReadAt(off, n)'[k] = content'[i][Place(i, off, k)]
    BY <2>2, <2>3 DEF ReadAt, Place, Reads, Overlaps, OverlapStart, OverlapLen, PhysicalOffset,
                BufferOffset
  <2>7. content'[i][Place(i, off, k)] \in {content[i][Place(i, off, k)],
                                           Start[i] + Place(i, off, k)}
    BY <2>3, <2>5 DEF OnlyFills
  <2>8. Start[i] + Place(i, off, k) = off + k
    <3>1. \A b, st \in Nat : st + (b - st) = b
      OBVIOUS
    <3>2. Start[i] + ((off + k) - Start[i]) = off + k
      BY <2>1, <2>5, <3>1, Zenon
    <3> QED
      BY <2>5, <3>2, Zenon
  <2> QED
    BY <2>1, <2>4, <2>6, <2>7, <2>8
<1>4. ReadAt(off, n)' = Data(p)
  BY <1>3 DEF ReadAt, Data
<1> QED
  BY <1>4 DEF Verifies, Data

\* A piece of which every file has its part verifies.
LEMMA WholeVerifies ==
    ASSUME Layout, Len(files) = N, NEW p \in Pieces, \A i \in DOMAIN files : HasPart(i, p)
    PROVE  Verifies(p)
<1> DEFINE off == p * PieceLength
           n == PieceLengthAt(p)
<1>1. off \in Nat /\ n \in Nat /\ off + n <= Length
  BY PieceInside
<1>2. ASSUME NEW k \in 0 .. n - 1
      PROVE  ReadAt(off, n)[k] = off + k
  <2>1. off + k \in Nat /\ off + k < Length /\ off <= off + k /\ off + k < off + n
    <3> HIDE DEF off, n
    <3> QED BY <1>1, StorageAssumption
  <2>2. PICK m \in 1 .. N : Start[m] <= off + k /\ off + k < Start[m + 1]
    BY <2>1, Covered
  <2>3. m \in DOMAIN files
    BY DEF Layout
  <2>4. Reads(m, off, n, k)
    BY <1>1, <2>2, <2>3, CanRead
  <2>5. PICK i \in DOMAIN files : /\ i = CHOOSE j \in DOMAIN files : Reads(j, off, n, k)
                                 /\ Reads(i, off, n, k)
    BY <2>3, <2>4
  <2>6. ReadAt(off, n)[k] = content[i][Place(i, off, k)]
    BY <2>3, <2>4, <2>5 DEF ReadAt, Place
  <2>7. /\ Place(i, off, k) = (off + k) - Start[i]
        /\ Start[i] <= off + k /\ off + k < Start[i + 1]
    BY <1>1, <2>5, ReadsPlace
  <2>8. content[i][(off + k) - Start[i]] = off + k
    <3>1. HasPart(i, p)
      OBVIOUS
    <3>2. \A b \in Nat : (off <= b /\ b < off + n /\ Start[i] <= b /\ b < Start[i + 1]) =>
             content[i][b - Start[i]] = b
      BY <3>1 DEF HasPart
    <3>3. off + k \in Nat /\ off <= off + k /\ off + k < off + n
          /\ Start[i] <= off + k /\ off + k < Start[i + 1]
      BY <2>1, <2>7
    <3> QED
      BY <3>2, <3>3, Zenon
  <2> QED
    BY <2>6, <2>7, <2>8
<1>3. ReadAt(off, n) = Data(p)
  BY <1>2 DEF ReadAt, Data
<1> QED
  BY <1>3 DEF Verifies

-----------------------------------------------------------------------------
(* The invariant. *)

\* How far the files are open, and what may be in them.
Stage ==
    /\ resumed \subseteq Pieces
    /\ storage = "opening" => Len(files) < N
    /\ storage \in {"scan", "open", "closed"} => Len(files) = N
    /\ storage \in {"opening", "scan", "failed"} => resumed = {} /\ disk = Empty /\ at = 1

\* A WriteAt is under way.
Midway == Writing /\ ~err /\ batch # Empty

\* It has written the files of its piece that it has passed.
PartWritten ==
    /\ at \in Nat /\ at >= 1
    /\ at > 1 => /\ Midway
                 /\ \A p \in Pieces, i \in DOMAIN files : Lowest(p) /\ i < at => HasPart(i, p)

\* What the reader returned.
ReaderSound ==
    /\ offset \in Nat /\ limit \in Nat
    /\ reader # "none" => VideoFile \in DOMAIN files
    /\ reader # "idle" => got = <<>>
    /\ reader = "wait" => offset + limit <= fileLength
    /\ \A k \in DOMAIN got : got[k] \in {Hole, Start[VideoFile] + (offset - limit) + (k - 1)}

StreamInv == Layout /\ Stage /\ StoredIsFound /\ PartWritten /\ ReaderSound

LEMMA StreamInit == InitStreaming => StreamInv
<1> SUFFICES ASSUME InitStreaming PROVE StreamInv
  OBVIOUS
<1>1. Layout
  BY StartFacts DEF InitStreaming, InitStorage, Layout
<1>2. disk = Empty /\ resumed = {} /\ at = 1
  BY DEF InitStreaming, Init
<1>3. Stage
  BY <1>2, StartFacts DEF InitStreaming, InitStorage, Stage
<1>4. StoredIsFound
  BY <1>2 DEF StoredIsFound, Empty
<1>5. PartWritten
  BY DEF InitStreaming, PartWritten
<1>6. ReaderSound
  BY DEF InitStreaming, ReaderSound
<1> QED
  BY <1>1, <1>3, <1>4, <1>5, <1>6 DEF StreamInv

\* The files are as they were.
LEMMA SameFiles ==
    ASSUME files' = files, content' = content
    PROVE  /\ Layout' = Layout
           /\ \A p \in Pieces : Verifies(p)' = Verifies(p)
           /\ \A p \in Pieces, i \in DOMAIN files : HasPart(i, p)' = HasPart(i, p)
<1>1. Layout' = Layout
  BY DEF Layout
<1>2. \A p \in Pieces : Verifies(p)' = Verifies(p)
  BY DEF Verifies, ReadAt, Data, Reads, Overlaps, OverlapStart, OverlapLen, PhysicalOffset,
         BufferOffset
<1>3. \A p \in Pieces, i \in DOMAIN files : HasPart(i, p)' = HasPart(i, p)
  BY DEF HasPart
<1> QED
  BY <1>1, <1>2, <1>3

\* The next file, or none.
LEMMA OpenStep == StreamInv /\ Open => StreamInv'
<1> SUFFICES ASSUME StreamInv, Open PROVE StreamInv'
  OBVIOUS
<1> USE DEF StreamInv
<1>1. UNCHANGED <<vars, resumeVars, at, readerVars>> /\ storage = "opening"
  BY DEF Open, OpenFile, OpenFails
<1>2. resumed' = {} /\ disk' = Empty /\ at' = 1
  BY <1>1 DEF Stage, vars, resumeVars
<1>3. StoredIsFound'
  BY <1>2 DEF StoredIsFound, Empty
<1>3a. PartWritten'
  BY <1>2 DEF PartWritten
<1>4. CASE OpenFails
  <2>1. files' = files /\ content' = content /\ storage' = "failed"
    BY <1>4 DEF OpenFails
  <2>2. Layout' /\ Stage'
    BY <1>2, <2>1, SameFiles DEF Stage
  <2>4. ReaderSound'
    BY <1>1, <2>1 DEF ReaderSound, readerVars
  <2> QED
    BY <1>3, <1>3a, <2>2, <2>4
<1>5. CASE OpenFile(leftover)
  <2> DEFINE m == Len(files) + 1
             n == FileLength[m]
             e == [startOffset |-> NextOffset, endOffset |-> NextOffset + n]
             c == [j \in 0 .. n - 1 |->
                      IF NextOffset + j \in leftover THEN NextOffset + j ELSE Hole]
  <2>1. /\ files \in Seq(Places) /\ content \in Seq(Bytes) /\ Len(content) = Len(files)
        /\ Len(files) \in Nat /\ m \in 1 .. N /\ m - 1 = Len(files)
    BY <1>1, StartFacts DEF Stage, Layout
  <2>2. files' = Append(files, e) /\ content' = Append(content, c)
    BY <1>5 DEF OpenFile
  <2>3. /\ n \in Nat /\ Start[m] \in Nat /\ Start[m + 1] \in Nat
        /\ Start[m + 1] = Start[m] + n /\ Start[1] = 0
    <3>1. m \in 1 .. N + 1 /\ m + 1 \in 1 .. N + 1
      BY <2>1, StartFacts
    <3> QED
      BY <2>1, <3>1, StartFacts, StorageAssumption DEF IsStart
  <2>4. NextOffset = Start[m]
    <3>1. CASE files = <<>>
      BY <2>1, <2>3, <3>1 DEF NextOffset
    <3>2. CASE files # <<>>
      <4>1. Len(files) \in DOMAIN files
        BY <2>1, <3>2
      <4> QED
        BY <3>2, <4>1 DEF Layout, NextOffset
    <3> QED
      BY <3>1, <3>2
  <2>5. e \in Places /\ e.startOffset = Start[m] /\ e.endOffset = Start[m + 1]
    BY <2>3, <2>4 DEF Places
  <2>6. /\ c \in Bytes /\ DOMAIN c = 0 .. FileLength[m] - 1
        /\ \A j \in DOMAIN c : c[j] \in {Hole, Start[m] + j}
    <3>1. \A j \in DOMAIN c : c[j] \in {Hole, Start[m] + j}
      BY <2>4
    <3>2. c \in [0 .. n - 1 -> Nat \cup {Hole}]
      BY <2>3, <2>4
    <3> QED
      BY <2>3, <3>1, <3>2 DEF Bytes
  <2> HIDE DEF e, c
  <2>7. /\ files' \in Seq(Places) /\ Len(files') = m
        /\ files'[m] = e /\ \A i \in 1 .. Len(files) : files'[i] = files[i]
    BY <2>1, <2>2, <2>5, AppendProperties
  <2>8. /\ content' \in Seq(Bytes) /\ Len(content') = m
        /\ content'[m] = c /\ \A i \in 1 .. Len(files) : content'[i] = content[i]
    BY <2>1, <2>2, <2>6, AppendProperties
  <2>9. \A i \in DOMAIN files' : i = m \/ i \in DOMAIN files
    BY <2>1, <2>7
  <2>10. Layout'
    <3>1. ASSUME NEW i \in DOMAIN files'
          PROVE  /\ files'[i].startOffset = Start[i] /\ files'[i].endOffset = Start[i + 1]
                 /\ DOMAIN content'[i] = 0 .. FileLength[i] - 1
                 /\ \A j \in DOMAIN content'[i] : content'[i][j] \in {Hole, Start[i] + j}
      <4>1. CASE i = m
        BY <2>5, <2>6, <2>7, <2>8, <4>1
      <4>2. CASE i \in DOMAIN files
        <5>1. files'[i] = files[i] /\ content'[i] = content[i]
          BY <2>1, <2>7, <2>8, <4>2
        <5> QED
          BY <4>2, <5>1 DEF Layout
      <4> QED
        BY <2>9, <4>1, <4>2
    <3>2. Len(files') <= N /\ Len(content') = Len(files')
      BY <2>1, <2>7, <2>8
    <3> QED
      BY <2>7, <2>8, <3>1, <3>2 DEF Layout
  <2>11. Stage'
    <3>1. storage' = IF m = N THEN "scan" ELSE "opening"
      BY <1>5 DEF OpenFile, N
    <3>2. m <= N /\ Len(files') = m /\ m \in Nat /\ N \in Nat
      BY <2>1, <2>7, StartFacts
    <3> QED
      BY <1>2, <3>1, <3>2 DEF Stage
  <2>13. ReaderSound'
    <3>1. VideoFile \in DOMAIN files => VideoFile \in DOMAIN files'
      BY <2>1, <2>7
    <3> QED
      BY <1>1, <3>1 DEF ReaderSound, readerVars
  <2> QED
    BY <1>3, <1>3a, <2>10, <2>11, <2>13
<1> QED
  BY <1>4, <1>5 DEF Open

\* The resume scan takes the pieces that verify.
LEMMA LoadStep == StreamInv /\ LoadExistingState => StreamInv'
<1> SUFFICES ASSUME StreamInv, LoadExistingState PROVE StreamInv'
  OBVIOUS
<1> USE DEF StreamInv, LoadExistingState
<1>1. Layout' /\ \A p \in Pieces : Verifies(p)' = Verifies(p)
  BY SameFiles
<1>2. disk = Empty /\ at = 1 /\ Len(files) = N
  BY DEF Stage
<1>3. storage' = "open" /\ disk' = disk /\ at' = at /\ files' = files
  BY DEF vars
<1>4. Stage'
  BY <1>2, <1>3 DEF Stage
<1>5. StoredIsFound'
  BY <1>1, <1>2, <1>3 DEF StoredIsFound, Empty
<1>6. PartWritten'
  BY <1>2, <1>3 DEF PartWritten
<1>7. ReaderSound'
  BY DEF ReaderSound, readerVars
<1> QED
  BY <1>1, <1>4, <1>5, <1>6, <1>7

\* Steps that change neither the files, nor what is on disk, nor a WriteAt under way.
Elsewhere ==
    /\ files' = files /\ content' = content /\ storage' = storage
    /\ resumed' = resumed /\ disk' = disk /\ at' = at
    /\ at = 1 \/ UNCHANGED <<loop, batch, err>>

LEMMA ElsewhereKeeps ==
    ASSUME StreamInv, Elsewhere
    PROVE  Layout' /\ Stage' /\ StoredIsFound' /\ PartWritten'
<1> USE DEF StreamInv, Elsewhere
<1>1. /\ Layout' /\ \A p \in Pieces : Verifies(p)' = Verifies(p)
      /\ \A p \in Pieces, i \in DOMAIN files : HasPart(i, p)' = HasPart(i, p)
  BY SameFiles
<1>2. Stage'
  BY DEF Stage
<1>3. StoredIsFound'
  BY <1>1 DEF StoredIsFound
<1>4. CASE at = 1
  BY <1>1, <1>2, <1>3, <1>4 DEF PartWritten
<1>5. CASE UNCHANGED <<loop, batch, err>>
  <2>1. Midway' = Midway /\ \A p \in Pieces : Lowest(p)' = Lowest(p)
    BY <1>5 DEF Midway, Writing, Lowest, Filled
  <2>2. PartWritten'
    BY <1>1, <2>1 DEF PartWritten
  <2> QED
    BY <1>1, <1>2, <1>3, <2>2
<1> QED
  BY <1>4, <1>5

\* Closing the files, and whatever the writer and its callers do but for WriteAt.
LEMMA ApartStep ==
    ASSUME StreamInv,
           \/ CloseFiles
           \/ LoopElse
           \/ \E c \in Callers : Apart(CheckError(c)) \/ CallStep(c)
           \/ \E k \in Closers : CloseStep(k)
    PROVE  StreamInv'
<1> USE DEF StreamInv
<1>1. ReaderSound /\ UNCHANGED <<files, readerVars>> => ReaderSound'
  BY DEF ReaderSound, readerVars
<1>2. CASE CloseFiles
  <2>1. /\ UNCHANGED <<files, content, vars, resumeVars, at, readerVars>>
        /\ storage = "open" /\ storage' = "closed"
    BY <1>2 DEF CloseFiles, CloseStorage
  <2>2. /\ Layout' /\ \A p \in Pieces : Verifies(p)' = Verifies(p)
        /\ \A p \in Pieces, i \in DOMAIN files : HasPart(i, p)' = HasPart(i, p)
    BY <2>1, SameFiles
  <2>3. disk' = disk /\ loop' = loop /\ batch' = batch /\ err' = err /\ resumed' = resumed
    BY <2>1 DEF vars, flushVars, resumeVars
  <2>4. Stage'
    BY <2>1, <2>3 DEF Stage
  <2>5. StoredIsFound'
    BY <2>2, <2>3 DEF StoredIsFound
  <2>6. Midway' = Midway /\ \A p \in Pieces : Lowest(p)' = Lowest(p)
    BY <2>3 DEF Midway, Writing, Lowest, Filled
  <2>7. PartWritten'
    BY <2>1, <2>2, <2>6 DEF PartWritten
  <2> QED
    BY <1>1, <2>1, <2>2, <2>4, <2>5, <2>7
<1>3. CASE LoopElse
  <2>1. UNCHANGED <<storageVars, resumeVars, at, readerVars>>
        /\ (Receive \/ CheckSize \/ Tick \/ Drained \/ TakeCache \/ FlushReturns)
    BY <1>3 DEF LoopElse, Apart
  <2>2. disk' = disk
    BY <2>1 DEF Receive, CheckSize, Tick, Drained, TakeCache, FlushReturns
  <2>3. ~Midway
    BY <2>1 DEF Midway, Writing, Receive, CheckSize, Tick, Drained, TakeCache, FlushReturns
  <2>4. at = 1
    BY <2>3 DEF PartWritten
  <2>5. Elsewhere
    BY <2>1, <2>2, <2>4 DEF Elsewhere, storageVars, resumeVars
  <2> QED
    BY <1>1, <2>1, <2>5, ElsewhereKeeps DEF storageVars
<1>4. ASSUME NEW c \in Callers, Apart(CheckError(c)) \/ CallStep(c) PROVE StreamInv'
  <2>1. UNCHANGED <<storageVars, resumeVars, at, readerVars>>
        /\ (CheckError(c) \/ LockForSend(c) \/ Send(c))
    BY <1>4 DEF Apart, CallStep, Call
  <2>2. UNCHANGED <<disk, loop, batch, err>>
    BY <2>1 DEF CheckError, LockForSend, Send, flushVars
  <2>3. Elsewhere
    BY <2>1, <2>2 DEF Elsewhere, storageVars, resumeVars
  <2> QED
    BY <1>1, <2>1, <2>3, ElsewhereKeeps DEF storageVars
<1>5. ASSUME NEW k \in Closers, CloseStep(k) PROVE StreamInv'
  <2>1. UNCHANGED <<storageVars, resumeVars, at, readerVars>>
        /\ (CloseChannel(k) \/ CloseReturns(k))
    BY <1>5 DEF Apart, CloseStep, Close
  <2>2. UNCHANGED <<disk, loop, batch, err>>
    BY <2>1 DEF CloseChannel, CloseReturns, flushVars
  <2>3. Elsewhere
    BY <2>1, <2>2 DEF Elsewhere, storageVars, resumeVars
  <2> QED
    BY <1>1, <2>1, <2>3, ElsewhereKeeps DEF storageVars
<1> QED
  BY <1>2, <1>3, <1>4, <1>5

-----------------------------------------------------------------------------
(* The steps of WriteAt. *)

Whole ==
    Layout /\ Len(files) = N =>
       \A p \in Pieces : (\A i \in DOMAIN files : HasPart(i, p)) => Verifies(p)

LEMMA WholeHolds == Whole
BY WholeVerifies DEF Whole

LEMMA WholeNext == Whole'
BY WholeHolds, PTL

\* Files the piece does not overlap have none of its bytes.
LEMMA NoPart ==
    ASSUME Layout, NEW p \in Pieces, NEW i \in DOMAIN files,
           ~Overlaps(i, p * PieceLength, PieceLengthAt(p))
    PROVE  HasPart(i, p)
<1>1. files[i].startOffset = Start[i] /\ files[i].endOffset = Start[i + 1]
      /\ Start[i] \in Nat /\ Start[i + 1] \in Nat
  BY FilePlace
<1>2. p * PieceLength \in Nat /\ PieceLengthAt(p) \in Nat
  BY PieceInside
<1> DEFINE off == p * PieceLength
           n == PieceLengthAt(p)
<1> HIDE DEF off, n
<1>3. off >= Start[i + 1] \/ off + n <= Start[i]
  BY <1>1 DEF Overlaps, off, n
<1>4. \A b \in Nat : ~(off <= b /\ b < off + n /\ Start[i] <= b /\ b < Start[i + 1])
  BY <1>1, <1>2, <1>3 DEF off, n
<1> QED
  BY <1>4 DEF HasPart, off, n

LEMMA WriteFileStep == TypeOK /\ StreamInv /\ WriteFile => StreamInv'
<1> SUFFICES ASSUME TypeOK, StreamInv, WriteFile PROVE StreamInv'
  OBVIOUS
<1> USE DEF StreamInv
<1>1. PICK p \in Filled(batch), i \in DOMAIN files :
          /\ Lowest(p) /\ i \in Rest(p) /\ \A j \in Rest(p) : i <= j
          /\ content' = [content EXCEPT ![i] =
                Written(i, p * PieceLength, Data(p),
                        OverlapLen(i, p * PieceLength, PieceLengthAt(p)))]
          /\ \/ Rest(p) = {i} /\ WriteAt /\ at' = 1
             \/ Rest(p) # {i} /\ UNCHANGED vars /\ at' = i + 1
  BY DEF WriteFile
<1>2. /\ UNCHANGED <<files, storage, resumeVars, readerVars>>
      /\ storage = "open" /\ Writing /\ ~err
  BY DEF WriteFile
<1>3. p \in Pieces /\ p \in Nat /\ batch[p] # Absent /\ batch # Empty
  BY <1>1, DiskAssumption DEF Filled, Empty
<1>4. /\ i \in Nat /\ i >= at /\ Overlaps(i, p * PieceLength, PieceLengthAt(p))
      /\ DOMAIN files \subseteq Nat
  BY <1>1, FilePlace DEF Rest
<1>5. OverlapLen(i, p * PieceLength, PieceLengthAt(p)) \in Nat
  BY <1>3, <1>4, PieceInside, OverlapPlace
<1>6. OnlyFills /\ content' \in Seq(Bytes) /\ Len(content') = Len(content) /\ HasPart(i, p)'
  <2> DEFINE len == OverlapLen(i, p * PieceLength, PieceLengthAt(p))
  <2>1. len <= len
    BY <1>5
  <2>2. content' = [content EXCEPT ![i] = Written(i, p * PieceLength, Data(p), len)]
    BY <1>1
  <2>3. files' = files
    BY <1>2
  <2> QED
    BY <1>3, <1>4, <1>5, <2>1, <2>2, <2>3, WrittenInPlace, Zenon
<1>7. Layout'
  BY <1>2, <1>6, LayoutKept
<1>8. \A q \in Pieces : Verifies(q) => Verifies(q)'
  BY <1>2, <1>6, StillVerifies
<1>9. ASSUME NEW m \in DOMAIN files, m <= i \/ Rest(p) = {i} PROVE HasPart(m, p)'
  <2>1. CASE m = i
    BY <1>6, <2>1
  <2>2. CASE m # i /\ m < at
    <3>1. at > 1
      BY <2>2, FilePlace DEF PartWritten
    <3>2. HasPart(m, p)
      BY <1>1, <1>3, <2>2, <3>1 DEF PartWritten
    <3> QED
      BY <1>3, <1>6, <3>2, PartKept
  <2>3. CASE m # i /\ ~(m < at)
    <3>1. m \notin Rest(p)
      BY <1>1, <1>4, <1>9, <2>3
    <3>2. m >= at
      BY <1>4, <2>3 DEF PartWritten
    <3>3. HasPart(m, p)
      BY <1>3, <3>1, <3>2, NoPart DEF Rest
    <3> QED
      BY <1>3, <1>6, <3>3, PartKept
  <2> QED
    BY <2>1, <2>2, <2>3
<1>10. ReaderSound'
  BY <1>2 DEF ReaderSound, readerVars
<1>11. resumed' = resumed
  BY <1>2 DEF resumeVars
<1>12. CASE Rest(p) = {i} /\ WriteAt /\ at' = 1
  <2>1. Verifies(p)'
    <3>1. Len(files') = N
      BY <1>2 DEF Stage
    <3>2. \A m \in DOMAIN files' : HasPart(m, p)'
      BY <1>2, <1>9, <1>12
    <3> QED
      BY <1>3, <1>7, <3>1, <3>2, WholeNext DEF Whole
  <2>2. disk' = [disk EXCEPT ![p] = batch[p]]
    <3>1. PICK q \in Filled(batch) : Lowest(q) /\ disk' = [disk EXCEPT ![q] = batch[q]]
      BY <1>12 DEF WriteAt
    <3>2. p <= q /\ q <= p /\ q \in Nat
      BY <1>1, <3>1, DiskAssumption DEF Lowest, Filled
    <3>3. q = p
      BY <1>3, <3>2
    <3> QED
      BY <3>1, <3>3
  <2>3. \A r \in Pieces : disk'[r] # Absent => r = p \/ disk[r] # Absent
    BY <2>2 DEF TypeOK, Contents
  <2>4. StoredIsFound'
    BY <1>8, <1>11, <2>1, <2>3 DEF StoredIsFound
  <2>5. Stage'
    BY <1>2, <1>11, <1>12 DEF Stage
  <2>6. PartWritten'
    BY <1>12 DEF PartWritten
  <2> QED
    BY <1>7, <1>10, <2>4, <2>5, <2>6
<1>13. CASE Rest(p) # {i} /\ UNCHANGED vars /\ at' = i + 1
  <2>1. UNCHANGED <<disk, loop, batch, err>>
    BY <1>13 DEF vars, flushVars
  <2>2. StoredIsFound'
    BY <1>8, <1>11, <2>1 DEF StoredIsFound
  <2>3. Stage'
    BY <1>2, <1>11 DEF Stage
  <2>4. Midway'
    BY <1>2, <1>3, <2>1 DEF Midway, Writing, Empty
  <2>5. ASSUME NEW q \in Pieces, NEW m \in DOMAIN files', Lowest(q)', m < at'
        PROVE  HasPart(m, q)'
    <3>1. Lowest(q)
      BY <2>1, <2>5 DEF Lowest, Filled
    <3>2. p <= q /\ q <= p /\ q \in Nat
      BY <1>1, <3>1, DiskAssumption DEF Lowest, Filled
    <3>3. q = p
      BY <1>3, <3>2
    <3>4. m \in DOMAIN files /\ m <= i
      BY <1>2, <1>4, <1>13, <2>5
    <3> QED
      BY <1>9, <3>3, <3>4
  <2>6. PartWritten'
    BY <1>4, <1>13, <2>4, <2>5 DEF PartWritten
  <2> QED
    BY <1>7, <1>10, <2>2, <2>3, <2>6
<1> QED
  BY <1>1, <1>12, <1>13

LEMMA WriteFileFailsStep == StreamInv /\ WriteFileFails => StreamInv'
<1> SUFFICES ASSUME StreamInv, WriteFileFails PROVE StreamInv'
  OBVIOUS
<1> USE DEF StreamInv
<1>1. PICK p \in Filled(batch), i \in DOMAIN files :
          /\ Lowest(p) /\ i \in Rest(p) /\ \A j \in Rest(p) : i <= j
          /\ \E len \in 0 .. OverlapLen(i, p * PieceLength, PieceLengthAt(p)) - 1 :
                content' = [content EXCEPT ![i] =
                              Written(i, p * PieceLength, Data(p), len)]
  BY DEF WriteFileFails
<1>2. PICK len \in 0 .. OverlapLen(i, p * PieceLength, PieceLengthAt(p)) - 1 :
          content' = [content EXCEPT ![i] = Written(i, p * PieceLength, Data(p), len)]
  BY <1>1
<1>3. /\ UNCHANGED <<files, storage, resumeVars, readerVars>>
      /\ storage = "open" /\ at' = 1
  BY DEF WriteFileFails
<1>4. disk' = disk /\ resumed' = resumed
  BY <1>3 DEF WriteFileFails, WriteAtFails, resumeVars
<1>5. p \in Pieces /\ Overlaps(i, p * PieceLength, PieceLengthAt(p))
  BY <1>1 DEF Filled, Rest
<1>6. OverlapLen(i, p * PieceLength, PieceLengthAt(p)) \in Nat
  BY <1>5, PieceInside, OverlapPlace
<1>7. len \in Nat /\ len <= OverlapLen(i, p * PieceLength, PieceLengthAt(p))
  BY <1>2, <1>6
<1>8. OnlyFills /\ content' \in Seq(Bytes) /\ Len(content') = Len(content)
  BY <1>2, <1>3, <1>5, <1>7, WrittenInPlace
<1>9. Layout' /\ \A q \in Pieces : Verifies(q) => Verifies(q)'
  BY <1>3, <1>8, LayoutKept, StillVerifies
<1>10. StoredIsFound'
  BY <1>4, <1>9 DEF StoredIsFound
<1>11. Stage'
  BY <1>3, <1>4 DEF Stage
<1>12. PartWritten'
  BY <1>3 DEF PartWritten
<1>13. ReaderSound'
  BY <1>3 DEF ReaderSound, readerVars
<1> QED
  BY <1>9, <1>10, <1>11, <1>12, <1>13

-----------------------------------------------------------------------------
(* The steps of the reader. *)

\* The video file, in numbers.
LEMMA VideoPlace ==
    ASSUME Layout, VideoFile \in DOMAIN files
    PROVE  /\ fileLength \in Nat /\ startOffset = Start[VideoFile] /\ Start[VideoFile] \in Nat
           /\ Start[VideoFile + 1] = Start[VideoFile] + fileLength
           /\ DOMAIN content[VideoFile] = 0 .. fileLength - 1
           /\ \A j \in 0 .. fileLength - 1 :
                 content[VideoFile][j] \in {Hole, Start[VideoFile] + j}
BY FilePlace DEF fileLength, startOffset, Layout

LEMMA ReaderKeeps == StreamInv /\ ReaderStep => StreamInv'
<1> SUFFICES ASSUME StreamInv, ReaderStep PROVE StreamInv'
  OBVIOUS
<1> USE DEF StreamInv
<1>1. UNCHANGED <<vars, storageVars, resumeVars, at>>
  BY DEF ReaderStep, OpenReader, SeekTo, Read, ReadFile, TimesOut, CloseReader
<1>2. Elsewhere
  BY <1>1 DEF Elsewhere, vars, flushVars, storageVars, resumeVars
<1>3. Layout' /\ Stage' /\ StoredIsFound' /\ PartWritten'
  BY <1>2, ElsewhereKeeps
<1>4. files' = files
  BY <1>1 DEF storageVars
<1>5. ASSUME OpenReader PROVE ReaderSound'
  <2>1. /\ UNCHANGED <<offset, limit, got>> /\ reader = "none" /\ reader' = "idle"
        /\ VideoFile \in DOMAIN files
    BY <1>5 DEF OpenReader
  <2> QED
    BY <1>4, <2>1 DEF ReaderSound
<1>6. ASSUME SeekTo PROVE ReaderSound'
  <2>1. VideoFile \in DOMAIN files /\ fileLength \in Nat
    BY <1>6, VideoPlace DEF SeekTo, ReaderSound
  <2>2. offset' \in 0 .. fileLength /\ limit' = 0 /\ got' = <<>> /\ reader' = "idle"
    BY <1>6 DEF SeekTo
  <2> QED
    BY <1>4, <2>1, <2>2 DEF ReaderSound
<1>7. ASSUME Read PROVE ReaderSound'
  <2>1. VideoFile \in DOMAIN files /\ fileLength \in Nat /\ offset \in Nat
    BY <1>7, VideoPlace DEF Read, ReaderSound
  <2>2. PICK n \in 1 .. MaxRead : limit' = MinVal(n, fileLength - offset)
    BY <1>7 DEF Read
  <2>3. limit' \in Nat /\ offset + limit' <= fileLength
    BY <1>7, <2>1, <2>2, StreamingAssumption DEF Read, MinVal
  <2>4. offset' = offset /\ got' = <<>> /\ reader' = "wait"
    BY <1>7 DEF Read
  <2> QED
    <3>1. offset' \in Nat /\ offset' + limit' <= fileLength'
      BY <2>1, <2>3, <2>4 DEF fileLength
    <3>2. VideoFile \in DOMAIN files' /\ limit' \in Nat /\ reader' # "idle" /\ DOMAIN got' = {}
      BY <1>4, <2>1, <2>3, <2>4
    <3> QED
      BY <2>4, <3>1, <3>2 DEF ReaderSound
<1>8. ASSUME ReadFile PROVE ReaderSound'
  <2>1. VideoFile \in DOMAIN files /\ offset \in Nat /\ limit \in Nat
        /\ offset + limit <= fileLength
    BY <1>8 DEF ReadFile, ReaderSound
  <2>2. /\ fileLength \in Nat /\ Start[VideoFile] \in Nat
        /\ \A j \in 0 .. fileLength - 1 :
              content[VideoFile][j] \in {Hole, Start[VideoFile] + j}
    BY <2>1, VideoPlace
  <2>3. ASSUME NEW k \in 1 .. limit
        PROVE  got'[k] \in {Hole, Start[VideoFile] + (offset' - limit') + (k - 1)}
    <3>1. offset + (k - 1) \in 0 .. fileLength - 1
      BY <2>1, <2>2
    <3>2. got'[k] \in {Hole, Start[VideoFile] + (offset + (k - 1))}
      BY <1>8, <2>2, <3>1 DEF ReadFile
    <3>3. offset' = offset + limit /\ limit' = limit
      BY <1>8 DEF ReadFile
    <3>4. Start[VideoFile] + (offset + (k - 1))
             = Start[VideoFile] + (offset' - limit') + (k - 1)
      BY <2>1, <2>2, <3>3
    <3> QED
      BY <3>2, <3>4
  <2>4. DOMAIN got' = 1 .. limit /\ reader' = "idle" /\ offset' \in Nat /\ limit' \in Nat
    BY <1>8, <2>1 DEF ReadFile
  <2> QED
    BY <1>3, <1>4, <2>1, <2>3, <2>4 DEF ReaderSound
<1>9. ASSUME TimesOut \/ CloseReader PROVE ReaderSound'
  BY <1>4, <1>9 DEF ReaderSound, TimesOut, CloseReader
<1>10. ReaderSound'
  BY <1>5, <1>6, <1>7, <1>8, <1>9 DEF ReaderStep
<1> QED
  BY <1>3, <1>10

-----------------------------------------------------------------------------
(* The writer and its callers behave as in DiskWriter, so what is proved of *)
(* them holds here.                                                         *)

LEMMA WriterStep == [NextStreaming]_streamVars => [Next]_vars
<1> SUFFICES ASSUME [NextStreaming]_streamVars PROVE [Next]_vars
  OBVIOUS
<1>1. CASE UNCHANGED streamVars \/ StorageStep \/ ReaderStep
  BY <1>1 DEF streamVars, StorageStep, Open, LoadExistingState, CloseFiles, ReaderStep,
              OpenReader, SeekTo, Read, ReadFile, TimesOut, CloseReader
<1>2. CASE LoopStep
  BY <1>2 DEF LoopStep, WriteFile, WriteFileFails, LoopElse, Apart, Next, WriterLoop, Flush
<1>3. CASE \E c \in Callers : Apart(CheckError(c)) \/ CallStep(c)
  BY <1>3 DEF Apart, CallStep, Next
<1>4. CASE \E k \in Closers : CloseStep(k)
  BY <1>4 DEF Apart, CloseStep, Next
<1> QED
  BY <1>1, <1>2, <1>3, <1>4 DEF NextStreaming

(***************************************************************************)
(* Written file by file, with files that open and close around it and a    *)
(* player that reads them, the writer is still the one of DiskWriter: all  *)
(* its theorems hold of the composition.                                   *)
(***************************************************************************)
THEOREM StreamingIsAWriter == SpecStreaming => Spec
<1>1. InitStreaming => Init
  BY DEF InitStreaming
<1> QED
  BY <1>1, WriterStep, PTL DEF SpecStreaming, Spec

LEMMA StreamStep == TypeOK /\ StreamInv /\ [NextStreaming]_streamVars => StreamInv'
<1> SUFFICES ASSUME TypeOK, StreamInv, [NextStreaming]_streamVars PROVE StreamInv'
  OBVIOUS
<1>1. CASE UNCHANGED streamVars
  <2>1. Elsewhere /\ UNCHANGED <<files, readerVars>>
    BY <1>1 DEF Elsewhere, streamVars, vars, flushVars, storageVars, resumeVars
  <2>2. ReaderSound'
    BY <2>1 DEF StreamInv, ReaderSound, readerVars
  <2> QED
    BY <2>1, <2>2, ElsewhereKeeps DEF StreamInv
<1>2. CASE StorageStep
  BY <1>2, OpenStep, LoadStep, ApartStep DEF StorageStep
<1>3. CASE LoopStep
  BY <1>3, WriteFileStep, WriteFileFailsStep, ApartStep DEF LoopStep
<1>4. CASE ReaderStep
  BY <1>4, ReaderKeeps
<1>5. CASE \/ \E c \in Callers : Apart(CheckError(c)) \/ CallStep(c)
           \/ \E k \in Closers : CloseStep(k)
  BY <1>5, ApartStep
<1> QED
  BY <1>1, <1>2, <1>3, <1>4, <1>5 DEF NextStreaming

LEMMA StreamInductive == SpecStreaming => [](TypeOK /\ NothingLost /\ StreamInv)
<1>1. SpecStreaming => []TypeOK /\ []NothingLost
  BY StreamingIsAWriter, WriterTypes, AcceptedIsKept, PTL
<1> QED
  BY <1>1, StreamInit, StreamStep, PTL DEF SpecStreaming

(***************************************************************************)
(* What is on disk, and what an earlier session left there, is read back   *)
(* and verifies, over any number of files of any length, whatever writes   *)
(* fail half-way.                                                          *)
(***************************************************************************)
THEOREM StoredPiecesAreFound == SpecStreaming => []StoredIsFound
<1>1. StreamInv => StoredIsFound
  BY DEF StreamInv
<1> QED
  BY <1>1, StreamInductive, PTL

(***************************************************************************)
(* No byte is ever misplaced, neither in the files nor in what the player  *)
(* reads.                                                                  *)
(***************************************************************************)
THEOREM NoByteIsMisplaced == SpecStreaming => []BytesInPlace
<1>1. StreamInv => BytesInPlace
  <2> SUFFICES ASSUME Layout, ReaderSound PROVE BytesInPlace
    BY DEF StreamInv
  <2>1. ASSUME NEW i \in DOMAIN files
        PROVE  /\ files[i].startOffset = IF i = 1 THEN 0 ELSE files[i - 1].endOffset
               /\ files[i].endOffset = files[i].startOffset + FileLength[i]
               /\ \A j \in DOMAIN content[i] :
                     content[i][j] \in {Hole, files[i].startOffset + j}
    <3>1. /\ i \in 1 .. N /\ files[i].startOffset = Start[i] /\ files[i].endOffset = Start[i + 1]
          /\ Start[i + 1] = Start[i] + FileLength[i]
      BY FilePlace
    <3>2. CASE i = 1
      BY <3>1, <3>2, StartFacts DEF IsStart, Layout
    <3>3. CASE i # 1
      <4>1. i - 1 \in DOMAIN files /\ (i - 1) + 1 = i
        BY <3>1, <3>3 DEF Layout
      <4>2. files[i - 1].endOffset = Start[i]
        BY <4>1 DEF Layout
      <4> QED
        BY <3>1, <3>3, <4>2 DEF Layout
    <3> QED
      BY <3>2, <3>3
  <2>2. ASSUME NEW k \in DOMAIN got
        PROVE  got[k] \in {Hole, startOffset + (offset - limit) + (k - 1)}
    <3>1. VideoFile \in DOMAIN files
      BY DEF ReaderSound
    <3> QED
      BY <3>1, VideoPlace DEF ReaderSound
  <2> QED
    BY <2>1, <2>2 DEF BytesInPlace
<1> QED
  BY <1>1, StreamInductive, PTL

-----------------------------------------------------------------------------
(* Holes in what the player reads. *)

\* A file starts where the one before it ends, or later.
LEMMA StartsOrdered ==
    ASSUME NEW i \in 1 .. N, NEW m \in 1 .. N, i < m
    PROVE  Start[i + 1] <= Start[m]
<1>1. /\ N \in Nat \ {0} /\ Start \in [1 .. N + 1 -> 0 .. Length]
      /\ FileLength \in [1 .. N -> Nat]
      /\ \A j \in 1 .. N : Start[j + 1] = Start[j] + FileLength[j]
  BY StartFacts DEF IsStart
<1> DEFINE T == {j \in 1 .. N : i < j /\ ~(Start[i + 1] <= Start[j])}
<1> SUFFICES ASSUME T # {} PROVE FALSE
  OBVIOUS
<1>2. PICK j \in T : \A l \in T : j <= l
  <2>1. T \in SUBSET Nat
    BY <1>1
  <2> QED
    BY <2>1, LeastNat
<1>3. j \in 1 .. N /\ i < j /\ ~(Start[i + 1] <= Start[j])
  BY <1>2
<1>4. Start[i + 1] \in Nat /\ Start[j] \in Nat
  <2>1. i + 1 \in 1 .. N + 1 /\ j \in 1 .. N + 1
    BY <1>1, <1>3
  <2>2. Start[i + 1] \in 0 .. Length /\ Start[j] \in 0 .. Length
    BY <1>1, <2>1
  <2> QED
    BY <2>2, StorageAssumption
<1>5. j # i + 1
  BY <1>3, <1>4
<1>6. j - 1 \in 1 .. N /\ i < j - 1 /\ (j - 1) + 1 = j /\ j - 1 \notin T
  BY <1>1, <1>2, <1>3, <1>5
<1>7. Start[i + 1] <= Start[j - 1]
  BY <1>6
<1>8. Start[j] = Start[j - 1] + FileLength[j - 1] /\ FileLength[j - 1] \in Nat
      /\ Start[j - 1] \in Nat
  <2>1. j - 1 \in 1 .. N + 1
    BY <1>1, <1>6
  <2>2. Start[j - 1] \in 0 .. Length
    BY <1>1, <2>1
  <2> QED
    BY <1>1, <1>6, <2>2, StorageAssumption
<1> QED
  BY <1>3, <1>4, <1>7, <1>8

\* Every file has its part of a piece that verifies.
LEMMA PartOfVerified ==
    ASSUME Layout, NEW p \in Pieces, Verifies(p), NEW i \in DOMAIN files
    PROVE  HasPart(i, p)
<1> DEFINE off == p * PieceLength
           n == PieceLengthAt(p)
<1> SUFFICES ASSUME NEW b \in Nat, off <= b, b < off + n, Start[i] <= b, b < Start[i + 1]
             PROVE  content[i][b - Start[i]] = b
  BY DEF HasPart
<1>1. off \in Nat /\ n \in Nat
  BY PieceInside
<1>2. PICK k \in 0 .. n - 1 : off + k = b
  <2> HIDE DEF off, n
  <2>1. b - off \in 0 .. n - 1 /\ off + (b - off) = b
    BY <1>1
  <2> QED
    BY <2>1
<1>3. Reads(i, off, n, k)
  <2> HIDE DEF off, n
  <2> QED
    BY <1>1, <1>2, CanRead
<1>4. PICK m \in DOMAIN files : /\ m = CHOOSE j \in DOMAIN files : Reads(j, off, n, k)
                               /\ Reads(m, off, n, k)
  BY <1>3
<1>5. ReadAt(off, n)[k] = content[m][Place(m, off, k)]
  BY <1>3, <1>4 DEF ReadAt, Place
<1>6. ReadAt(off, n)[k] = b
  BY <1>2 DEF Verifies, Data
<1>7. Place(m, off, k) = b - Start[m] /\ Start[m] <= b /\ b < Start[m + 1]
  <2>1. /\ Place(m, off, k) = (off + k) - Start[m]
        /\ Start[m] <= off + k /\ off + k < Start[m + 1]
    BY <1>1, <1>4, ReadsPlace
  <2> HIDE DEF off, n
  <2> QED
    BY <1>2, <2>1
<1>8. /\ i \in 1 .. N /\ m \in 1 .. N
      /\ Start[i] \in Nat /\ Start[i + 1] \in Nat /\ Start[m] \in Nat /\ Start[m + 1] \in Nat
  BY FilePlace
<1>9. m = i
  <2>1. CASE m < i
    <3>1. Start[m + 1] <= Start[i]
      BY <1>8, <2>1, StartsOrdered
    <3> QED
      BY <1>7, <1>8, <3>1
  <2>2. CASE i < m
    <3>1. Start[i + 1] <= Start[m]
      BY <1>8, <2>2, StartsOrdered
    <3> QED
      BY <1>7, <1>8, <3>1
  <2> QED
    BY <1>8, <2>1, <2>2
<1> QED
  BY <1>5, <1>6, <1>7, <1>9

\* The piece of a byte.
LEMMA PieceOfByte ==
    ASSUME NEW b \in Nat, b < Length, NEW p \in Pieces, b \div PieceLength = p
    PROVE  p * PieceLength <= b /\ b < p * PieceLength + PieceLengthAt(p)
<1> DEFINE c == Length \div PieceLength
           r == Length % PieceLength
<1>1. PieceLength \in Nat \ {0} /\ Length \in Nat \ {0} /\ p \in Nat
  BY StorageAssumption, DiskAssumption
<1>2. c \in Nat /\ r \in Nat /\ r < PieceLength /\ Length = PieceLength * c + r
  BY <1>1
<1>3. PieceCount = c + (IF r > 0 THEN 1 ELSE 0)
  BY DEF PieceCount
<1>4. PICK d \in 0 .. PieceLength - 1 : b = PieceLength * p + d
  <2>1. b % PieceLength \in 0 .. PieceLength - 1
    BY <1>1
  <2>2. b = PieceLength * (b \div PieceLength) + (b % PieceLength)
    BY <1>1
  <2> QED
    BY <2>1, <2>2
<1>5. p * PieceLength \in Nat /\ p * PieceLength = PieceLength * p
  BY <1>1
<1>6. CASE r > 0 /\ p = PieceCount - 1
  <2>1. p = c /\ PieceLengthAt(p) = r
    BY <1>2, <1>3, <1>6 DEF PieceLengthAt
  <2>2. Length = PieceLength * p + r
    BY <1>2, <2>1
  <2> QED
    BY <1>1, <1>2, <1>4, <1>5, <2>1, <2>2
<1>7. CASE ~(r > 0 /\ p = PieceCount - 1)
  <2>1. PieceLengthAt(p) = PieceLength
    BY <1>7 DEF PieceLengthAt
  <2> QED
    BY <1>1, <1>4, <1>5, <2>1
<1> QED
  BY <1>6, <1>7

\* A complete piece that is not on its way is on disk, or was there.
LEMMA CompleteIsStored ==
    ASSUME TypeOK, NothingLost, StreamInv, NEW p \in Completed, ~err, ~OnTheWay(p)
    PROVE  p \in Pieces /\ Verifies(p)
<1>1. p \in Pieces /\ (p \in resumed \/ latest[p] # Absent)
  BY DEF Completed, Filled, StreamInv, Stage
<1>2. CASE latest[p] # Absent
  <2>1. p \in Received
    BY <1>1 DEF OnTheWay, Received
  <2>2. Holds(p, latest[p])
    BY <2>1 DEF NothingLost
  <2>3. disk[p] = latest[p]
    BY <2>2 DEF OnTheWay, Holds
  <2> QED
    BY <1>1, <1>2, <2>3 DEF StreamInv, StoredIsFound
<1> QED
  BY <1>1, <1>2 DEF StreamInv, StoredIsFound

(***************************************************************************)
(* A hole the player reads in the piece it waited for is still on its way  *)
(* to the file, unless a write failed.                                     *)
(***************************************************************************)
THEOREM HolesWillBeFilled == SpecStreaming => HolesAreOnTheWay
<1> DEFINE Excused ==
        \A k \in 1 .. limit :
           /\ got'[k] = Hole
           /\ (startOffset + offset + (k - 1)) \div PieceLength = startPiece
           => err \/ OnTheWay(startPiece)
<1>1. ASSUME TypeOK, NothingLost, StreamInv, ReadFile PROVE Excused
  <2> SUFFICES ASSUME NEW k \in 1 .. limit, ~err, ~OnTheWay(startPiece),
                      (startOffset + offset + (k - 1)) \div PieceLength = startPiece
               PROVE  got'[k] # Hole
    OBVIOUS
  <2>1. startPiece \in Completed
    BY <1>1 DEF ReadFile
  <2>2. startPiece \in Pieces /\ Verifies(startPiece)
    BY <1>1, <2>1, CompleteIsStored
  <2>3. /\ VideoFile \in DOMAIN files /\ offset \in Nat /\ limit \in Nat
        /\ offset + limit <= fileLength
    BY <1>1 DEF ReadFile, StreamInv, ReaderSound
  <2>4. /\ fileLength \in Nat /\ startOffset = Start[VideoFile] /\ Start[VideoFile] \in Nat
        /\ Start[VideoFile + 1] = Start[VideoFile] + fileLength
    BY <1>1, <2>3, VideoPlace DEF StreamInv
  <2> DEFINE j == offset + (k - 1)
             b == Start[VideoFile] + j
  <2>5. j \in 0 .. fileLength - 1 /\ b \in Nat /\ b - Start[VideoFile] = j
        /\ Start[VideoFile] <= b /\ b < Start[VideoFile + 1]
        /\ startOffset + offset + (k - 1) = b
    BY <2>3, <2>4
  <2>6. b < Length
    <3>1. VideoFile \in 1 .. N /\ VideoFile + 1 \in 1 .. N + 1
      BY <1>1, <2>3, FilePlace, StartFacts DEF StreamInv
    <3>2. Start[VideoFile + 1] \in 0 .. Length
      BY <3>1, StartFacts DEF IsStart
    <3> QED
      BY <2>5, <3>2, StorageAssumption
  <2>7. HasPart(VideoFile, startPiece)
    BY <1>1, <2>2, <2>3, PartOfVerified DEF StreamInv
  <2> HIDE DEF b
  <2>8. /\ startPiece * PieceLength <= b
        /\ b < startPiece * PieceLength + PieceLengthAt(startPiece)
    BY <2>2, <2>5, <2>6, PieceOfByte
  <2>9. content[VideoFile][j] = b
    BY <2>5, <2>7, <2>8 DEF HasPart
  <2>10. got'[k] = content[VideoFile][j]
    BY <1>1 DEF ReadFile
  <2> QED
    BY <2>5, <2>9, <2>10, StorageAssumption
<1> HIDE DEF Excused
<1>2. TypeOK /\ NothingLost /\ StreamInv => [ReadFile => Excused]_streamVars
  BY <1>1
<1> QED
  BY <1>2, StreamInductive, PTL DEF HolesAreOnTheWay, Excused

=============================================================================
