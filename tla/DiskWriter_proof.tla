-------------------------- MODULE DiskWriter_proof --------------------------
(***************************************************************************)
(* Proofs about DiskWriter, for any pieces, callers, queue and cache size. *)
(***************************************************************************)
EXTENDS DiskWriter, TLAPS, FiniteSetTheorems, WellFoundedInduction

-----------------------------------------------------------------------------
(* Types, and the protocol of closeMu. *)

\* The type of everything but the two Boolean flags.
DataTypes ==
    /\ writeChan \in Seq(Requests)
    /\ cache \in Contents /\ disk \in Contents /\ latest \in Contents
    /\ caller \in [Callers -> CallerStates]
    /\ request \in [Callers -> Requests]
    /\ writes \in [Callers -> Nat]
    /\ closeMu \in Callers \cup {None}
    /\ \A c \in Callers : caller[c] = "send" <=> closeMu = c
    /\ loop \in LoopStates
    /\ batch \in Contents
    /\ closer \in [Closers -> CloserStates]

\* The empty cache is a cache without pieces.
LEMMA EmptyType == Empty \in Contents /\ Filled(Empty) = {}
  BY DiskAssumption DEF Empty, Contents, Filled

\* The initial state is well typed.
LEMMA TypeInit == Init => TypeOK
<1> SUFFICES ASSUME Init PROVE TypeOK
  OBVIOUS
<1>1. Requests # {} /\ (CHOOSE r \in Requests : TRUE) \in Requests
  <2>1. PICK p \in Pieces : TRUE
    BY DiskAssumption
  <2>2. PICK v \in Versions : TRUE
    BY DiskAssumption
  <2>3. [piece |-> p, data |-> v] \in Requests
    BY DEF Requests
  <2> QED
    BY <2>3
<1>2. loop \in LoopStates
  BY DEF Init, LoopStates
<1>3. err \in BOOLEAN /\ closed \in BOOLEAN
  BY DEF Init
<1>4. \A c \in Callers : caller[c] = "send" <=> closeMu = c
  BY DiskAssumption DEF Init
<1> QED
  BY <1>1, <1>2, <1>3, <1>4, EmptyType DEF Init, TypeOK, CallerStates, CloserStates

\* The flags stay Boolean and are never reset: err is sticky, closed final.
LEMMA FlagsStep == err \in BOOLEAN /\ closed \in BOOLEAN /\ [Next]_vars
                     => err' \in BOOLEAN /\ closed' \in BOOLEAN
<1> SUFFICES ASSUME err \in BOOLEAN, closed \in BOOLEAN, [Next]_vars
             PROVE  err' \in BOOLEAN /\ closed' \in BOOLEAN
  OBVIOUS
<1>1. ASSUME NEW c \in Callers, CheckError(c) \/ Call(c)
      PROVE  err' = err /\ closed' = closed
  BY <1>1 DEF CheckError, Call, LockForSend, Send
<1>2. Receive \/ CheckSize \/ Tick \/ Drained => err' = err /\ closed' = closed
  BY DEF Receive, CheckSize, Tick, Drained
<1>3. ASSUME Flush
      PROVE  err' \in {TRUE, err} /\ closed' = closed
  BY <1>3 DEF Flush, TakeCache, WriteAt, WriteAtFails, FlushReturns
<1>4. ASSUME NEW k \in Closers, Close(k) PROVE err' = err /\ closed' \in {TRUE, closed}
  BY <1>4 DEF Close, CloseChannel, CloseReturns
<1>5. UNCHANGED vars => err' = err /\ closed' = closed
  BY DEF vars
<1> QED
  BY <1>1, <1>2, <1>3, <1>4, <1>5 DEF Next, WriterLoop

\* The queue, the cache, the batches and the disk keep their types.
LEMMA DataStep == DataTypes /\ [Next]_vars => DataTypes'
<1> SUFFICES ASSUME DataTypes, [Next]_vars PROVE DataTypes'
  OBVIOUS
<1> USE DiskAssumption, EmptyType DEF DataTypes, callVars, flushVars
<1>1. ASSUME NEW c \in Callers, CheckError(c) PROVE DataTypes'
  <2>1. PICK r \in Requests : request' = [request EXCEPT ![c] = r]
    BY <1>1 DEF CheckError
  <2>2. request' \in [Callers -> Requests]
    BY <2>1
  <2>3. writes' \in [Callers -> Nat]
    BY <1>1 DEF CheckError
  <2>4. caller' \in [Callers -> CallerStates]
        /\ \A d \in Callers : caller'[d] = "send" <=> closeMu' = d
    BY <1>1 DEF CheckError, CallerStates
  <2> QED
    BY <1>1, <2>2, <2>3, <2>4 DEF CheckError
<1>2. ASSUME NEW c \in Callers, LockForSend(c) PROVE DataTypes'
  <2>1. caller' \in [Callers -> CallerStates] /\ closeMu' \in Callers \cup {None}
    BY <1>2 DEF LockForSend, CallerStates
  <2>2. CASE caller' = [caller EXCEPT ![c] = "idle"] /\ UNCHANGED closeMu
    BY <1>2, <2>1, <2>2 DEF LockForSend
  <2>3. CASE caller' = [caller EXCEPT ![c] = "send"] /\ closeMu' = c
    BY <1>2, <2>1, <2>3 DEF LockForSend
  <2> QED
    BY <1>2, <2>2, <2>3 DEF LockForSend
<1>3. ASSUME NEW c \in Callers, Send(c) PROVE DataTypes'
  <2>1. request[c] \in Requests
    OBVIOUS
  <2>2. writeChan' \in Seq(Requests)
    BY <1>3, <2>1 DEF Send
  <2>3. latest' \in Contents
    BY <1>3, <2>1 DEF Send, Requests, Contents
  <2>4. /\ caller' \in [Callers -> CallerStates]
        /\ closeMu' \in Callers \cup {None}
        /\ \A d \in Callers : caller'[d] = "send" <=> closeMu' = d
    BY <1>3 DEF Send, CallerStates
  <2> QED
    BY <1>3, <2>2, <2>3, <2>4 DEF Send
<1>4. CASE Receive
  <2>1. Head(writeChan) \in Requests /\ Tail(writeChan) \in Seq(Requests)
    BY <1>4 DEF Receive
  <2>2. cache' \in Contents
    BY <1>4, <2>1 DEF Receive, Requests, Contents
  <2>3. loop' \in LoopStates
    BY <1>4 DEF Receive, LoopStates
  <2> QED
    BY <1>4, <2>1, <2>2, <2>3 DEF Receive
<1>5. CASE CheckSize
  BY <1>5 DEF CheckSize, LoopStates
<1>6. CASE Tick \/ Drained
  BY <1>6 DEF Tick, Drained, LoopStates
<1>8. CASE TakeCache
  <2>1. loop' \in LoopStates
    BY <1>8 DEF TakeCache, Returned, LoopStates
  <2> QED
    BY <1>8, <2>1 DEF TakeCache
<1>9. CASE WriteAt
  <2>1. PICK p \in Pieces : /\ disk' = [disk EXCEPT ![p] = batch[p]]
                            /\ batch' = [batch EXCEPT ![p] = Absent]
    BY <1>9 DEF WriteAt, Filled
  <2>2. batch[p] \in Versions \cup {Absent}
    BY DEF Contents
  <2>3. disk' \in Contents /\ batch' \in Contents
    BY <2>1, <2>2 DEF Contents
  <2> QED
    BY <1>9, <2>3 DEF WriteAt
<1>10. CASE WriteAtFails \/ FlushReturns
  <2>1. loop' \in LoopStates
    BY <1>10 DEF WriteAtFails, FlushReturns, Returned, LoopStates
  <2> QED
    BY <1>10, <2>1 DEF WriteAtFails, FlushReturns
<1>11. ASSUME NEW k \in Closers, Close(k) PROVE DataTypes'
  <2>1. closer' \in [Closers -> CloserStates]
    BY <1>11 DEF Close, CloseChannel, CloseReturns, CloserStates
  <2> QED
    BY <1>11, <2>1 DEF Close, CloseChannel, CloseReturns
<1>12. CASE UNCHANGED vars
  BY <1>12 DEF vars
<1> QED
  BY <1>1, <1>2, <1>3, <1>4, <1>5, <1>6, <1>8, <1>9, <1>10, <1>11, <1>12
     DEF Next, WriterLoop, Flush, Call

\* Every step keeps the types.
LEMMA TypeStep == TypeOK /\ [Next]_vars => TypeOK'
<1>1. TypeOK <=> err \in BOOLEAN /\ closed \in BOOLEAN /\ DataTypes
  BY DEF TypeOK, DataTypes
<1>2. TypeOK' <=> err' \in BOOLEAN /\ closed' \in BOOLEAN /\ DataTypes'
  BY DEF TypeOK, DataTypes
<1> QED
  BY <1>1, <1>2, FlagsStep, DataStep
-----------------------------------------------------------------------------
(* Closing. *)

\* The states of the loop from which it does not receive any more.
Ending == {"last", "lastwrite", "done"}

\* Once the channel is closed nobody is about to send, and the loop only ends
\* with it drained; the cache is taken for the last write before it is done.
Protocol ==
    /\ closed => \A c \in Callers : caller[c] # "send"
    /\ loop \in Ending => closed /\ writeChan = <<>>
    /\ loop \in {"lastwrite", "done"} => cache = Empty

\* Every step keeps the protocol of closeMu, the channel and the loop.
LEMMA ProtocolStep == TypeOK /\ Protocol /\ [Next]_vars => Protocol'
<1> SUFFICES ASSUME TypeOK, Protocol, [Next]_vars PROVE Protocol'
  OBVIOUS
<1> USE DiskAssumption DEF Protocol, Ending, callVars, flushVars
<1>1. /\ caller \in [Callers -> CallerStates] /\ loop \in LoopStates
      /\ \A c \in Callers : caller[c] = "send" <=> closeMu = c
      /\ closeMu \in Callers \cup {None}
  BY DEF TypeOK
<1>2. ASSUME NEW c \in Callers, CheckError(c) PROVE Protocol'
  BY <1>1, <1>2 DEF CheckError
<1>3. ASSUME NEW c \in Callers, LockForSend(c) PROVE Protocol'
  BY <1>1, <1>3 DEF LockForSend
<1>4. ASSUME NEW c \in Callers, Send(c) PROVE Protocol'
  BY <1>1, <1>4 DEF Send
<1>5. CASE Receive \/ CheckSize \/ Tick \/ Drained
  BY <1>1, <1>5 DEF Receive, CheckSize, Tick, Drained
<1>6. CASE TakeCache
  BY <1>1, <1>6 DEF TakeCache, Returned
<1>7. CASE WriteAt \/ WriteAtFails
  BY <1>1, <1>7 DEF WriteAt, WriteAtFails
<1>8. CASE FlushReturns
  BY <1>1, <1>8 DEF FlushReturns, Writing, Returned
<1>10. ASSUME NEW k \in Closers, Close(k) PROVE Protocol'
  BY <1>1, <1>10 DEF Close, CloseChannel, CloseReturns
<1>11. CASE UNCHANGED vars
  BY <1>11 DEF vars
<1> QED
  BY <1>2, <1>3, <1>4, <1>5, <1>6, <1>7, <1>8, <1>10, <1>11
     DEF Next, WriterLoop, Flush, Call

-----------------------------------------------------------------------------
(* Memory. *)

\* The cache reaches its threshold only between an insertion and the flush.
Small ==
    /\ Bounded
    /\ loop \notin {"size", "flush"} => Cardinality(Filled(cache)) < maxCacheSize

\* The cache is a finite map, and an insertion adds at most one entry to it.
LEMMA FilledIsFinite ==
    ASSUME NEW m \in Contents
    PROVE  IsFiniteSet(Filled(m)) /\ Cardinality(Filled(m)) \in Nat
  BY DiskAssumption, FS_Subset, FS_CardinalityType DEF Filled

\* The queue and the cache stay within their limits in every step.
LEMMA SmallStep == TypeOK /\ Protocol /\ Small /\ [Next]_vars => Small'
<1> SUFFICES ASSUME TypeOK, Protocol, Small, [Next]_vars PROVE Small'
  OBVIOUS
<1> USE DiskAssumption DEF Small, Bounded, callVars, flushVars
<1>1. /\ cache \in Contents /\ writeChan \in Seq(Requests)
      /\ loop \in LoopStates
  BY DEF TypeOK
<1>2. Cardinality(Filled(cache)) \in Nat /\ Cardinality(Filled(Empty)) = 0
  BY <1>1, FilledIsFinite, EmptyType, FS_EmptySet
<1>3. ASSUME NEW c \in Callers, CheckError(c) \/ LockForSend(c) PROVE Small'
  BY <1>3 DEF CheckError, LockForSend
<1>4. ASSUME NEW c \in Callers, Send(c) PROVE Small'
  <2>1. Len(writeChan') = Len(writeChan) + 1
    BY <1>1, <1>4 DEF Send
  <2> QED
    BY <1>1, <1>4, <2>1 DEF Send
<1>5. CASE Receive
  <2> DEFINE r == Head(writeChan)
  <2>1. r \in Requests /\ Len(Tail(writeChan)) = Len(writeChan) - 1 /\ Len(writeChan) \in Nat
    BY <1>1, <1>5 DEF Receive
  <2>2. Filled(cache') = Filled(cache) \cup {r.piece}
    BY <1>1, <1>5, <2>1 DEF Receive, Filled, Contents, Requests
  <2>3. /\ IsFiniteSet(Filled(cache) \cup {r.piece})
        /\ \/ Cardinality(Filled(cache) \cup {r.piece}) = Cardinality(Filled(cache))
           \/ Cardinality(Filled(cache) \cup {r.piece}) = Cardinality(Filled(cache)) + 1
    <3>1. IsFiniteSet(Filled(cache))
      BY <1>1, FilledIsFinite
    <3> HIDE DEF r
    <3> QED
      BY <3>1, FS_AddElement
  <2>4. Cardinality(Filled(cache)) < maxCacheSize
    BY <1>5 DEF Receive
  <2>5. loop' = "size" /\ writeChan' = Tail(writeChan)
    BY <1>1, <1>5 DEF Receive
  <2> QED
    BY <1>2, <2>1, <2>2, <2>3, <2>4, <2>5
<1>6. CASE CheckSize
  <2>1. UNCHANGED <<cache, writeChan>> /\ Filled(cache') = Filled(cache)
    BY <1>6 DEF CheckSize
  <2>2. \/ loop' = "flush"
        \/ ~(Cardinality(Filled(cache)) >= maxCacheSize)
    BY <1>1, <1>6 DEF CheckSize
  <2> QED
    BY <1>2, <2>1, <2>2
<1>7. CASE Tick \/ Drained
  BY <1>1, <1>7 DEF Tick, Drained
<1>8. CASE TakeCache
  <2>1. cache' = Empty /\ UNCHANGED writeChan
    BY <1>8 DEF TakeCache
  <2> QED
    BY <1>2, <2>1
<1>9. CASE WriteAt \/ WriteAtFails
  BY <1>9 DEF WriteAt, WriteAtFails
<1>10. CASE FlushReturns
  <2>1. loop \in {"size", "flush"} => loop' = loop
    BY <1>1, <1>10 DEF FlushReturns, Writing
  <2> QED
    BY <1>10, <2>1 DEF FlushReturns
<1>12. ASSUME NEW k \in Closers, Close(k) PROVE Small'
  BY <1>12 DEF Close, CloseChannel, CloseReturns
<1>13. CASE UNCHANGED vars
  BY <1>13 DEF vars
<1> QED
  BY <1>3, <1>4, <1>5, <1>6, <1>7, <1>8, <1>9, <1>10, <1>12, <1>13
     DEF Next, WriterLoop, Flush, Call
-----------------------------------------------------------------------------
(* The data. *)

\* The batch is written before the loop looks at the cache again, and only
\* pieces that were accepted are anywhere.
Settled ==
    /\ ~Writing => batch = Empty
    /\ \A i \in DOMAIN writeChan : latest[writeChan[i].piece] # Absent
    /\ \A p \in Pieces :
          cache[p] # Absent \/ batch[p] # Absent => latest[p] # Absent

\* A request names a piece and one of its versions.
LEMMA RequestFields == \A r \in Requests : r.piece \in Pieces /\ r.data \in Versions
  BY DEF Requests

\* An accepted write is the newest of its piece.
LEMMA SendKeeps ==
    ASSUME TypeOK, Settled, NothingLost, NEW c \in Callers, Send(c)
    PROVE  Settled' /\ NothingLost'
<1> USE DEF Settled, NothingLost, callVars, flushVars
<1> DEFINE r == request[c]
           n == Len(writeChan)
<1>1. /\ r \in Requests /\ r.piece \in Pieces /\ r.data \in Versions
      /\ writeChan \in Seq(Requests) /\ n \in Nat /\ latest \in Contents
  BY DEF TypeOK, Requests
<1>2. /\ writeChan' = Append(writeChan, r)
      /\ latest' = [latest EXCEPT ![r.piece] = r.data]
      /\ UNCHANGED <<err, cache, batch, disk, loop>>
  BY DEF Send
<1>3. /\ DOMAIN writeChan' = 1 .. n + 1 /\ DOMAIN writeChan = 1 .. n
      /\ \A i \in 1 .. n : writeChan'[i] = writeChan[i]
      /\ writeChan'[n + 1] = r
  BY <1>1, <1>2
<1>4. /\ latest'[r.piece] = r.data /\ r.data # Absent
      /\ \A p \in Pieces \ {r.piece} : latest'[p] = latest[p]
  BY <1>1, <1>2, DiskAssumption DEF Contents
<1>5. \A i \in 1 .. n : writeChan[i].piece \in Pieces
  <2>1. \A i \in 1 .. n : writeChan[i] \in Requests
    BY <1>1
  <2> QED
    BY <2>1, RequestFields
<1> HIDE DEF r, n
<1>6. Settled'
  <2>1. \A p \in Pieces : latest[p] # Absent \/ p = r.piece => latest'[p] # Absent
    BY <1>4
  <2>2. \A i \in 1 .. n + 1 : latest'[writeChan'[i].piece] # Absent
    BY <1>1, <1>3, <1>5, <2>1
  <2>3. Writing' <=> Writing
    BY <1>2 DEF Writing
  <2> QED
    BY <1>2, <1>3, <2>1, <2>2, <2>3
<1>7. ASSUME ~err, NEW i \in 1 .. n + 1, Newest(i)'
      PROVE  writeChan'[i].data = latest'[writeChan'[i].piece]
  <2>1. CASE i = n + 1
    BY <1>3, <1>4, <2>1
  <2>2. CASE i # n + 1
    <3>1. i \in 1 .. n /\ writeChan'[i].piece # r.piece
      BY <1>1, <1>3, <1>7, <2>2 DEF Newest
    <3>2. Newest(i)
      BY <1>1, <1>3, <1>7, <3>1 DEF Newest
    <3> QED
      BY <1>3, <1>4, <1>5, <1>7, <3>1, <3>2
  <2> QED
    BY <2>1, <2>2
<1>8. ASSUME ~err, NEW p \in Received' PROVE Holds(p, latest[p])'
  <2>1. p \in Pieces /\ p \in Received /\ p # r.piece
    BY <1>1, <1>3 DEF Received
  <2> QED
    BY <1>2, <1>4, <1>8, <2>1 DEF Holds
<1> QED
  BY <1>2, <1>3, <1>6, <1>7, <1>8

\* A request moves from the head of the queue to the cache.
LEMMA ReceiveKeeps ==
    ASSUME TypeOK, Settled, NothingLost, Receive
    PROVE  Settled' /\ NothingLost'
<1> USE DEF Settled, NothingLost, callVars
<1> DEFINE r == writeChan[1]
           n == Len(writeChan)
<1>1. /\ writeChan \in Seq(Requests) /\ n \in Nat \ {0} /\ DOMAIN writeChan = 1 .. n
      /\ r \in Requests /\ r.piece \in Pieces /\ r.data \in Versions
      /\ \A i \in 1 .. n : writeChan[i].piece \in Pieces
  <2>1. writeChan \in Seq(Requests) /\ n \in Nat \ {0} /\ DOMAIN writeChan = 1 .. n
    BY DEF TypeOK, Receive
  <2>2. \A i \in 1 .. n : writeChan[i] \in Requests
    BY <2>1
  <2> QED
    BY <2>1, <2>2, RequestFields
<1>2. /\ writeChan' = Tail(writeChan)
      /\ cache' = [cache EXCEPT ![r.piece] = r.data]
      /\ ~Writing /\ ~Writing'
      /\ UNCHANGED <<err, batch, disk, latest>>
  <2>1. Head(writeChan) = r
    BY <1>1
  <2>2. ~Writing /\ ~Writing'
    BY DEF Receive, Writing, TypeOK
  <2> QED
    BY <2>1, <2>2 DEF Receive
<1>3. /\ DOMAIN writeChan' = 1 .. n - 1
      /\ \A i \in 1 .. n - 1 : writeChan'[i] = writeChan[i + 1] /\ i + 1 \in 1 .. n
      /\ \A i \in 2 .. n : i - 1 \in 1 .. n - 1 /\ writeChan[i] = writeChan'[i - 1]
  BY <1>1, <1>2
<1>4. /\ cache'[r.piece] = r.data /\ r.data # Absent
      /\ \A p \in Pieces \ {r.piece} : cache'[p] = cache[p]
  BY <1>1, <1>2, DiskAssumption DEF TypeOK, Contents
<1>5. 1 \in 1 .. n
  BY <1>1
<1> HIDE DEF r, n
<1>6. Settled'
  <2>1. latest[r.piece] # Absent
    BY <1>1, <1>5 DEF r
  <2> QED
    BY <1>1, <1>2, <1>3, <1>4, <2>1
<1>7. ASSUME ~err, NEW i \in 1 .. n - 1, Newest(i)'
      PROVE  writeChan'[i].data = latest'[writeChan'[i].piece]
  <2>1. \A j \in 1 .. n : writeChan[j].piece = writeChan[i + 1].piece => j <= i + 1
    <3> SUFFICES ASSUME NEW j \in 2 .. n, writeChan[j].piece = writeChan[i + 1].piece
                 PROVE  j <= i + 1
      BY <1>1, <1>3
    <3>1. j - 1 \in DOMAIN writeChan' /\ writeChan'[j - 1].piece = writeChan'[i].piece
      BY <1>3
    <3> QED
      BY <1>7, <3>1 DEF Newest
  <2>2. Newest(i + 1)
    BY <1>1, <2>1 DEF Newest
  <2> QED
    BY <1>1, <1>2, <1>3, <1>7, <2>2
<1>8. ASSUME ~err, NEW p \in Received' PROVE Holds(p, latest[p])'
  <2>1. p \in Pieces /\ \A i \in 1 .. n - 1 : writeChan'[i].piece # p
    BY <1>3 DEF Received
  <2>2. \A i \in 2 .. n : writeChan[i].piece # p
    BY <1>3, <2>1
  <2>3. CASE p = r.piece
    <3>1. Newest(1)
      BY <1>1, <2>2, <2>3 DEF Newest, r
    <3>2. r.data = latest[p]
      BY <1>1, <1>5, <1>8, <2>3, <3>1 DEF r
    <3> QED
      BY <1>2, <1>4, <2>3, <3>2 DEF Holds
  <2>4. CASE p # r.piece
    <3>1. p \in Received
      BY <1>1, <2>1, <2>2, <2>4 DEF Received, r
    <3> QED
      BY <1>2, <1>4, <1>8, <2>1, <2>4, <3>1 DEF Holds
  <2> QED
    BY <2>3, <2>4
<1> QED
  BY <1>2, <1>3, <1>6, <1>7, <1>8

\* The loop takes the cache with an empty batch, and writes what it took.
LEMMA FlushKeeps ==
    ASSUME TypeOK, Settled, NothingLost, Flush
    PROVE  Settled' /\ NothingLost'
<1> USE DEF Settled, callVars
<1>1. /\ cache \in Contents /\ batch \in Contents /\ disk \in Contents
      /\ latest \in Contents
      /\ loop \in LoopStates
      /\ \A p \in Pieces : Empty[p] = Absent
  BY DEF TypeOK, Empty
<1>2. UNCHANGED <<writeChan, latest>>
  BY DEF Flush, TakeCache, WriteAt, WriteAtFails, FlushReturns
<1>3. Received' = Received /\ \A i : Newest(i)' <=> Newest(i)
  BY <1>2 DEF Received, Newest
<1>4. CASE TakeCache
  <2>1. batch' = cache /\ cache' = Empty /\ UNCHANGED <<disk, err>>
    BY <1>1, <1>4 DEF TakeCache
  <2>2. batch = Empty
    BY <1>4 DEF TakeCache, Writing
  <2>3. \A p \in Received : Holds(p, latest[p]) => Holds(p, latest[p])'
    BY <1>1, <1>2, <2>1, <2>2 DEF Holds, Received
  <2>4. ~Writing' => cache = Empty
    BY <1>1, <1>4 DEF TakeCache, Writing
  <2> QED
    BY <1>1, <1>2, <1>3, <2>1, <2>3, <2>4 DEF NothingLost
<1>5. CASE WriteAt
  <2>1. PICK p \in Pieces : /\ batch[p] # Absent
                            /\ disk' = [disk EXCEPT ![p] = batch[p]]
                            /\ batch' = [batch EXCEPT ![p] = Absent]
    BY <1>5 DEF WriteAt, Filled
  <2>2. /\ disk'[p] = batch[p] /\ batch'[p] = Absent
        /\ \A q \in Pieces \ {p} : disk'[q] = disk[q] /\ batch'[q] = batch[q]
        /\ UNCHANGED <<cache, err, loop>>
        /\ Writing /\ Writing'
    BY <1>1, <1>5, <2>1 DEF WriteAt, Contents, Writing
  <2>3. \A q \in Received : Holds(q, latest[q]) => Holds(q, latest[q])'
    BY <1>2, <2>1, <2>2 DEF Holds, Received
  <2> QED
    BY <1>2, <1>3, <2>2, <2>3 DEF NothingLost
<1>6. CASE WriteAtFails
  <2>1. err' /\ batch' = Empty /\ UNCHANGED cache
    BY <1>1, <1>6 DEF WriteAtFails
  <2> QED
    BY <1>1, <1>2, <2>1 DEF NothingLost
<1>7. CASE FlushReturns
  <2>1. /\ batch' = Empty /\ UNCHANGED <<cache, disk, err>>
        /\ err \/ batch = Empty
    BY <1>1, <1>7 DEF FlushReturns
  <2>2. ~err => \A p \in Received : Holds(p, latest[p]) => Holds(p, latest[p])'
    BY <1>2, <2>1 DEF Holds
  <2> QED
    BY <1>1, <1>2, <1>3, <2>1, <2>2 DEF NothingLost
<1> QED
  BY <1>4, <1>5, <1>6, <1>7 DEF Flush

\* No other step touches the data.
LEMMA KeptStep ==
    ASSUME TypeOK, Settled, NothingLost, [Next]_vars
    PROVE  Settled' /\ NothingLost'
<1> USE DEF callVars, flushVars
<1>1. loop \in LoopStates
  BY DEF TypeOK
<1>2. ASSUME UNCHANGED <<err, writeChan, cache, batch, disk, latest>>,
             Writing' <=> Writing
      PROVE  Settled' /\ NothingLost'
  <2>1. Received' = Received /\ \A i : Newest(i)' <=> Newest(i)
    BY <1>2 DEF Received, Newest
  <2> QED
    BY <1>2, <2>1 DEF Settled, NothingLost, Holds
<1>3. ASSUME NEW c \in Callers, CheckError(c) \/ LockForSend(c) PROVE Settled' /\ NothingLost'
  BY <1>2, <1>3 DEF CheckError, LockForSend, Writing
<1>4. ASSUME NEW c \in Callers, Send(c) PROVE Settled' /\ NothingLost'
  BY <1>4, SendKeeps
<1>5. CASE Receive
  BY <1>5, ReceiveKeeps
<1>6. CASE CheckSize \/ Tick \/ Drained
  BY <1>1, <1>2, <1>6 DEF CheckSize, Tick, Drained, Writing
<1>7. CASE Flush
  BY <1>7, FlushKeeps
<1>8. ASSUME NEW k \in Closers, Close(k) PROVE Settled' /\ NothingLost'
  BY <1>2, <1>8 DEF Close, CloseChannel, CloseReturns, Writing
<1>9. CASE UNCHANGED vars
  BY <1>2, <1>9 DEF vars, Writing
<1> QED
  BY <1>3, <1>4, <1>5, <1>6, <1>7, <1>8, <1>9 DEF Next, WriterLoop, Call

\* A piece that is in none of the queue, the cache and the batch is on disk.
LEMMA DrainedIsDurable ==
    ASSUME TypeOK, NothingLost, ~err, writeChan = <<>>, cache = Empty, batch = Empty
    PROVE  disk = latest
<1>1. \A p \in Pieces : p \in Received /\ cache[p] = Absent /\ batch[p] = Absent
  BY DEF Received, Empty
<1>2. \A p \in Pieces : disk[p] = latest[p]
  BY <1>1 DEF NothingLost, Holds
<1> QED
  BY <1>2 DEF TypeOK, Contents

\* The same, after a step.
LEMMA DrainedAfter ==
    ASSUME TypeOK', NothingLost', ~err', writeChan' = <<>>, cache' = Empty, batch' = Empty
    PROVE  disk' = latest'
<1>1. \A p \in Pieces : p \in Received' /\ cache'[p] = Absent /\ batch'[p] = Absent
  BY DEF Received, Empty
<1>2. \A p \in Pieces : disk'[p] = latest'[p]
  BY <1>1 DEF NothingLost, Holds
<1> QED
  BY <1>2 DEF TypeOK, Contents

-----------------------------------------------------------------------------
(* The only Close. *)

\* The Close that closed the channel returns nil after the loop, without error.
Closing ==
    /\ closed => \E k \in Closers : closer[k] # "idle"
    /\ \A k \in Closers : closer[k] = "nil" => loop = "done" /\ ~err

\* With one closer, every step keeps nil for a Close that waited for the loop.
LEMMA ClosingStep ==
    ASSUME \A k, l \in Closers : k = l, TypeOK, Protocol, Closing,
           [Next]_vars
    PROVE  Closing'
<1> USE DiskAssumption DEF Closing, callVars, flushVars
<1>1. /\ loop \in LoopStates
      /\ closer \in [Closers -> CloserStates]
  BY DEF TypeOK
<1>2. ASSUME NEW c \in Callers, CheckError(c) \/ Call(c) PROVE Closing'
  BY <1>2 DEF CheckError, Call, LockForSend, Send
<1>3. CASE Receive \/ CheckSize \/ Tick \/ Drained
  BY <1>1, <1>3 DEF Receive, CheckSize, Tick, Drained
<1>4. CASE Flush
  BY <1>1, <1>4 DEF Flush, TakeCache, WriteAt, WriteAtFails, FlushReturns, Writing
<1>5. ASSUME NEW k \in Closers, CloseChannel(k) PROVE Closing'
  BY <1>1, <1>5 DEF CloseChannel
<1>6. ASSUME NEW k \in Closers, CloseReturns(k) PROVE Closing'
  BY <1>1, <1>6 DEF CloseReturns
<1>7. CASE UNCHANGED vars
  BY <1>7 DEF vars
<1> QED
  BY <1>2, <1>3, <1>4, <1>5, <1>6, <1>7 DEF Next, WriterLoop, Close

-----------------------------------------------------------------------------
(* The theorems. *)

\* Types, the protocol and the bounds.
IndInv == TypeOK /\ Protocol /\ Small

\* They hold together in every step.
LEMMA Inductive == Spec => []IndInv
<1>1. Init => IndInv
  <2> SUFFICES ASSUME Init PROVE IndInv
    OBVIOUS
  <2>1. Protocol
    BY DiskAssumption DEF Init, Protocol, Ending
  <2>2. Small
    BY DiskAssumption, EmptyType, FS_EmptySet DEF Init, Small, Bounded
  <2> QED
    BY <2>1, <2>2, TypeInit DEF IndInv
<1>2. IndInv /\ [Next]_vars => IndInv'
  BY TypeStep, ProtocolStep, SmallStep DEF IndInv
<1> QED
  BY <1>1, <1>2, PTL DEF Spec

\* The write path is well typed, and closeMu is held exactly during a send.
THEOREM WriterTypes == Spec => []TypeOK
  BY Inductive, PTL DEF IndInv

\* WritePiece holds closeMu while it sends: nobody sends on the closed channel,
\* and the background goroutine leaves nothing behind.
THEOREM ClosedIsQuiet == Spec => []NoSendAfterClose
<1>1. IndInv => NoSendAfterClose
  BY DEF IndInv, Protocol, Ending, NoSendAfterClose
<1> QED
  BY <1>1, Inductive, PTL

\* The queue and the cache stay within their limits.
THEOREM MemoryBounded == Spec => []Bounded
  BY Inductive, PTL DEF IndInv, Small

\* The data is kept, too.
DataInv == IndInv /\ Settled /\ NothingLost

\* The invariant on data, with the loop as the only loop.
LEMMA DataInductive == Spec => []DataInv
<1>1. Init => Settled /\ NothingLost
  BY DEF Init, Settled, NothingLost, Holds, Empty, Received
<1>2. IndInv /\ Settled /\ NothingLost /\ [Next]_vars => (Settled /\ NothingLost)'
  BY KeptStep DEF IndInv
<1> QED
  BY <1>1, <1>2, Inductive, PTL DEF Spec, DataInv

\* No accepted piece is lost on its way to the disk, and none is overtaken by an
\* older version of itself.
THEOREM AcceptedIsKept == Spec => []NothingLost
<1>1. DataInv => NothingLost
  BY DEF DataInv
<1> QED
  BY <1>1, DataInductive, PTL

\* A Close that returned nil left every accepted piece on disk, if it was the
\* only one (a second Close returns nil at once).
THEOREM CloseIsDurable ==
    ASSUME \A k, l \in Closers : k = l
    PROVE  Spec => []CloseMeansDurable
<1>1. Init => Closing
  BY DEF Init, Closing
<1>2. DataInv /\ Closing /\ [Next]_vars => Closing'
  BY ClosingStep DEF DataInv, IndInv
<1>3. DataInv /\ Closing => CloseMeansDurable
  <2> SUFFICES ASSUME DataInv, NEW k \in Closers, loop = "done", ~err
               PROVE  disk = latest
    BY DEF Closing, CloseMeansDurable
  <2>1. writeChan = <<>> /\ cache = Empty /\ batch = Empty
    BY DEF DataInv, IndInv, Protocol, Ending, Settled, Writing
  <2> QED
    BY <2>1, DrainedIsDurable DEF DataInv, IndInv
<1> QED
  BY <1>1, <1>2, <1>3, DataInductive, PTL DEF Spec

\* The write path implements the durable store.
THEOREM DiskRefinesStore == Spec => RefinesStore
<1> USE DEF callVars, flushVars
<1>1. Init => Store!Init
  BY DEF Init, Store!Init, Empty
<1>2. DataInv /\ DataInv' /\ [Next]_vars => [Store!Next]_Store!storeVars
  <2> SUFFICES ASSUME DataInv, DataInv', [Next]_vars
               PROVE  [Store!Next]_Store!storeVars
    OBVIOUS
  <2> USE DEF Store!storeVars
  <2>1. /\ loop \in LoopStates /\ batch \in Contents
        /\ request \in [Callers -> Requests]
    BY DEF DataInv, IndInv, TypeOK
  <2>2. ASSUME NEW c \in Callers, CheckError(c) \/ LockForSend(c)
        PROVE  UNCHANGED Store!storeVars
    BY <2>2 DEF CheckError, LockForSend
  <2>3. ASSUME NEW c \in Callers, Send(c) PROVE Store!Next
    <3>1. request[c].piece \in Pieces /\ request[c].data \in Versions
      BY <2>1, RequestFields
    <3>2. loop # "done"
      BY <2>3 DEF Send, DataInv, IndInv, Protocol, Ending
    <3>3. Store!Accept(request[c].piece, request[c].data)
      BY <2>3, <3>2 DEF Send, Store!Accept
    <3> QED
      BY <3>1, <3>3 DEF Store!Next
  <2>4. CASE Receive \/ CheckSize \/ Tick \/ Drained
    BY <2>1, <2>4 DEF Receive, CheckSize, Tick, Drained
  <2>5. CASE WriteAt
    <3>1. PICK p \in Pieces : /\ batch[p] # Absent
                              /\ disk' = [disk EXCEPT ![p] = batch[p]]
      BY <2>5 DEF WriteAt, Filled
    <3>2. batch[p] \in Versions
      BY <2>1, <3>1 DEF Contents
    <3>3. Store!Persist(p, batch[p])
      BY <2>5, <3>1 DEF WriteAt, Writing, Store!Persist, DataInv, Settled
    <3> QED
      BY <3>2, <3>3 DEF Store!Next
  <2>6. CASE WriteAtFails
    BY <2>6 DEF WriteAtFails, Writing, Store!Next, Store!Fail
  <2>7. CASE TakeCache \/ FlushReturns
    <3>1. UNCHANGED <<disk, err, latest>>
      BY <2>7 DEF TakeCache, FlushReturns
    <3>2. CASE loop' = "done"
      <4>1. loop # "done"
        BY <2>7 DEF TakeCache, FlushReturns, Writing
      <4>2. ~err => disk' = latest'
        <5> SUFFICES ASSUME ~err PROVE disk' = latest'
          OBVIOUS
        <5>1. writeChan' = <<>> /\ cache' = Empty /\ batch' = Empty /\ ~err'
          BY <3>1, <3>2 DEF DataInv, IndInv, Protocol, Ending, Settled, Writing
        <5>2. TypeOK' /\ NothingLost'
          BY DEF DataInv, IndInv
        <5> QED
          BY <5>1, <5>2, DrainedAfter
      <4> QED
        BY <3>1, <3>2, <4>1, <4>2 DEF Store!Next, Store!Seal
    <3>3. CASE loop' # "done"
      BY <2>7, <3>1, <3>3 DEF TakeCache, FlushReturns, Writing
    <3> QED
      BY <3>2, <3>3
  <2>8. ASSUME NEW k \in Closers, Close(k) PROVE UNCHANGED Store!storeVars
    BY <2>8 DEF Close, CloseChannel, CloseReturns
  <2>9. CASE UNCHANGED vars
    BY <2>9 DEF vars
  <2> QED
    BY <2>2, <2>3, <2>4, <2>5, <2>6, <2>7, <2>8, <2>9
       DEF Next, WriterLoop, Flush, Call
<1> QED
  BY <1>1, <1>2, DataInductive, PTL DEF Spec, RefinesStore, Store!Spec

-----------------------------------------------------------------------------
(* Nobody waits for nobody: the part of CallsReturn that is safety. *)

\* Some step of the background goroutine has what it waits for.
LoopRuns ==
    \/ loop \in {"size", "flush", "last"}
    \/ loop = "select" /\ (writeChan # <<>> \/ closed)
    \/ Writing /\ (err \/ batch = Empty \/ \E p \in Filled(batch) : Lowest(p))

\* A call that cannot go on waits for one that can, or for the loop, which can:
\* a caller for the one that sends, a sender on the full channel for the loop to
\* receive, and a Close for the loop to be done (writer.go:61, :67, :175 and :184).
NoCallIsStuck ==
    /\ \A c \in Callers : caller[c] = "lock" =>
          \/ closeMu = None
          \/ closeMu \in Callers /\ caller[closeMu] = "send"
    /\ \A c \in Callers : caller[c] = "send" => Len(writeChan) < QueueSize \/ LoopRuns
    /\ \A k \in Closers : closer[k] = "wait" => loop = "done" \/ LoopRuns

\* A Close waits on a channel it closed.
WaitsAfterClosing == \A k \in Closers : closer[k] = "wait" => closed

\* A non-empty set of naturals has a least element.
LEMMA LeastNatural ==
    ASSUME NEW T \in SUBSET Nat, T # {}
    PROVE  \E x \in T : \A y \in T : x <= y
<1> DEFINE R == {ss \in Nat \X Nat : ss[1] < ss[2]}
<1>1. IsWellFoundedOn(R, Nat)
  BY NatLessThanWellFounded DEF OpToRel
<1>2. PICK x \in T : \A y \in T : <<y, x>> \notin R
  BY <1>1, WFMin
<1>3. \A y \in T : ~(y < x)
  BY <1>2
<1>4. \A y \in T : x <= y
  BY <1>3
<1> QED
  BY <1>4

\* A batch with pieces left has a lowest one, so that flush can go on.
LEMMA LowestExists ==
    ASSUME NEW b \in Contents, b # Empty
    PROVE  \E p \in Pieces : b[p] # Absent /\ \A q \in Pieces : b[q] # Absent => p <= q
<1> DEFINE left == {p \in Pieces : b[p] # Absent}
<1>1. left # {}
  BY DEF Contents, Empty
<1>2. left \subseteq Nat
  BY DiskAssumption
<1>3. PICK p \in left : \A q \in left : p <= q
  BY <1>1, <1>2, LeastNatural
<1> QED
  BY <1>3

\* The loop of the program always has a next step until it is done, and no call
\* is blocked otherwise than on it: closeMu, the full channel and Close never
\* wait for each other in a circle.
THEOREM CallsAreNotStuck == Spec => []NoCallIsStuck
<1>1. Init => WaitsAfterClosing
  BY DEF Init, WaitsAfterClosing
<1>2. IndInv /\ WaitsAfterClosing /\ [Next]_vars => WaitsAfterClosing'
  <2> SUFFICES ASSUME IndInv, WaitsAfterClosing, [Next]_vars PROVE WaitsAfterClosing'
    OBVIOUS
  <2> USE DEF WaitsAfterClosing
  <2>1. closer \in [Closers -> CloserStates]
    BY DEF IndInv, TypeOK
  <2>2. ASSUME NEW k \in Closers, Close(k) PROVE WaitsAfterClosing'
    BY <2>1, <2>2 DEF Close, CloseChannel, CloseReturns
  <2>3. CASE (\E c \in Callers : CheckError(c) \/ Call(c)) \/ WriterLoop \/ UNCHANGED vars
    BY <2>3 DEF CheckError, Call, LockForSend, Send, WriterLoop, Receive, CheckSize, Tick,
                Drained, Flush, TakeCache, WriteAt, WriteAtFails, FlushReturns, vars
  <2> QED
    BY <2>2, <2>3 DEF Next
<1>3. IndInv /\ WaitsAfterClosing => NoCallIsStuck
  <2> SUFFICES ASSUME IndInv, WaitsAfterClosing PROVE NoCallIsStuck
    OBVIOUS
  <2>1. /\ loop \in LoopStates /\ batch \in Contents /\ writeChan \in Seq(Requests)
        /\ closeMu \in Callers \cup {None}
        /\ \A c \in Callers : caller[c] = "send" <=> closeMu = c
        /\ Protocol /\ Len(writeChan) <= QueueSize
    BY DEF IndInv, TypeOK, Small, Bounded
  <2>2. Writing => LoopRuns
    <3> SUFFICES ASSUME Writing, batch # Empty PROVE LoopRuns
      BY DEF LoopRuns
    <3>1. PICK p \in Pieces : batch[p] # Absent
                              /\ \A q \in Pieces : batch[q] # Absent => p <= q
      BY <2>1, LowestExists
    <3> QED
      BY <3>1 DEF LoopRuns, Filled, Lowest
  <2>3. loop # "done" /\ (closed \/ writeChan # <<>>) => LoopRuns
    BY <2>1, <2>2 DEF LoopStates, LoopRuns, Writing
  <2>4. ASSUME NEW c \in Callers, caller[c] = "send", ~(Len(writeChan) < QueueSize)
        PROVE  LoopRuns
    <3>1. ~closed /\ loop # "done"
      BY <2>1, <2>4 DEF Protocol, Ending
    <3>2. writeChan # <<>>
      BY <2>1, <2>4, DiskAssumption
    <3> QED
      BY <2>3, <3>1, <3>2
  <2> QED
    BY <2>1, <2>3, <2>4 DEF NoCallIsStuck, WaitsAfterClosing
<1> QED
  BY <1>1, <1>2, <1>3, Inductive, PTL DEF Spec
=============================================================================
