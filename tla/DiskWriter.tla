----------------------------- MODULE DiskWriter -----------------------------
(***************************************************************************)
(* The asynchronous write path: internal/disk/writer.go, behind            *)
(* storage.Writer.                                                         *)
(*                                                                         *)
(* Workers call WritePiece, which queues the piece on a bounded channel    *)
(* while holding closeMu; one background goroutine moves requests into a   *)
(* cache and flushes the cache in batches; Close closes the channel and    *)
(* waits for that goroutine.  Steps are the critical sections, the channel *)
(* operations and the calls of WriteAt.  The cache size is counted in      *)
(* pieces.  Flush and SetMaxCacheSize have no caller in the program.       *)
(***************************************************************************)
EXTENDS Naturals, Sequences, FiniteSets

CONSTANTS Pieces,        \* piece indices
          Versions,      \* the data a caller may write for a piece
          Absent,        \* no data
          Callers,       \* goroutines that call WritePiece
          Closers,       \* goroutines that call Close
          QueueSize,     \* DefaultQueueSize
          maxCacheSize,  \* the flush threshold
          MaxWrites,     \* bound: WritePiece calls per caller
          None           \* nobody holds closeMu

ASSUME DiskAssumption ==
    /\ Pieces \subseteq Nat /\ Pieces # {} /\ IsFiniteSet(Pieces)
    /\ Versions # {}
    /\ Absent \notin Versions
    /\ None \notin Callers
    /\ QueueSize \in Nat \ {0}
    /\ maxCacheSize \in Nat \ {0}
    /\ MaxWrites \in Nat

VARIABLES err,        \* dw.err is set
          writeChan,  \* the queued requests
          cache,      \* dw.cache; Absent where there is no entry
          closed,     \* dw.closed, and the channel is closed with it
          closeMu,    \* the caller that holds closeMu while it sends, or None
          caller,     \* control state of each WritePiece call
          request,    \* the request of the call
          writes,     \* WritePiece calls made by each caller
          loop,       \* control state of the background goroutine
          batch,      \* the cache its flush took to write
          closer,     \* control state of each Close call
          disk,       \* the output file
          latest      \* the last version accepted, in the order of the channel

callVars  == <<caller, request, writes, closeMu>>
flushVars == <<loop, batch>>
vars == <<err, writeChan, cache, closed, callVars, flushVars, closer, disk, latest>>

Requests == [piece : Pieces, data : Versions]
Empty    == [p \in Pieces |-> Absent]

Filled(m) == {p \in Pieces : m[p] # Absent}

Init ==
    /\ err = FALSE
    /\ writeChan = <<>>
    /\ cache = Empty
    /\ closed = FALSE
    /\ closeMu = None
    /\ caller = [c \in Callers |-> "idle"]
    /\ request = [c \in Callers |-> CHOOSE r \in Requests : TRUE]   \* no call yet
    /\ writes = [c \in Callers |-> 0]
    /\ loop = "select"
    /\ batch = Empty
    /\ closer = [k \in Closers |-> "idle"]
    /\ disk = Empty
    /\ latest = Empty

-----------------------------------------------------------------------------
(* WritePiece *)

\* The error check comes first, and outside closeMu.
CheckError(c) ==
    /\ caller[c] = "idle" /\ writes[c] < MaxWrites
    /\ writes' = [writes EXCEPT ![c] = @ + 1]
    /\ \E r \in Requests : request' = [request EXCEPT ![c] = r]
    /\ caller' = [caller EXCEPT ![c] = IF err THEN "idle" ELSE "lock"]
    /\ UNCHANGED <<err, writeChan, cache, closed, closeMu, flushVars, closer, disk, latest>>

\* Mutant of LockForSend: closeMu is released before the send.
UnlockBeforeSend(c) ==
    /\ caller[c] = "lock" /\ closeMu = None
    /\ caller' = [caller EXCEPT ![c] = IF closed THEN "idle" ELSE "send"]
    /\ UNCHANGED <<err, writeChan, cache, closed, closeMu, request, writes, flushVars,
                   closer, disk, latest>>

\* Under closeMu: a closed writer refuses, else the caller goes on to send.
LockForSend(c) ==
    /\ caller[c] = "lock" /\ closeMu = None
    /\ \/ /\ closed
          /\ caller' = [caller EXCEPT ![c] = "idle"]
          /\ UNCHANGED closeMu
       \/ /\ ~closed
          /\ caller' = [caller EXCEPT ![c] = "send"]
          /\ closeMu' = c
    /\ UNCHANGED <<err, writeChan, cache, closed, request, writes, flushVars,
                   closer, disk, latest>>

\* Mutant of Send: closeMu is not released after the send.
SendKeepingLock(c) ==
    /\ caller[c] = "send" /\ Len(writeChan) < QueueSize
    /\ writeChan' = Append(writeChan, request[c])
    /\ latest' = [latest EXCEPT ![request[c].piece] = request[c].data]
    /\ caller' = [caller EXCEPT ![c] = "idle"]
    /\ UNCHANGED <<err, cache, closed, closeMu, request, writes, flushVars, closer, disk>>

\* The send blocks, with closeMu held, while the channel is full.
Send(c) ==
    /\ caller[c] = "send" /\ Len(writeChan) < QueueSize
    /\ writeChan' = Append(writeChan, request[c])
    /\ latest' = [latest EXCEPT ![request[c].piece] = request[c].data]
    /\ caller' = [caller EXCEPT ![c] = "idle"]
    /\ closeMu' = None
    /\ UNCHANGED <<err, cache, closed, request, writes, flushVars, closer, disk>>

-----------------------------------------------------------------------------
(* startWriterLoop *)

\* Mutant of Receive: an entry the cache has is not overwritten.
ReceiveKeepingOld ==
    /\ loop = "select" /\ writeChan # <<>>
    /\ LET r == Head(writeChan)
       IN  cache' = IF cache[r.piece] = Absent THEN [cache EXCEPT ![r.piece] = r.data]
                                              ELSE cache
    /\ writeChan' = Tail(writeChan)
    /\ loop' = "size"
    /\ UNCHANGED <<err, closed, callVars, batch, closer, disk, latest>>

\* A request was received: addToCache overwrites an older version.
Receive ==
    /\ loop = "select" /\ writeChan # <<>>
    /\ LET r == Head(writeChan) IN cache' = [cache EXCEPT ![r.piece] = r.data]
    /\ writeChan' = Tail(writeChan)
    /\ loop' = "size"
    /\ UNCHANGED <<err, closed, callVars, batch, closer, disk, latest>>

CheckSize ==
    /\ loop = "size"
    /\ loop' = IF Cardinality(Filled(cache)) >= maxCacheSize THEN "flush" ELSE "select"
    /\ UNCHANGED <<err, writeChan, cache, closed, callVars, batch, closer, disk, latest>>

\* Mutant of Tick: the ticker flushes only a full cache.
TickWhenFull ==
    /\ loop = "select" /\ Cardinality(Filled(cache)) >= maxCacheSize
    /\ loop' = "flush"
    /\ UNCHANGED <<err, writeChan, cache, closed, callVars, batch, closer, disk, latest>>

\* The ticker fires; with an empty cache flush would do nothing.
Tick ==
    /\ loop = "select" /\ cache # Empty
    /\ loop' = "flush"
    /\ UNCHANGED <<err, writeChan, cache, closed, callVars, batch, closer, disk, latest>>

\* Mutant of Drained: the loop returns without its last flush.
DrainedUnflushed ==
    /\ loop = "select" /\ writeChan = <<>> /\ closed
    /\ loop' = "done"
    /\ UNCHANGED <<err, writeChan, cache, closed, callVars, batch, closer, disk, latest>>

\* The closed channel is drained: flush a last time and return.
Drained ==
    /\ loop = "select" /\ writeChan = <<>> /\ closed
    /\ loop' = "last"
    /\ UNCHANGED <<err, writeChan, cache, closed, callVars, batch, closer, disk, latest>>

-----------------------------------------------------------------------------
(* flush, by the background goroutine *)

\* The state of the loop once flush returns.
Returned == IF loop \in {"last", "lastwrite"} THEN "done" ELSE "select"

\* Under cacheMu: take the whole cache, or return if there is none.
TakeCache ==
    /\ loop \in {"flush", "last"}
    /\ loop' = IF cache = Empty THEN Returned
               ELSE IF loop = "last" THEN "lastwrite" ELSE "write"
    /\ batch' = cache
    /\ cache' = Empty
    /\ UNCHANGED <<err, writeChan, closed, callVars, closer, disk, latest>>

Writing == loop \in {"write", "lastwrite"}

\* The lowest index left in the batch: the indices are written in order.
Lowest(p) == p \in Filled(batch) /\ \A q \in Filled(batch) : p <= q

\* The next piece of the batch is written at its offset.
WriteAt ==
    /\ Writing /\ ~err
    /\ \E p \in Filled(batch) :
          /\ Lowest(p)
          /\ disk' = [disk EXCEPT ![p] = batch[p]]
          /\ batch' = [batch EXCEPT ![p] = Absent]
    /\ UNCHANGED <<err, writeChan, cache, closed, callVars, loop, closer, latest>>

\* WriteAt returns an error, which is recorded; the rest of the batch is dropped.
WriteAtFails ==
    /\ Writing /\ ~err /\ batch # Empty
    /\ err' = TRUE
    /\ batch' = Empty
    /\ UNCHANGED <<writeChan, cache, closed, callVars, loop, closer, disk, latest>>

\* The batch is written, or an error made flush drop what was left of it.
FlushReturns ==
    /\ Writing
    /\ err \/ batch = Empty
    /\ batch' = Empty
    /\ loop' = Returned
    /\ UNCHANGED <<err, writeChan, cache, closed, callVars, closer, disk, latest>>

-----------------------------------------------------------------------------
(* Close: the first caller closes the channel and waits for the loop; a *)
(* later one returns nil at once.                                       *)

CloseChannel(k) ==
    /\ closer[k] = "idle" /\ closeMu = None
    /\ closer' = [closer EXCEPT ![k] = IF closed THEN "nil" ELSE "wait"]
    /\ closed' = TRUE
    /\ UNCHANGED <<err, writeChan, cache, callVars, flushVars, disk, latest>>

\* Mutant of CloseReturns: Close does not wait for the loop.
CloseReturnsAtOnce(k) ==
    /\ closer[k] = "wait"
    /\ closer' = [closer EXCEPT ![k] = IF err THEN "error" ELSE "nil"]
    /\ UNCHANGED <<err, writeChan, cache, closed, callVars, flushVars, disk, latest>>

CloseReturns(k) ==
    /\ closer[k] = "wait" /\ loop = "done"
    /\ closer' = [closer EXCEPT ![k] = IF err THEN "error" ELSE "nil"]
    /\ UNCHANGED <<err, writeChan, cache, closed, callVars, flushVars, disk, latest>>

-----------------------------------------------------------------------------
Call(c) == LockForSend(c) \/ Send(c)

Flush == TakeCache \/ WriteAt \/ WriteAtFails \/ FlushReturns

WriterLoop == Receive \/ CheckSize \/ Tick \/ Drained \/ Flush

Close(k) == CloseChannel(k) \/ CloseReturns(k)

Next ==
    \/ \E c \in Callers : CheckError(c) \/ Call(c)
    \/ WriterLoop
    \/ \E k \in Closers : Close(k)

Spec == Init /\ [][Next]_vars

-----------------------------------------------------------------------------
(* Safety. *)

CallerStates  == {"idle", "lock", "send"}
LoopStates    == {"select", "size", "flush", "last", "write", "lastwrite", "done"}
CloserStates  == {"idle", "wait", "nil", "error"}
Contents      == [Pieces -> Versions \cup {Absent}]

\* Types; closeMu is held exactly by the caller that is about to send.
TypeOK ==
    /\ err \in BOOLEAN /\ closed \in BOOLEAN
    /\ writeChan \in Seq(Requests)
    /\ cache \in Contents /\ disk \in Contents /\ latest \in Contents
    /\ caller \in [Callers -> CallerStates]
    /\ request \in [Callers -> Requests]
    /\ writes \in [Callers -> Nat]
    /\ closeMu \in Callers \cup {None}
    /\ \A c \in Callers : caller[c] = "send" <=> closeMu = c
    /\ loop \in LoopStates
    /\ batch \in Contents
    /\ closer \in [Closers -> CloserStates]

\* The last request queued for its piece, and the pieces with none.
Newest(i) == \A j \in DOMAIN writeChan : writeChan[j].piece = writeChan[i].piece => j <= i

Received == {p \in Pieces : \A i \in DOMAIN writeChan : writeChan[i].piece # p}

\* A piece passes the cache, a batch being written and the disk, newest first.
Holds(p, v) ==
    IF cache[p] # Absent THEN cache[p] = v
    ELSE IF batch[p] # Absent THEN batch[p] = v
    ELSE disk[p] = v

\* WritePiece returned nil, so the piece is in the queue, in the cache, in a
\* batch being written or on disk, and its newest copy is the last one accepted;
\* unless a write failed.
NothingLost ==
    \/ err
    \/ /\ \A i \in DOMAIN writeChan :
             Newest(i) => writeChan[i].data = latest[writeChan[i].piece]
       /\ \A p \in Received : Holds(p, latest[p])

\* A writer that has closed takes nothing: the channel is never sent to after
\* it was closed (that would panic), and once the loop is done it stays empty.
NoSendAfterClose ==
    /\ closed => \A c \in Callers : caller[c] # "send"
    /\ loop = "done" => closed /\ writeChan = <<>> /\ cache = Empty

\* Close returned nil: what was accepted is on disk.
CloseMeansDurable ==
    \A k \in Closers : closer[k] = "nil" => disk = latest

\* Memory stays bounded: the queue by its capacity, the cache by its threshold.
Bounded == Len(writeChan) <= QueueSize /\ Cardinality(Filled(cache)) <= maxCacheSize

-----------------------------------------------------------------------------
(* The write path implements a durable store. *)

Store == INSTANCE DurableStore
         WITH durable <- disk, failed <- err, sealed <- (loop = "done")

RefinesStore == Store!Spec

=============================================================================
