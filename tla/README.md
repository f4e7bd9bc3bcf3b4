# SidTorrent: TLA+ models and proofs

This directory specifies the parts of SidTorrent whose correctness depends on
the interleaving of goroutines: the shared piece manager and its workers, the
block pipeline of one connection and its rate limiter, the scheduler that starts
and joins the workers, the way of a piece from the asynchronous disk writer into
the files and on to a video player, the search for peers over trackers and the
DHT, and the job and session around them. TLC
checks the models on small instances; TLAPS proves the main safety properties
for every value of the constants. Every definition is translated from
`src/internal`; `PROJECT.json` ("map") gives the lines of each.

## The system

| Component | State | Operations | Interacts with |
|---|---|---|---|
| Piece manager (`piece/manager.go`) | `Pending`, `InProgress`, `Completed`, `PermanentlyFailed`, retry counters, availability, the rarest-first buckets, priorities, the blacklist, all under `pm.mu` | register/unregister a peer, `NextPiece`, complete, fail, return, set priorities, blacklist, resume scan | called by every worker, the scheduler and the streaming reader |
| Workers (`piece/worker.go`) | one goroutine per connection: its piece, its strike count, its bitfield | claim, download, verify, write, complete | manager, disk writer, `completeChan` |
| Block pipeline (`piece/downloader.go`, `assembler.go`) | requested and received blocks of one piece | request window, choke, timeouts | called by a worker, reads the connection |
| Scheduler (`piece/scheduler.go`, `peer/pex.go`) | `activeClients`, `wg`, `errCh`, `completeChan`, `peerPool`, `peerChan`, `pexSem` | start workers, accept, dial PEX contacts, close, join, choose the result | starts workers, receives from peers and the listener |
| Disk writer (`disk/writer.go`, `storage/writer.go`) | bounded request channel, cache, sticky error, `closed` | `WritePiece`, background loop, `flush`, `Close` | called by workers; writes the file |
| Storage (`storage/storage.go`, `torrent/pieces.go`) | the open files and their places in the torrent | open, `ReadAt`, `WriteAt`, `Close` | disk writer, resume scan |
| Streaming reader (`api/server.go`) | offset | choice of the file, `Seek`, `Read`, `Close` | sets priorities, polls the manager, reads the file |
| Choke manager (`piece/choke_manager.go`) | slots, scores, optimistic peer | `Evaluate` every 10 s | the initial clients |
| Rate limiter (`util/rate_limiter.go`) | tokens, capacity, waiters | `Wait`, refill, `Close` | block pipeline |
| Session and job store (`session/session.go`, `api/server.go`) | phases, job states | `Download`, create, cancel | everything above |
| Tracker client (`tracker/tracker.go`) | per tracker: address, attempt, transaction; all peers under `mu` | `GetPeers`: HTTP and UDP announces with retries | session |
| DHT (`dht/dht.go`) | routing table, waiters by transaction | bootstrap, listener, `SearchPeers`, `Close` | session |
| Torrent metadata, bencode | - | parsing | session |
| Metrics, config, UPnP, CLI, web frontend | counters, constants | - | - |

What is hard here: `NextPiece` gives up the mutex between two scans; a stream
request may claim a piece that is already being fetched; bitfields change
between register and unregister; completion, cancellation, queued errors and
late connections race in the scheduler, with three bounded channels on the way and
handshakes nobody can end;
writes are acknowledged long before they are on disk, and their errors come back
on a later call; the player is told that a piece is complete before its bytes
are in the file; replies to UDP queries come late, twice or never, and are told
apart by a transaction number only; a job is cancelled and reported by different
goroutines, and the process may die with pieces announced but not on disk.
"hazards" in `PROJECT.json` lists each of these at its line, with the properties
aimed at it.

## Modules

| Module | Models | Atomic step |
|---|---|---|
| `PieceManager` | every method of `PieceManager` the program calls | one critical section of `pm.mu` |
| `Workers` (extends it) | `StartWorker` for any set of connections, with dialling, inbound connections, HAVE messages, seeks, the disk's verdict, cancellation | one call to the manager, or one call that blocks |
| `DownloadLedger` | what a download promises: pieces are stored before they are done, done for good, completion is announced only when all are done | one fact becoming true |
| `Downloader` | `DownloadPiece`, `waitForUnchoke`, the assembler and the parser, against a peer with any set of faults | one message read or written |
| `Scheduler` | `StartScheduler`, the sends of `HandleExtended`, what a worker does at its channels | one channel operation or critical section |
| `DiskWriter` | `WritePiece`, `startWriterLoop`, `flush`, `Close` | one critical section, channel operation or `WriteAt` |
| `TorrentStorage` | `NewTorrentStorage`, `ReadAt`, `WriteAt`, `Close`, piece lengths | one file opened, or one file read or written |
| `Streaming` (extends both) | the composition: each write goes file by file, the resume scan reads the files, `StreamingReader` reads one of them | one step of the writer, one file of a `WriteAt`, one phase of a `Read` |
| `DurableStore` | what the writer promises: only accepted pieces reach the disk, none after a failure; a clean shutdown means each is there in its last version | one write or one persist |
| `Session` | `startDownload`, `JobStore`, `Download`, `connectPeers`, the status ticker; crashes of the process | one critical section of `JobStore.mu` or of `connectPeers`, or one call that blocks |
| `DownloadJob` | what a job promises across crashes: it settles once and truthfully, with what it counts on disk unless a write failed, and the next run counts only what is there | one fact becoming true, or a crash |
| `RateLimiter` | `Wait`, the refill goroutine, `Close` | one critical section of `mu` |
| `Tracker` | `GetPeers`, HTTP announces, UDP connect and announce with retries | one datagram sent and answered or not |
| `DHT` | the routing table, `listenLoop`, `queryGetPeers`, `Bootstrap`, `SearchPeers`, `Close` | one datagram, or one critical section |
| `Discovery` (extends both) | the life of the DHT node and `discoverPeers` of the session | as its parts |
| `*_proof` | the proofs about `Workers`, `Downloader`, `Scheduler`, `DiskWriter`, `Streaming`, `Session`, `RateLimiter`, `Discovery` | |
| `MC*` | the instances TLC runs | |

How state corresponds to code: Go maps used as sets are sets; `buckets[n][p]`
is the set of pairs `<<n, p>>`; a program counter `pc` names the statement a
goroutine is about to run; a channel is a sequence with its capacity as a
constant; a closed channel and `ctx.Done()` are Booleans. Byte counts are
counted in pieces.

Deliberate abstractions:

- *Download of a piece* is one step of `Workers` with the outcomes `data`,
  `corrupt`, `error` (the worker goes on) and `lost` (it leaves), which are the
  ways a call ends in `Downloader`: `DownloadPiece` touches nothing other workers
  see, except through HAVE (an action that may happen during it) and PEX (in
  `Scheduler`).
- *Blocks* in `Downloader` carry the piece their bytes are from instead of the
  bytes: VerifyPiece passes when every block has the bytes of its piece.
- *DownloadLoop* in `Session` returns, nil only if all pieces are complete, as
  `Workers` and `Scheduler` show of it, or hangs. Its workers hand a piece to the
  writer and mark it complete in a later step, in between which the writer may
  write it, fail or be closed; with a listener or PEX they may outlive the loop
  (`LateWorkers`), as an inbound client does whose handshake ends after the join.
  The writer accepts pieces and writes them later, fails for good, and is drained
  by `Close`, as `DiskWriter` shows of it. Inbound connections arrive in
  `Scheduler` only.
- *A dial* in `Session` is `ConnectTimeout` and what follows it. `Unclosed` names
  the peers of whose dials a connection stays open without a client
  (`abandoned`): those whose handshake does not verify.
- *Tickers* of `StartScheduler` (chokes, PEX broadcast, metrics) are left out.
- *The disk* is a flag in `Workers` that may turn at any time, because the
  writer's error is sticky; `DiskWriter` models where it comes from.
- *A worker* is, in `Scheduler`, a goroutine that polls, fetches, gossips and
  ends; which piece it gets is `Workers`. Of the pieces `Scheduler` keeps what
  the code reads: whether one is pending or in progress (`left`), whether all
  are completed and whether one was given up. `PieceEnds` lets them change with
  the end of any fetch, in any way the ledger of `Workers` allows. The blacklist
  check of a PEX dial is in `Workers` (`Dial`), its address bookkeeping in
  `Scheduler` (`TakeAddress`).
- *Bytes* in `TorrentStorage` are the offset in the torrent they belong to, or a
  hole; a piece verifies when each of its bytes is the one of its place. The two
  versions of a piece in `DiskWriter` carry the same bytes, as any data that
  passed `VerifyPiece` does.
- *A piece is complete* in `Streaming` in the step that queues it: the worker
  calls `MarkPieceComplete` next, and doing so earlier only lets the player read
  earlier. What a `Read` asks the manager for is `Seek` of `Workers`.
- *Networks* in `Tracker` and `DHT` lose, delay and reorder datagrams; in `DHT`
  replies are duplicated, too, in `Tracker` each is received once. An answer to
  a DHT query is assumed to come from the node that was asked; the code itself
  compares the transaction only. A search makes fewer than 2^16 queries, so the
  number does not wrap. Lists of peers are sets, hence without the duplicates
  `seenPeers` drops.
- *Answers of our DHT node* to the queries of others are left out: they read the
  same table, and nothing fills `peersMap`. `find_node` answers change the table
  by their sender only, as in the code, which does not read their "nodes".
- *Left out*: the broadcast of PEX writes while it holds `activeClientsMu`,
  bounded by a write deadline of 10 s, so the wait for that mutex ends; `Flush`
  and `SetMaxCacheSize` of the writer, `IncrementAvailability`,
  `NextRandomPiece`, which only tests call; the size check of `storage.Writer`,
  which a verified piece always passes.

## What the runs check

Every passing run explores its whole state space.

| Run | Instance | Question |
|---|---|---|
| `ledger` | 3 pieces, a client and a PEX contact at one address, one of which corrupts; seeks, HAVE, resume, disk failure, cancellation; streaming window 1; `MaxRetries` 1 | is every piece accounted for, and held by someone while in progress; is the index exact and every choice the right one; are peers that left forgotten and poisoners banned; do the workers implement the ledger |
| `live` | 2 pieces, a seed and an inbound peer that corrupts or leaves; seeks, resume; `MaxRetries` 2 | does the download complete, can one poisoner fail it, do the workers end |
| `life` | a client, an inbound connection and a PEX contact at the same address as the latter; `errCh` 3, `peerChan` 1, one dial slot, two addresses per PEX message; handshakes and dials need not end | is there one connection per address, are the initial workers joined before `errCh` is drained, is the result right, does `StartScheduler` return unless it waits for one of three kinds of workers |
| `pipeline` | two pieces of 3 and 2 units, blocks of 2, window 2; an honest peer and one for each fault: corrupts, sends malformed or unasked messages, leaves, falls silent, chatters | do blocks land in their piece, does a deadline ever expire on an honest peer, does every call return and an honest peer deliver |
| `stream` | 2 callers, 2 pieces in 2 versions over 3 files (one empty), one Close, queue 1, cache 2; any leftover of an earlier session; writes that fail half-way; a player that seeks and reads | is anything accepted lost or overwritten by an older copy, does a clean Close mean durable, does the writer implement the store; is a byte ever misplaced, does a resume find what is on disk, is a hole the player reads on its way; do calls return, do complete pieces reach the files |
| `limit` | 3 callers, requests smaller than a refill and larger than the bucket, Close at any time | is the rate kept over any stretch, is a wakeup lost, can all callers wait for each other |
| `discovery` | an HTTP tracker, a UDP tracker with two addresses, a DHT of 5 nodes of which 3 share a bucket of 2, strangers that query | is the routing table what was heard, is an answer taken for another query's, does a search ask everyone it heard of, is an answer dropped, is an address given up without a reason, do discovery and Close end |
| `job` | 2 pieces, 2 peers, one of which leaves a connection open, 2 dialers for one place; cancellation, write errors and crashes at any point, late workers, a late ticker | is a complete job complete and on disk, is what counts as done stored, does the session implement the abstract job (a cancelled job is not failed, a crash leaves nothing but the file), is a connection left that connecting gave a dialer, does every job end unless a dial or the loop does not |

Four more runs each show that something the repository says does not hold:

| Run | Says | What the code does |
|---|---|---|
| `stale` | `worker.go:98`, "malicious peer: consistently sent corrupt data" | `ParsePiece` drops the piece index: after chokes (two in the trace), late blocks of the interrupted pieces spoil the next ones, and the peer, which did nothing wrong, is banned |
| `seek` | Architecture doc, line 244, "complete/failed state machine" | a priority piece is claimed twice and ends up completed *and* permanently failed, so `IsComplete` never holds |
| `errors` | Architecture doc, line 263, "`wg.Wait()` joins all workers" | `errCh` is read only after the join: one more error than it has room for blocks a worker for good, and with it a cancelled `StartScheduler` that closed every connection |
| `flushed` | the same line, "On completion [...] `writer.Close()` flushes+closes the disk layer" | the error of the deferred `Close` is dropped: the job is complete, its file is not |

Other behaviour a reader should know of shows as an exception in a passing
property, or is modelled without one:

- `ReturnsUnlessStuck` names the workers a join may wait for in vain (`Stuck`).
  One sends contacts to the full `peerChan` (`pex.go:116`) while the dialer, its
  only reader, has stopped or waits for a slot that dials may never give back.
  One came between the close of the connections and the end of the join, so that
  its own is open. One polls (`worker.go:43-52`), in a complete download that
  another worker announced, for a piece that is still pending, and does not see
  that its connection was closed.
- `Handshake`, `DialEnds` and `Dial` need not end. `ReadBitField` renews its
  deadline with every message (`peer.go:274-288`), and a PEX message before the
  bitfield makes `HandleExtended` send to the client's `PeerChan`, which is nil
  until `startPeerWorker` (`peer.go:303`, `pex.go:116`): that send blocks for
  ever, whatever becomes of the connection. `connectPeers`, and with it
  `Download`, hangs on such a peer even when cancelled: `EveryJobEnds` excepts it.
  `Scheduler` has PEX enabled; in a job without it the channel stays nil, and a
  worker that is sent contacts hangs as one does that sends to a full channel.
- `NoConnectionLeft` speaks of the connections `ConnectTimeout` handed out. One
  whose handshake does not verify stays open: `peer.go:227` returns an error and
  leaves `err`, which the deferred close looks at, nil; with encryption this may
  happen to a first attempt before a plain one succeeds. (`peer.go:189` declares
  another `err`, but `NewEncryptedConn` fails for no key of 20 bytes.)
- `ClientsJoined` speaks of the initial clients: an inbound one still in its
  handshake gets a worker after the join (`scheduler.go:116`), and may complete
  pieces after the result of the job (`LateWorkers` of `Session`).
- `ResultRight`: a complete download may be reported as an error when one of its
  pieces was given up besides (`seek`), or when a worker that came late completes
  it after `IsComplete` was read (`scheduler.go:303`). The cause may be the ban of
  a peer (`worker.go:98`) although no piece was given up.
- `WorkersEnd`: a piece that is completed but still in `Pending` (after a resume,
  or a piece fetched twice whose second fetch failed) can be fetched again, and
  keeps workers whose peers lack it polling (`worker.go:43`) while the context
  stays open.
- `NoOfflinePeerCounted` bounds availability from one side: HAVE sets a bit
  without counting it, and the deferred unregister then takes it off another
  peer's count. Inbound connections are not checked against the blacklist.
- `HolesAreOnTheWay` speaks of the piece of the first byte: `Read` waits for that
  one only, and returns holes for the pieces after it (`server.go:570`). It also
  returns holes for a piece the writer still has in its queue or cache, or failed
  to write.
- The path of a video is looked for below the output path (`server.go:482`),
  where a torrent of a single file has none: `OpenReader` needs `MultiFile`.
- `GivesUpForAReason`: one UDP reply that comes after its deadline can end all
  the attempts that follow, each reading the reply to the one before it as a
  mismatch (`tracker.go:272`).
- `RateBound` grows with the largest request, since `Wait` widens the bucket to
  it for good (`rate_limiter.go:60`).
- `OutcomeRight`, which `RefinesJob` implies, speaks of the end: a job cancelled
  before its goroutine ran is "running" again for a while (`server.go:229`). Its phase may stay behind: the
  ticker is not joined, and a late status may replace "complete" or "cancelled"
  by "downloading" (`session.go:318`). A cancellation after the last piece is
  answered "cancelled" and ends as "complete".

### Bounds, and why they are enough

Two workers are enough for every race on a piece (a claim is contended by two),
three pieces for a rarest-first choice among pieces outside the streaming
window, a retry limit of 1 for a piece to fail, be retried and be given up.
`live` has a retry limit of 2, the smallest one for which one peer's two strikes
do not exhaust a piece. In `Downloader` two pieces are enough for a block to be
taken for one of another piece, the short last block of one of them for the
bounds of `AddBlock`; `MaxWhims` bounds chokes and unasked messages (two chokes
let a block survive one call), `MaxFailures` the failed calls after which the
manager offers no piece (two, so that two failed verifications are reached), and
`WireCap` the unread messages, one more than the window. In `Session` two
dialers and two peers, of which one abandons connections, compete for one place, so that the second check is reached
with a surplus client; crashes are not bounded. In `Streaming` the first piece
lies in three files, one of them empty, and the video is the last, with both
pieces; a queue of one and a cache of two make both fill up; `MaxWrites` is 1
since two callers with two versions already rewrite a piece; `MaxRead` 2 crosses
the piece boundary. In `RateLimiter` a refill is 2, so that a request of 3
sleeps and one of 25 needs a larger bucket; counters are bounded by the
capacity. In `Discovery` the tracker makes its 3 attempts at each of two
addresses; identifiers have 3 bits, which makes a bucket overflow (K is 2, 8 in
the code) and a node too far for the 3 rounds; `MaxIncoming` bounds the
datagrams from strangers. Channel capacities are scaled down (100 to 1-3) so
that "full" is reached; the number of connections against them decides, not
their size. `MaxAdded` bounds the addresses in one PEX message and `MaxWrites`
the calls per writer; both let the channel they fill overflow. The state spaces
are finite without further bounds: strike and retry counters end with the worker
or the piece. `CHECK_DEADLOCK` is off because every modelled run of the program
ends: workers leave, the scheduler returns, the writer is closed.

### Fairness

- `Workers`: weak fairness of each worker's goroutine and of the scheduler's
  reaction to completion and cancellation. The blocking step, `DownloadPiece`,
  reads with deadlines (`downloader.go:82`, `:186`), so it always has an outcome.
  A peer that keeps the connection busy without sending blocks evades the
  deadline, and one that answers "error" for ever makes no progress: the
  liveness run's peers are a seed and a peer that corrupts or leaves.
  Environment steps (HAVE, seeks, dials, disk failure, cancel) are never fair.
- `Scheduler`: weak fairness of the main goroutine, the PEX dialer and the steps
  in which a worker needs nobody else. No handshake, dial or fetch has to end, no
  PEX message to arrive. A fetch ends on a closed connection, since a
  `DownloadPiece` called then fails: strong fairness of that step, because PEX
  messages that were received before may interrupt it, finitely often. A worker
  that polls sees the context and the end of all pieces, and nothing else.
- `Downloader`: weak fairness of the client's goroutine and of a peer that is not
  silent, which serves requests and unchokes an interested client (`KeepsUp`). A
  silent peer is left by the read deadline. A peer that chatters restarts that
  deadline with every message (`downloader.go:82`): `EveryCallReturns` excepts it.
- `Session`: weak fairness of the job's goroutine outside `DownloadLoop`, of each
  dialer outside a dial, and of the writer. Neither a dial nor `DownloadLoop` has
  to end (`life` shows when the loop does); a job that waits for one for ever
  `Hangs`. Cancellations, ticks, workers and crashes are never fair.
- `Streaming`: weak fairness of the writer's loop with its ticker and flushes,
  and of a `Close` that waits; strong fairness of a `WritePiece` call, since
  callers compete for `closeMu` and a Go mutex hands itself over to a waiter
  that starves.
  Nobody has to write, close, read or open the files.
- `RateLimiter`: weak fairness of the refill goroutine, which a ticker drives, and
  of each caller that was woken; nobody has to call `Wait` or `Close`. A large
  request may starve behind small ones, so `SomeoneIsServed` promises that someone
  is served, not who.
- `Discovery`: weak fairness of the session's goroutine, of the listener and of
  each tracker's goroutine, whose reads all have deadlines. Nothing is assumed of
  the network: every datagram may be lost.

## What is proved

For all values of the constants that satisfy the named assumptions
(`ManagerAssumption`, `WorkersAssumption`, `DownloaderAssumption`,
`SchedulerAssumption`, `DiskAssumption`, `SessionAssumption`,
`StorageAssumption`, `StreamingAssumption`, `LimiterAssumption`,
`TrackerAssumption`, `DHTAssumption`; any number of pieces,
connections, callers, nodes, any capacities):

**Workers.** `TypeCorrect`; `NoPieceLost` (`EveryPieceAccounted`);
`IndexIsSound` (`BucketsSound`); `SelectionPolicy` (`RarestFirst`);
`ProgressIsExact` (`CountedOnce`); `OneFetchPerPiece` (`NoDuplicateFetch`);
`WorkersRefineLedger`; `OfflinePeersAreForgotten` (`NoOfflinePeerCounted`);
`FewPoisonersAreHarmless` and `OnePoisonerIsHarmless` (`OnePoisonerCannotKill`);
`OnlyStrikesBan`; `OneStateUnlessStreamed`. The accounting is inductive once the
type invariant says in which states of its code a worker holds a piece, so that
a claim is never overwritten. The index needs the fact that both counters of
`ensureBucketsSync` being equal makes it exact: buckets are a subset of the
exact partition with the same cardinality (`SyncIsExact`). The policy then
follows from the exact index, with the least element of a set of naturals for
the lowest bucket. The refinement adds that a piece is accepted by the writer
before it is completed. Availability is bounded by the owners of a piece, a
finite set of connections that a step changes by one at most. That poisoners
cannot have a piece given up needs their strikes as a set of pairs, a strike and
its peer: the failed attempts at a piece are no more than these pairs, of which
each peer has at most as many as the strike limit; so the bound is on the number
of poisoners times that limit, and the run's single poisoner is one case of it.

**Downloader.** `DownloaderTypes`; `HonestPeersAreHeard` (`NeverWaitsInVain`);
`BlocksLandWhereAsked` (`DeliveredAsAsked`), for any piece sizes, window and
number of chokes; `OnlyChokesSpoil`. The first is inductive with: the two sides
agree on who is choked, up to the chokes and unchokes on the way, and every
outstanding block is on the way, in one direction or the other, unless a choke
is. The second says that until a call fails everything on the way is of the
current call, each block once.

**Scheduler.** `SchedulerTypes`, `OnePerAddress` (`OneConnectionPerAddress`),
`DialLimit`, `InitialWorkersJoined` (`ClientsJoined`), `ResultIsRight`
(`ResultRight`), `ErrorsFitUnlessMany`, `JoinWaitsForSomeone`. Entering
`activeClients`, `wg.Add`, leaving and `wg.Done` are steps of their own: the type
invariant says between which of them a connection is in `activeClients`, so that
what `wg` counts and what is closed differ by those about to start or to finish.
One connection per address is inductive with: a known address is in `peerPool`,
and the address the dialer waits to dial is nobody else's. The result needs that
a fatal error that is queued, or was drained, is one a worker reported, that each
worker reports once, and that all initial workers reported theirs before `errCh`
was drained; nothing is assumed of the pieces, which may change until the result
is chosen. The errors fit because each connection that left one has ended.
`JoinWaitsForSomeone` is the safety that `ReturnsUnlessStuck` rests on: whoever
the join waits for was told to end, fetches on a closed connection, or has room
for its error and its gossip, or the dialer runs and makes some, unless it is
`Stuck`; it needs that the address the dialer waits to dial is that of a contact
never dialled, and that the initial clients that still work at the join are all
closed.

**DiskWriter.** `WriterTypes`, `ClosedIsQuiet` (`NoSendAfterClose`),
`MemoryBounded` (`Bounded`), `AcceptedIsKept` (`NothingLost`), `CloseIsDurable`
(`CloseMeansDurable`), `DiskRefinesStore` (`RefinesStore`), `CallsAreNotStuck`.
The invariant says that
the newest copy of each piece along queue, cache, batch and disk is the last one
accepted. `CloseIsDurable` assumes a single `Close`, which is what the session
does: a second one returns nil at once. `CallsAreNotStuck` is the safety that
`CallsReturn` rests on: `closeMu`, the full channel and `Close` never wait for each
other in a circle, since the loop has a next step until it is done, even in the
middle of a batch, which has a lowest piece.

**Streaming.** `StreamingIsAWriter`: the composition implements `DiskWriter`, so
the theorems above hold of it. `StoredPiecesAreFound` (`StoredIsFound`),
`NoByteIsMisplaced` (`BytesInPlace`) and `HolesWillBeFilled` (`HolesAreOnTheWay`),
for any number of files of any length, empty ones included, and any piece
length. The invariant says that every file is in its place and each byte of it
its own or a hole, and that a `WriteAt` under way has filled the files it has
passed. On the way: the overlap computed for a file is where the piece lies in
it (`OverlapPlace`), each byte of the torrent lies in exactly one file (`Covered`,
`StartsOrdered`), so a piece verifies exactly when each file has its part
(`WholeVerifies`, `PartOfVerified`), and a write, even a partial one, only fills
places (`WrittenInPlace`).

**Session.** `SessionTypes`; `CompleteIsComplete` (`CompleteIsTrue`);
`WhatIsDoneIsStored` (`DoneIsStored`); `CompleteIsOnDisk` (`CompleteIsDurable`);
`OutcomeIsRight`; `LimitHolds` (`WithinLimit`); `ConnectionsAreClosed`
(`NoConnectionLeft`); `SessionRefinesJob` (`RefinesJob`); for any number of
crashes. `CompleteIsTrue` needs that nothing says "complete" before the resume
scan, so that the ticker can only copy the word from where it is true.
Durability needs that a piece the writer accepted is stored, marked or not, that
the writer is open from `OpenWriter` to `CloseWriter`, and that its cache is
empty afterwards. A connection a dialer was given is always a client's or that of
a dialer about to append it. The refinement maps each action to one of
`DownloadJob` or to none: a piece may become durable before it is done, and done
after the job settled, if it is durable then. It needs when a life of the job has
nothing done yet, nothing cached yet, and nothing cached any more (`Life`).

**RateLimiter.** `LimiterTypes`; `RateIsBounded` (`RateBound`), because what was
granted beyond the refills is at most what the bucket misses of its capacity;
`WakeupsAreKept` (`NoLostWakeup`); `NobodySleepsForEver`, the safety that
`SomeoneIsServed` rests on: a sleeper waits for no more than the bucket can hold,
and the goroutine that fills it still runs.

**Discovery.** `RetriesAreUsed` (`GivesUpForAReason`): every attempt before the
current one timed out, unless a reply was late or a refusal.
`EverythingIsReturned` (`NothingHeardIsDropped`): `allPeers` is what the trackers
that ended had. `NoLateAnswer` (`AnswersItsQuery`): transaction numbers only
grow, every datagram with the current one is from the contact that was asked, and
the waiter is removed with the query. `RoutingTableIsSound` (`TableSound`), from
lemmas on appending to, updating and removing from one bucket. `SearchAsksAll`
(`SearchIsThorough`): the nodes asked so far and those in the queue of a
round are what `Reach` names for it, and the next queue adds what the answers
told of. `Reach` is a recursive function;
that it has the values its definition says is shown from its least counterexample,
as the library's induction theorems cannot be used.

Three theorems mark where a refuted claim does hold. A piece is in one state
(`seek`) when nothing is streamed or resumed: `OneStateUnlessStreamed`. The
workers' errors fit their channel, so that the join waits for none of them
(`errors`), when there are no more connections than room:
`ErrorsFitUnlessMany`. A peer that follows the protocol is not banned (`stale`)
when it never chokes: `OnlyChokesSpoil`. `JoinWaitsForSomeone` needs the second
condition, too.

### What is not proved

Every invariant, action property and refinement of a passing run is stated by a
theorem. Only model-checked is liveness, which TLAPS does not reach:
`EveryJobEnds`, `DownloadCompletes`, `WorkersEnd`, `ReturnsUnlessStuck`,
`EveryCallReturns`, `HonestDelivers`, `CallsReturn`, `CompletedReachesFiles`,
`SomeoneIsServed` and `DiscoveryEnds`. That no call is stuck is therefore stated
by the guards of the steps that end the wait, and not by `ENABLED`.

Proved and in no run: the type invariants, `ProgressIsExact`,
`OneFetchPerPiece`, `FewPoisonersAreHarmless`, `OnlyStrikesBan`, `DialLimit`,
`MemoryBounded`, `CallsAreNotStuck`, `JoinWaitsForSomeone`, `OutcomeIsRight`,
`LimitHolds`, `NobodySleepsForEver` and the three theorems on the boundaries
above.

## Plan

What is left, in this order; each module keeps to one action per operation,
constants with named assumptions, and no recursive operators where theorems are
wanted.

1. Several jobs, which share the port, the global configuration and, for the same
   torrent, the output file.
2. The bencode round trip, for TLC only.

## Not modelled, and why

- The choke manager: `Evaluate` ranks the clients whose `InterestedInUs` is set,
  and nothing in the program sets it, so it returns before it changes a slot.
- Metrics, configuration, UPnP, command line programs and the web frontend carry
  no logic of the download.
- The wire format, the handshake, RC4 obfuscation, torrent parsing and bencode are
  byte-level conversions without state.
- HTTP request handling around the job store and the stream.

## Running

    tlc -workers 2 -config MCWorkers_ledger.cfg MCWorkers.tla
    tlapm Workers_proof.tla
