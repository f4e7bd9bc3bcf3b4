---------------------------- MODULE Session_proof ----------------------------
(* Safety of Session for every set of pieces, peers and dialers, every limit *)
(* and any number of crashes.                                                *)
EXTENDS Session, FiniteSetTheorems, TLAPS

-----------------------------------------------------------------------------
(* Types. *)

LEMMA InitTypes == Init => TypeOK
BY DEF Init, TypeOK, Phases, Labels

LEMMA JobTypes ==
    ASSUME TypeOK, StartDownload \/ Cancel \/ SetRunning \/ Report
    PROVE  TypeOK'
<1>1. CASE StartDownload
  BY <1>1 DEF StartDownload, TypeOK, Labels, dialVars, tickVars, loopVars, storeVars
<1>2. CASE Cancel
  BY <1>2 DEF Cancel, TypeOK, dialVars, tickVars, loopVars, storeVars
<1>3. CASE SetRunning
  BY <1>3 DEF SetRunning, TypeOK, Labels, Phases, dialVars, tickVars, loopVars, storeVars
<1>4. CASE Report
  BY <1>4 DEF Report, Outcome, TypeOK, Labels, dialVars, tickVars, loopVars, storeVars
<1> QED BY <1>1, <1>2, <1>3, <1>4

LEMMA SetUpTypes ==
    ASSUME TypeOK, Loading \/ OpenTorrent \/ Listen \/ Discover \/ DiscoverPeers \/ OpenWriter
    PROVE  TypeOK'
<1> USE DEF TypeOK, Goto, Return, Publish, Silent, Labels, Phases, job, dialVars, tickVars, loopVars, storeVars
<1>1. CASE Loading
  BY <1>1 DEF Loading
<1>2. CASE OpenTorrent
  BY <1>2 DEF OpenTorrent
<1>3. CASE Listen
  BY <1>3 DEF Listen
<1>4. CASE Discover
  BY <1>4 DEF Discover
<1>5. CASE DiscoverPeers
  BY <1>5 DEF DiscoverPeers
<1>6. CASE OpenWriter
  <2>1. held' \subseteq {"listener", "DHT", "writer"} /\ pc' \in Labels /\ err' \in {"nil", "error"}
    BY <1>6 DEF OpenWriter
  <2> QED BY <1>6, <2>1 DEF OpenWriter
<1> QED BY <1>1, <1>2, <1>3, <1>4, <1>5, <1>6

LEMMA LoopTypes ==
    ASSUME TypeOK,
           \/ LoadExistingState \/ AlreadyComplete \/ StartDialers \/ Connected \/ BeginLoop
           \/ (\E p \in Pieces : Worker(p)) \/ LoopReturns \/ SetComplete \/ PublishComplete
    PROVE  TypeOK'
<1> USE DEF TypeOK, Goto, Return, Publish, Silent, Labels, Phases, job, dialVars, tickVars, loopVars, storeVars
<1>1. CASE LoadExistingState
  BY <1>1 DEF LoadExistingState
<1>2. CASE AlreadyComplete
  BY <1>2 DEF AlreadyComplete
<1>3. CASE StartDialers
  BY <1>3 DEF StartDialers
<1>4. CASE Connected
  BY <1>4 DEF Connected
<1>5. CASE BeginLoop
  BY <1>5 DEF BeginLoop
<1>6. CASE \E p \in Pieces : Worker(p)
  <2>1. ASSUME NEW p \in Pieces, AcceptPiece(p) PROVE TypeOK'
    BY <2>1 DEF AcceptPiece
  <2>2. ASSUME NEW p \in Pieces, MarkComplete(p) PROVE TypeOK'
    BY <2>2 DEF MarkComplete
  <2> QED BY <1>6, <2>1, <2>2 DEF Worker
<1>7. CASE LoopReturns
  <2>1. LateWorkers \in BOOLEAN
    BY Zenon DEF LateWorkers
  <2> QED BY <1>7, <2>1 DEF LoopReturns
<1>8. CASE SetComplete
  BY <1>8 DEF SetComplete
<1>9. CASE PublishComplete
  BY <1>9 DEF PublishComplete
<1> QED BY <1>1, <1>2, <1>3, <1>4, <1>5, <1>6, <1>7, <1>8, <1>9

LEMMA CloseTypes ==
    ASSUME TypeOK, CloseClients \/ StopWriter \/ CloseWriter \/ CloseListener
    PROVE  TypeOK'
<1> USE DEF TypeOK, Goto, Silent, Labels, job, dialVars, tickVars, loopVars, storeVars
<1>1. CASE CloseClients
  BY <1>1 DEF CloseClients
<1>2. CASE StopWriter
  BY <1>2 DEF StopWriter
<1>3. CASE CloseWriter
  BY <1>3 DEF CloseWriter
<1>4. CASE CloseListener
  BY <1>4 DEF CloseListener
<1> QED BY <1>1, <1>2, <1>3, <1>4

LEMMA DialerTypes ==
    ASSUME TypeOK, NEW d \in Dialers, Dialer(d)
    PROVE  TypeOK'
<1> USE SessionAssumption DEF TypeOK, job, tickVars, loopVars, storeVars
<1>1. CASE TakePeer(d)
  BY <1>1 DEF TakePeer
<1>2. CASE CheckLimit(d)
  BY <1>2 DEF CheckLimit
<1>3. CASE Dial(d)
  BY <1>3 DEF Dial
<1>4. CASE AppendClient(d)
  BY <1>4 DEF AppendClient, Publish, Phases
<1> QED BY <1>1, <1>2, <1>3, <1>4 DEF Dialer

LEMMA MachineTypes ==
    ASSUME TypeOK, Tick \/ WritePiece \/ Crash
    PROVE  TypeOK'
<1>1. CASE Tick
  BY <1>1 DEF TypeOK, Tick, Publish, Phases, job, dialVars, loopVars, storeVars
<1>2. CASE WritePiece
  BY <1>2 DEF TypeOK, WritePiece, job, dialVars, tickVars, loopVars
<1>3. CASE Crash
  BY <1>3 DEF TypeOK, Crash, Labels, Phases
<1> QED BY <1>1, <1>2, <1>3

\* Every variable of the job and its session has its type in every reachable
\* state; a dialer holds a peer exactly while it is busy with it.
THEOREM SessionTypes == Spec => []TypeOK
<1>1. TypeOK /\ [Next]_vars => TypeOK'
  <2> SUFFICES ASSUME TypeOK, [Next]_vars PROVE TypeOK'
    OBVIOUS
  <2>1. CASE StartDownload \/ Cancel
    BY <2>1, JobTypes
  <2>2. CASE Main
    BY <2>2, JobTypes, SetUpTypes, LoopTypes, CloseTypes DEF Main
  <2>6. CASE \E p \in Pieces : Worker(p)
    BY <2>6, LoopTypes
  <2>3. CASE \E d \in Dialers : Dialer(d)
    BY <2>3, DialerTypes
  <2>4. CASE Tick \/ WritePiece \/ Crash
    BY <2>4, MachineTypes
  <2>5. CASE UNCHANGED vars
    BY <2>5 DEF vars, TypeOK, job, dialVars, tickVars, loopVars, storeVars
  <2> QED BY <2>1, <2>2, <2>3, <2>4, <2>5, <2>6 DEF Next
<1> QED BY <1>1, InitTypes, PTL DEF Spec

-----------------------------------------------------------------------------
(* A complete job is complete. *)

Early == {"none", "spawned", "loading", "open", "listen", "discover", "peers", "start", "resume"}
Closing == {"close", "flush", "drain", "release", "report", "ended"}

\* Nothing says "complete" before the resume scan, the last action that may
\* leave a piece out; afterwards the word is copied only from where it is true.
Truth ==
    /\ \/ jobState = "complete" \/ jobPhase = "complete" \/ status = "complete" \/ next = "complete"
          => pc \notin Early /\ completed = Pieces
    /\ pc \in {"finish", "publish"} => completed = Pieces
    /\ pc \in Closing /\ err = "nil" => completed = Pieces

LEMMA TruthStep == Truth /\ [Next]_vars => Truth'
<1> SUFFICES ASSUME Truth, [Next]_vars PROVE Truth'
  OBVIOUS
<1> USE DEF Truth, Early, Closing, Goto, Return, Publish, Silent, job, dialVars, tickVars, loopVars, storeVars
<1>1. CASE StartDownload \/ Cancel \/ SetRunning
  BY <1>1 DEF StartDownload, Cancel, SetRunning
<1>2. CASE Loading \/ OpenTorrent \/ Listen \/ Discover
  BY <1>2 DEF Loading, OpenTorrent, Listen, Discover
<1>3. CASE DiscoverPeers \/ OpenWriter
  BY <1>3 DEF DiscoverPeers, OpenWriter
<1>4. CASE LoadExistingState
  BY <1>4 DEF LoadExistingState
<1>5. CASE AlreadyComplete \/ StartDialers \/ Connected \/ BeginLoop
  BY <1>5 DEF AlreadyComplete, StartDialers, Connected, BeginLoop
<1>6. CASE \E p \in Pieces : Worker(p)
  BY <1>6 DEF Worker, AcceptPiece, MarkComplete
<1>7. CASE LoopReturns
  BY <1>7 DEF LoopReturns, LoopIsDone
<1>8. CASE SetComplete \/ PublishComplete
  BY <1>8 DEF SetComplete, PublishComplete
<1>9. CASE CloseClients \/ StopWriter \/ CloseWriter \/ CloseListener
  BY <1>9 DEF CloseClients, StopWriter, CloseWriter, CloseListener
<1>10. CASE Report
  BY <1>10 DEF Report, Outcome
<1>11. CASE \E d \in Dialers : Dialer(d)
  BY <1>11 DEF Dialer, TakePeer, CheckLimit, Dial, AppendClient
<1>12. CASE Tick
  BY <1>12 DEF Tick
<1>13. CASE WritePiece
  BY <1>13 DEF WritePiece
<1>14. CASE Crash
  BY <1>14 DEF Crash
<1>15. CASE UNCHANGED vars
  BY <1>15 DEF vars
<1> QED
  BY <1>1, <1>2, <1>3, <1>4, <1>5, <1>6, <1>7, <1>8, <1>9, <1>10, <1>11, <1>12, <1>13, <1>14, <1>15
  DEF Next, Main

\* A job is shown as complete only when every piece is, whatever the ticker,
\* a cancellation or an error do meanwhile.
THEOREM CompleteIsComplete == Spec => []CompleteIsTrue
<1>1. Init => Truth
  BY DEF Init, Truth, Early, Closing
<1>2. Truth => CompleteIsTrue
  BY DEF Truth, CompleteIsTrue
<1> QED BY <1>1, <1>2, TruthStep, PTL DEF Spec

-----------------------------------------------------------------------------
(* What is done is stored, and a complete job is on disk. *)

\* From OpenWriter to CloseWriter the writer is open; then its cache is empty, and
\* no worker fills it again.
WriterOpen ==
    /\ pc \in {"resume", "resumed", "connect", "begin", "loop", "finish", "publish"}
         => "writer" \in held
    /\ pc \in {"close", "flush", "drain"} /\ err = "nil" => "writer" \in held
    /\ pc \in {"release", "report", "ended"} => "writer" \notin held
    /\ pc \in {"release", "report", "ended"} /\ err = "nil" => cached = {} \/ writeError
    /\ jobState = "complete" => pc = "ended" /\ err = "nil"

\* DoneIsStored, of pieces between WritePiece and MarkComplete too.
Kept == completed \cup accepted \subseteq disk \cup cached \/ writeError

Stored == Kept /\ WriterOpen

LEMMA StoredStep == TypeOK /\ Stored /\ [Next]_vars => Stored'
<1> SUFFICES ASSUME TypeOK, Stored, [Next]_vars PROVE Stored'
  OBVIOUS
<1> USE DEF Stored, Kept, WriterOpen, Goto, Return, Publish, Silent,
            job, dialVars, tickVars, loopVars, storeVars
<1>1. CASE StartDownload \/ Cancel \/ SetRunning
  BY <1>1 DEF StartDownload, Cancel, SetRunning
<1>2. CASE Loading \/ OpenTorrent \/ Listen \/ Discover
  BY <1>2 DEF Loading, OpenTorrent, Listen, Discover
<1>3. CASE DiscoverPeers \/ OpenWriter
  BY <1>3 DEF DiscoverPeers, OpenWriter
<1>4. CASE LoadExistingState
  BY <1>4 DEF LoadExistingState, Verified
<1>5. CASE AlreadyComplete \/ StartDialers \/ Connected \/ BeginLoop
  BY <1>5 DEF AlreadyComplete, StartDialers, Connected, BeginLoop
<1>6. CASE \E p \in Pieces : Worker(p)
  BY <1>6 DEF Worker, AcceptPiece, MarkComplete
<1>7. CASE LoopReturns
  BY <1>7 DEF LoopReturns
<1>8. CASE SetComplete \/ PublishComplete
  BY <1>8 DEF SetComplete, PublishComplete
<1>9. CASE CloseClients \/ StopWriter \/ CloseWriter \/ CloseListener
  BY <1>9 DEF CloseClients, StopWriter, CloseWriter, CloseListener, Flushed
<1>10. CASE Report
  BY <1>10 DEF Report, Outcome
<1>11. CASE \E d \in Dialers : Dialer(d)
  BY <1>11 DEF Dialer, TakePeer, CheckLimit, Dial, AppendClient
<1>12. CASE Tick
  BY <1>12 DEF Tick
<1>13. CASE WritePiece
  BY <1>13 DEF WritePiece
<1>14. CASE Crash
  BY <1>14 DEF Crash
<1>15. CASE UNCHANGED vars
  BY <1>15 DEF vars
<1> QED
  BY <1>1, <1>2, <1>3, <1>4, <1>5, <1>6, <1>7, <1>8, <1>9, <1>10, <1>11, <1>12, <1>13, <1>14, <1>15
  DEF Next, Main

LEMMA InitStored == Init => Stored
BY DEF Init, Stored, Kept, WriterOpen

\* A piece counted as done is in the file or in the cache, unless a write
\* failed, through any number of crashes and resumes.
THEOREM WhatIsDoneIsStored == Spec => []DoneIsStored
<1>1. Stored => DoneIsStored
  BY DEF Stored, Kept, DoneIsStored
<1> QED BY <1>1, InitStored, StoredStep, SessionTypes, PTL DEF Spec

\* A job in state "complete" has every piece in the file, unless a write failed.
THEOREM CompleteIsOnDisk == Spec => []CompleteIsDurable
<1>1. TypeOK /\ Stored /\ CompleteIsTrue => CompleteIsDurable
  BY DEF TypeOK, Stored, Kept, WriterOpen, CompleteIsTrue, CompleteIsDurable
<1> QED BY <1>1, InitStored, StoredStep, SessionTypes, CompleteIsComplete, PTL DEF Spec

-----------------------------------------------------------------------------
(* The outcome of a job. *)

\* A job that ended is complete, failed and never cancelled, or cancelled.
THEOREM OutcomeIsRight == Spec => []OutcomeRight
<1>1. Init => OutcomeRight
  BY DEF Init, OutcomeRight
<1>2. OutcomeRight /\ [Next]_vars => OutcomeRight'
  <2> SUFFICES ASSUME OutcomeRight, [Next]_vars PROVE OutcomeRight'
    OBVIOUS
  <2> USE DEF OutcomeRight, Goto, Return, Publish, Silent, job
  <2>1. CASE StartDownload \/ Cancel \/ SetRunning
    BY <2>1 DEF StartDownload, Cancel, SetRunning
  <2>2. CASE Report
    BY <2>2 DEF Report, Outcome
  <2>3. CASE Loading \/ OpenTorrent \/ Listen \/ Discover \/ DiscoverPeers \/ OpenWriter
    BY <2>3 DEF Loading, OpenTorrent, Listen, Discover, DiscoverPeers, OpenWriter
  <2>4. CASE LoadExistingState \/ AlreadyComplete \/ StartDialers \/ Connected \/ BeginLoop
    BY <2>4 DEF LoadExistingState, AlreadyComplete, StartDialers, Connected, BeginLoop
  <2>5. CASE (\E p \in Pieces : Worker(p)) \/ LoopReturns \/ SetComplete \/ PublishComplete
    BY <2>5 DEF Worker, AcceptPiece, MarkComplete, LoopReturns, SetComplete, PublishComplete
  <2>6. CASE CloseClients \/ StopWriter \/ CloseWriter \/ CloseListener
    BY <2>6 DEF CloseClients, StopWriter, CloseWriter, CloseListener
  <2>7. CASE \E d \in Dialers : Dialer(d)
    BY <2>7 DEF Dialer, TakePeer, CheckLimit, Dial, AppendClient
  <2>8. CASE Tick \/ WritePiece \/ Crash
    BY <2>8 DEF Tick, WritePiece, Crash
  <2>9. CASE UNCHANGED vars
    BY <2>9 DEF vars
  <2> QED BY <2>1, <2>2, <2>3, <2>4, <2>5, <2>6, <2>7, <2>8, <2>9 DEF Next, Main
<1> QED BY <1>1, <1>2, PTL DEF Spec

-----------------------------------------------------------------------------
(* Connections. *)

\* Actions that leave the dialers and the connections alone.
LEMMA DialVarsUnchanged ==
    ASSUME [Next]_vars, ~DiscoverPeers, ~StartDialers, ~Connected, ~CloseClients, ~Crash,
           \A d \in Dialers : ~Dialer(d)
    PROVE  /\ UNCHANGED dialVars
           /\ pc' = "connect" => pc = "connect"
           /\ pc = "connect" => pc' = "connect"
           /\ pc' \in {"flush", "drain", "release", "report", "ended"}
                => pc \in {"flush", "drain", "release", "report", "ended"}
<1> USE DEF Goto, Return
<1>1. CASE StartDownload \/ Cancel \/ SetRunning \/ Report
  BY <1>1 DEF StartDownload, Cancel, SetRunning, Report
<1>2. CASE Loading \/ OpenTorrent \/ Listen \/ Discover \/ OpenWriter
  BY <1>2 DEF Loading, OpenTorrent, Listen, Discover, OpenWriter
<1>3. CASE LoadExistingState \/ AlreadyComplete \/ BeginLoop
  BY <1>3 DEF LoadExistingState, AlreadyComplete, BeginLoop
<1>4. CASE (\E p \in Pieces : Worker(p)) \/ LoopReturns \/ SetComplete \/ PublishComplete
  BY <1>4 DEF Worker, AcceptPiece, MarkComplete, LoopReturns, SetComplete, PublishComplete
<1>5. CASE StopWriter \/ CloseWriter \/ CloseListener
  BY <1>5 DEF StopWriter, CloseWriter, CloseListener
<1>6. CASE Tick \/ WritePiece
  BY <1>6 DEF Tick, WritePiece
<1>7. CASE UNCHANGED vars
  BY <1>7 DEF vars
<1> QED BY <1>1, <1>2, <1>3, <1>4, <1>5, <1>6, <1>7 DEF Next, Main

LEMMA FiniteClients == ASSUME TypeOK PROVE IsFiniteSet(clients)
BY SessionAssumption, FS_Subset DEF TypeOK

\* However many dialers connect at the same time, no more clients are kept
\* than MaxActiveConnections.
THEOREM LimitHolds == Spec => []WithinLimit
<1>1. Init => WithinLimit
  BY SessionAssumption, FS_EmptySet DEF Init, WithinLimit
<1>2. TypeOK /\ WithinLimit /\ [Next]_vars => WithinLimit'
  <2> SUFFICES ASSUME TypeOK, WithinLimit, [Next]_vars PROVE WithinLimit'
    OBVIOUS
  <2>1. CASE DiscoverPeers \/ StartDialers \/ Connected
    BY <2>1 DEF DiscoverPeers, StartDialers, Connected, WithinLimit
  <2>2. CASE CloseClients \/ Crash
    BY <2>2, SessionAssumption, FS_EmptySet DEF CloseClients, Crash, WithinLimit
  <2>3. ASSUME NEW d \in Dialers, TakePeer(d) \/ CheckLimit(d) \/ Dial(d) PROVE WithinLimit'
    BY <2>3 DEF TakePeer, CheckLimit, Dial, WithinLimit
  <2>4. ASSUME NEW d \in Dialers, AppendClient(d) PROVE WithinLimit'
    <3>1. CASE Full
      BY <2>4, <3>1 DEF AppendClient, WithinLimit
    <3>2. CASE ~Full
      <4>1. clients' = clients \cup {dialing[d]}
        BY <2>4, <3>2 DEF AppendClient
      <4>2. Cardinality(clients) \in Nat /\ Cardinality(clients) < MaxActiveConnections
        BY <3>2, FiniteClients, FS_CardinalityType, SessionAssumption DEF Full
      <4>3. Cardinality(clients') <= Cardinality(clients) + 1
        BY <4>1, <4>2, FiniteClients, FS_AddElement
      <4>4. Cardinality(clients') \in Nat
        BY <4>1, FiniteClients, FS_AddElement, FS_CardinalityType
      <4> QED BY <4>2, <4>3, <4>4, SessionAssumption DEF WithinLimit
    <3> QED BY <3>1, <3>2
  <2>5. CASE ~(\/ DiscoverPeers \/ StartDialers \/ Connected \/ CloseClients \/ Crash
               \/ \E d \in Dialers : Dialer(d))
    BY <2>5, DialVarsUnchanged DEF dialVars, WithinLimit
  <2> QED BY <2>1, <2>2, <2>3, <2>4, <2>5 DEF Dialer
<1> QED BY <1>1, <1>2, SessionTypes, PTL DEF Spec

\* Dialers run in connectPeers only; a connection is a client's or that of a
\* dialer about to append it; CloseClients leaves none.
Owned ==
    /\ pc # "connect" => \A d \in Dialers : dialer[d] = "off"
    /\ \A x \in conns : x \in clients \/ \E d \in Dialers : dialer[d] = "append" /\ dialing[d] = x
    /\ pc \in {"flush", "drain", "release", "report", "ended"} => conns = {}

\* Every connection that ConnectTimeout gave a dialer is closed when the job is
\* reported, whether it became a client or not.
THEOREM ConnectionsAreClosed == Spec => []NoConnectionLeft
<1>1. Init => Owned
  BY DEF Init, Owned
<1>2. TypeOK /\ Owned /\ [Next]_vars => Owned'
  <2> SUFFICES ASSUME TypeOK, Owned, [Next]_vars PROVE Owned'
    OBVIOUS
  <2> USE DEF Owned, Goto, Return
  <2>1. CASE DiscoverPeers \/ Connected
    BY <2>1 DEF DiscoverPeers, Connected
  <2>2. CASE StartDialers
    BY <2>2 DEF StartDialers
  <2>3. CASE CloseClients
    BY <2>3 DEF CloseClients
  <2>4. CASE Crash
    BY <2>4 DEF Crash
  <2>5. ASSUME NEW d \in Dialers, Dialer(d) PROVE Owned'
    <3>1. pc = "connect" /\ pc' = pc
      BY <2>5 DEF Dialer, TakePeer, CheckLimit, Dial, AppendClient
    <3>2. CASE TakePeer(d) \/ CheckLimit(d)
      BY <3>1, <3>2 DEF TakePeer, CheckLimit, TypeOK
    <3>3. CASE Dial(d)
      BY <3>1, <3>3 DEF Dial, TypeOK
    <3>4. CASE AppendClient(d)
      BY <3>1, <3>4 DEF AppendClient, TypeOK
    <3> QED BY <2>5, <3>2, <3>3, <3>4 DEF Dialer
  <2>6. CASE ~(\/ DiscoverPeers \/ StartDialers \/ Connected \/ CloseClients \/ Crash
               \/ \E d \in Dialers : Dialer(d))
    BY <2>6, DialVarsUnchanged DEF dialVars
  <2> QED BY <2>1, <2>2, <2>3, <2>4, <2>5, <2>6
<1>3. Owned => NoConnectionLeft
  BY DEF Owned, NoConnectionLeft
<1> QED BY <1>1, <1>2, <1>3, SessionTypes, PTL DEF Spec

-----------------------------------------------------------------------------
(* The session refines DownloadJob. *)

\* A job exists from StartDownload to a crash; nothing is done before the scan
\* and nothing accepted before the loop; the cache is flushed by CloseWriter.
Life ==
    /\ jobState = "absent" <=> pc = "none"
    /\ pc = "spawned" => jobState \in {"queued", "cancelled"}
    /\ pc \in Early => completed = {}
    /\ pc \in Early \cup {"resumed", "connect", "begin"}
         => cached = {} /\ accepted = {} /\ ~workers
    /\ pc \in {"close", "flush", "drain"} => cached = {} \/ "writer" \in held
    /\ pc \in {"release", "report", "ended"} => cached = {} \/ writeError

LEMMA InitLife == Init => Life
BY DEF Init, Life, Early

LEMMA LifeStep == TypeOK /\ WriterOpen /\ Life /\ [Next]_vars => Life'
<1> SUFFICES ASSUME TypeOK, WriterOpen, Life, [Next]_vars PROVE Life'
  OBVIOUS
<1> USE DEF Life, Early, Goto, Return, Publish, Silent, job, dialVars, tickVars, loopVars, storeVars
<1>1. CASE StartDownload \/ Cancel \/ SetRunning
  BY <1>1 DEF StartDownload, Cancel, SetRunning
<1>2. CASE Loading \/ OpenTorrent \/ Listen \/ Discover
  BY <1>2 DEF Loading, OpenTorrent, Listen, Discover
<1>3. CASE DiscoverPeers \/ OpenWriter
  BY <1>3 DEF DiscoverPeers, OpenWriter
<1>4. CASE LoadExistingState
  BY <1>4 DEF LoadExistingState
<1>5. CASE AlreadyComplete \/ StartDialers \/ Connected \/ BeginLoop
  BY <1>5 DEF AlreadyComplete, StartDialers, Connected, BeginLoop
<1>6. CASE \E p \in Pieces : Worker(p)
  <2>1. ASSUME NEW p \in Pieces, AcceptPiece(p) PROVE Life'
    <3>1. pc \notin Early \cup {"resumed", "connect", "begin", "release", "report", "ended"}
      BY <2>1 DEF AcceptPiece, WriterOpen
    <3> QED BY <2>1, <3>1 DEF AcceptPiece
  <2>2. ASSUME NEW p \in Pieces, MarkComplete(p) PROVE Life'
    BY <2>2 DEF MarkComplete
  <2> QED BY <1>6, <2>1, <2>2 DEF Worker
<1>7. CASE LoopReturns
  BY <1>7 DEF LoopReturns, WriterOpen
<1>8. CASE SetComplete \/ PublishComplete
  BY <1>8 DEF SetComplete, PublishComplete, WriterOpen
<1>9. CASE CloseClients \/ StopWriter \/ CloseWriter \/ CloseListener
  BY <1>9 DEF CloseClients, StopWriter, CloseWriter, CloseListener, Flushed
<1>10. CASE Report
  BY <1>10 DEF Report, Outcome
<1>11. CASE \E d \in Dialers : Dialer(d)
  BY <1>11 DEF Dialer, TakePeer, CheckLimit, Dial, AppendClient
<1>12. CASE Tick
  BY <1>12 DEF Tick
<1>13. CASE WritePiece
  BY <1>13 DEF WritePiece
<1>14. CASE Crash
  BY <1>14 DEF Crash
<1>15. CASE UNCHANGED vars
  BY <1>15 DEF vars
<1> QED
  BY <1>1, <1>2, <1>3, <1>4, <1>5, <1>6, <1>7, <1>8, <1>9, <1>10, <1>11, <1>12, <1>13, <1>14, <1>15
  DEF Next, Main

\* The steps of the session that are none of the job.
LEMMA SilentSteps ==
    ASSUME [Next]_vars, ~StartDownload, ~Cancel, ~SetRunning, ~LoadExistingState,
           \A p \in Pieces : ~MarkComplete(p), ~WritePiece, ~Report, ~Crash
    PROVE  /\ UNCHANGED <<jobState, ctxDone, completed, disk, writeError>>
           /\ pc = "ended" <=> pc' = "ended"
<1> USE DEF Goto, Return, Publish, Silent, job, storeVars
<1>1. CASE Loading \/ OpenTorrent \/ Listen \/ Discover \/ DiscoverPeers \/ OpenWriter
  BY <1>1 DEF Loading, OpenTorrent, Listen, Discover, DiscoverPeers, OpenWriter
<1>2. CASE AlreadyComplete \/ StartDialers \/ Connected \/ BeginLoop
  BY <1>2 DEF AlreadyComplete, StartDialers, Connected, BeginLoop
<1>3. CASE LoopReturns \/ SetComplete \/ PublishComplete
  BY <1>3 DEF LoopReturns, SetComplete, PublishComplete
<1>4. CASE CloseClients \/ StopWriter \/ CloseWriter \/ CloseListener
  BY <1>4 DEF CloseClients, StopWriter, CloseWriter, CloseListener
<1>5. CASE \E d \in Dialers : Dialer(d)
  BY <1>5 DEF Dialer, TakePeer, CheckLimit, Dial, AppendClient
<1>6. CASE Tick
  BY <1>6 DEF Tick
<1>7. CASE \E p \in Pieces : AcceptPiece(p)
  BY <1>7 DEF AcceptPiece
<1>8. CASE UNCHANGED vars
  BY <1>8 DEF vars
<1> QED
  BY <1>1, <1>2, <1>3, <1>4, <1>5, <1>6, <1>7, <1>8 DEF Next, Main, Worker

\* Every step of the session is a step of the job or none.
LEMMA JobStep ==
    TypeOK /\ Truth /\ Stored /\ Life /\ [Next]_vars => [Job!Next]_(Job!jobVars)
<1> SUFFICES ASSUME TypeOK, Truth, Stored, Life, [Next]_vars
             PROVE  Job!Next \/ UNCHANGED Job!jobVars
  OBVIOUS
<1> USE DEF Goto, Return, Publish, Silent, job, storeVars
<1>1. CASE StartDownload
  <2>1. /\ Seen = "none" /\ Seen' = "active" /\ pc # "ended" /\ pc' # "ended"
        /\ UNCHANGED <<ctxDone, completed, disk, writeError>>
    BY <1>1 DEF StartDownload, Life, Seen
  <2> QED
    BY <2>1 DEF Job!Next, Job!Submit
<1>2. CASE Cancel
  <2>1. /\ Seen # "none" /\ Seen' = "cancelled" /\ ctxDone' = TRUE
        /\ UNCHANGED <<pc, completed, disk, writeError>>
    BY <1>2 DEF Cancel, TypeOK, Seen
  <2> QED
    BY <2>1 DEF Job!Next, Job!Cancel
<1>3. CASE SetRunning
  <2>1. /\ Seen \in {"active", "cancelled"} /\ Seen' = "active" /\ pc # "ended" /\ pc' # "ended"
        /\ UNCHANGED <<ctxDone, completed, disk, writeError>>
    BY <1>3 DEF SetRunning, Life, Seen
  <2> QED
    BY <2>1 DEF Job!Next, Job!Begin
<1>4. CASE LoadExistingState
  <2>1. /\ Seen # "none" /\ Seen' = Seen /\ pc # "ended" /\ pc' # "ended"
        /\ completed = {} /\ completed' \in SUBSET disk
        /\ UNCHANGED <<ctxDone, disk, writeError>>
    BY <1>4 DEF LoadExistingState, Verified, TypeOK, Life, Early, Seen
  <2> QED
    BY <2>1 DEF Job!Next, Job!Resume
<1>5. ASSUME NEW p \in Pieces, MarkComplete(p) PROVE Job!Next
  <2>1. pc # "none" /\ pc \notin Early
    BY <1>5 DEF MarkComplete, Life, Early
  <2>2. /\ Seen # "none" /\ Seen' = Seen
        /\ completed' = completed \cup {p}
        /\ UNCHANGED <<pc, ctxDone, disk, writeError>>
    BY <1>5, <2>1 DEF MarkComplete, TypeOK, Life, Seen
  <2>3. pc = "ended" => p \in disk \/ writeError
    BY <1>5 DEF MarkComplete, Life, Stored, Kept
  <2> QED
    BY <2>2, <2>3 DEF Job!Next, Job!Finish
<1>6. CASE WritePiece
  <2>1. PICK p \in cached :
           \/ disk' = disk \cup {p} /\ UNCHANGED writeError
           \/ writeError' = TRUE /\ UNCHANGED disk
    BY <1>6 DEF WritePiece
  <2>2. p \in Pieces
    BY <2>1 DEF TypeOK
  <2>3. /\ ~writeError /\ pc # "none" /\ pc # "ended"
        /\ UNCHANGED <<pc, jobState, ctxDone, completed>>
    BY <1>6, <2>1 DEF WritePiece, Life, Early
  <2>4. Seen # "none" /\ Seen' = Seen
    BY <2>3 DEF TypeOK, Life, Seen
  <2>5. CASE disk' = disk \cup {p} /\ UNCHANGED writeError
    BY <2>2, <2>3, <2>4, <2>5 DEF Job!Next, Job!Persist
  <2>6. CASE writeError' = TRUE /\ UNCHANGED disk
    BY <2>3, <2>4, <2>6 DEF Job!Next, Job!Break
  <2> QED
    BY <2>1, <2>5, <2>6
<1>7. CASE Report
  <2>1. completed \subseteq disk \/ writeError
    BY <1>7 DEF Report, Life, Stored, Kept
  <2>2. /\ Seen # "none" /\ pc # "ended" /\ pc' = "ended"
        /\ UNCHANGED <<ctxDone, completed, disk, writeError>>
    BY <1>7 DEF Report, TypeOK, Life, Seen
  <2>3. \/ Seen' = "complete" /\ completed = Pieces
        \/ Seen' = "cancelled" /\ ctxDone
        \/ Seen' = "failed" /\ ~ctxDone
    BY <1>7 DEF Report, Outcome, TypeOK, Truth, Closing, Seen
  <2> QED
    BY <2>1, <2>2, <2>3 DEF Job!Next, Job!Settle
<1>8. CASE Crash
  <2>1. /\ Seen # "none" /\ Seen' = "none" /\ pc' # "ended"
        /\ ctxDone' = FALSE /\ completed' = {} /\ writeError' = FALSE /\ UNCHANGED disk
    BY <1>8 DEF Crash, TypeOK, Life, Seen
  <2> QED
    BY <2>1 DEF Job!Next, Job!Crash
<1>9. CASE ~(\/ StartDownload \/ Cancel \/ SetRunning \/ LoadExistingState \/ WritePiece
             \/ Report \/ Crash \/ \E p \in Pieces : MarkComplete(p))
  BY <1>9, SilentSteps DEF Job!jobVars, Seen
<1> QED
  BY <1>1, <1>2, <1>3, <1>4, <1>5, <1>6, <1>7, <1>8, <1>9

\* The session implements DownloadJob for every torrent, every number of peers
\* and dialers and any number of crashes: a job settles once and truthfully,
\* with what it counts in the file, what a late worker counts afterwards is in the
\* file too, and the next run starts from the file only.
THEOREM SessionRefinesJob == Spec => RefinesJob
<1>1. Init => Job!Init
  BY DEF Init, Job!Init, Seen
<1>2. Init => TypeOK /\ Truth /\ Stored /\ Life
  BY InitTypes, InitStored, InitLife DEF Init, Truth, Early, Closing
<1>3. TypeOK /\ Stored /\ Life /\ [Next]_vars => Life'
  BY LifeStep DEF Stored
<1> QED
  BY <1>1, <1>2, <1>3, JobStep, TruthStep, StoredStep, SessionTypes, PTL
     DEF Spec, RefinesJob, Job!Spec
=============================================================================
