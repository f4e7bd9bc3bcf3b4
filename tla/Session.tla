------------------------------- MODULE Session -------------------------------
(***************************************************************************)
(* One download job from the HTTP request to its result, across crashes of *)
(* the process: startDownload and JobStore of internal/api/server.go,      *)
(* Download and connectPeers of internal/session/session.go, LoadExisting- *)
(* State of internal/piece/manager.go.                                     *)
(*                                                                         *)
(* DownloadLoop is used through what Workers and Scheduler show of it (its *)
(* workers hand pieces to the writer and mark them complete; it returns    *)
(* nil if all are complete, or an error, or hangs; and a worker that came  *)
(* too late to be joined outlives it), the writer through what DiskWriter  *)
(* shows (accepted pieces are written later, a failed write is final,      *)
(* Close takes no more pieces and waits for both).                         *)
(***************************************************************************)
EXTENDS Naturals, FiniteSets

CONSTANTS Pieces, Peers,          \* of the torrent; that the trackers know
          Dialers,                \* goroutines of connectPeers, 20 in the code
          MaxActiveConnections,
          Unclosed,               \* peers a dial of which leaves a connection open
          NoPeer

ASSUME SessionAssumption ==
    /\ Pieces # {} /\ IsFiniteSet(Peers) /\ NoPeer \notin Peers
    /\ MaxActiveConnections \in Nat /\ Unclosed \subseteq Peers

VARIABLES jobState,   \* job.State, "absent" without a job
          jobPhase,   \* job.Status.Phase
          ctxDone,    \* the job was cancelled
          pc,         \* the job's goroutine
          status,     \* Phase of the local variable status of Download
          err,        \* what Download returns
          features,   \* req.EnableDHT, req.EnablePEX
          held,       \* the listener, DHT node and writer it has open
          peerChan,   \* peers no dialer has taken
          dialer,     \* what each dialer is doing
          dialing,    \*   and with which peer
          clients,    \* connected peers,
          conns,      \*   and the connections dialers made and have not closed
          abandoned,  \* connections a dial left open without a client
          ticker,     \* the goroutine that publishes progress
          next,       \*   and the status it is publishing
          workers,    \* workers of DownloadLoop may be running
          accepted,   \* pieces the writer took from a worker that has yet to mark them
          completed,  \* pm.Completed
          cached,     \* accepted by the writer, not written
          disk,       \* pieces that verify in the output file
          writeError  \* the writer's sticky error

job       == <<jobState, jobPhase, ctxDone>>
dialVars  == <<peerChan, dialer, dialing, clients, conns, abandoned>>
tickVars  == <<ticker, next>>
loopVars  == <<workers, accepted>>
storeVars == <<completed, cached, disk, writeError>>
vars == <<job, pc, status, err, features, held, dialVars, tickVars, loopVars, storeVars>>

Phases == {"queued", "loading", "dht", "discovering", "connecting", "downloading", "complete"}

Init ==
    /\ jobState = "absent" /\ jobPhase = "none" /\ ctxDone = FALSE
    /\ pc = "none" /\ status = "loading" /\ err = "nil" /\ features = {} /\ held = {}
    /\ peerChan = {} /\ dialer = [d \in Dialers |-> "off"]
    /\ dialing = [d \in Dialers |-> NoPeer] /\ clients = {} /\ conns = {}
    /\ abandoned = {} /\ workers = FALSE /\ accepted = {}
    /\ ticker = "off" /\ next = "loading"
    /\ completed = {} /\ cached = {} /\ writeError = FALSE
    /\ disk = {}

-----------------------------------------------------------------------------
(* The job store.  Each action is one critical section of JobStore.mu. *)

\* POST /api/downloads: Put, then the goroutine is started.
StartDownload ==
    /\ pc = "none" /\ pc' = "spawned"
    /\ jobState' = "queued"
    /\ features' \in SUBSET {"DHT", "PEX"}
    /\ UNCHANGED <<jobPhase, ctxDone, status, err, held, dialVars, tickVars, loopVars, storeVars>>

\* DELETE /api/downloads/{id}, in whatever state the job is.
Cancel ==
    /\ jobState # "absent"
    /\ ctxDone' = TRUE
    /\ jobState' = "cancelled" /\ jobPhase' = "cancelled"
    /\ UNCHANGED <<pc, status, err, features, held, dialVars, tickVars, loopVars, storeVars>>

\* The first Update of the goroutine does not look at the state it replaces.
SetRunning ==
    /\ pc = "spawned" /\ pc' = "loading"
    /\ jobState' = "running" /\ jobPhase' = "queued"
    /\ UNCHANGED <<ctxDone, status, err, features, held, dialVars, tickVars, loopVars, storeVars>>

Outcome ==
    IF err = "nil" THEN "complete" ELSE IF ctxDone THEN "cancelled" ELSE "failed"

\* Mutant of Report: a cancelled job is left as Cancel set it.
ReportUnlessCancelled ==
    /\ pc = "report" /\ pc' = "ended"
    /\ jobState' = IF ctxDone THEN jobState ELSE Outcome
    /\ jobPhase' = IF err = "nil" \/ ctxDone THEN jobPhase ELSE Outcome
    /\ UNCHANGED <<ctxDone, status, err, features, held, dialVars, tickVars, loopVars, storeVars>>

\* The last Update: cancelled or failed is decided inside it.
Report ==
    /\ pc = "report" /\ pc' = "ended"
    /\ jobState' = Outcome
    /\ jobPhase' = IF err = "nil" THEN jobPhase ELSE Outcome
    /\ UNCHANGED <<ctxDone, status, err, features, held, dialVars, tickVars, loopVars, storeVars>>

-----------------------------------------------------------------------------
(* Download.  An action does some work and publishes a status. *)

Publish(phase) == status' = phase /\ jobPhase' = phase /\ UNCHANGED <<jobState, ctxDone>>
Silent         == UNCHANGED <<status, job>>

\* Download returns: its deferred calls are next.
Return(result) == err' = result /\ pc' = "close"
Goto(label)    == pc' = label /\ UNCHANGED err

Loading ==
    /\ pc = "loading" /\ Goto("open")
    /\ Publish("loading")
    /\ UNCHANGED <<features, held, dialVars, tickVars, loopVars, storeVars>>

OpenTorrent ==
    /\ pc = "open"
    /\ \/ Return("error") /\ Silent
       \/ Goto("listen") /\ Publish("loading")
    /\ UNCHANGED <<features, held, dialVars, tickVars, loopVars, storeVars>>

\* The port may be taken, and openDHTNode may give no node.
Listen ==
    /\ pc = "listen" /\ Goto("discover")
    /\ \E opened \in SUBSET ({"listener"} \cup (features \cap {"DHT"})) :
          /\ held' = opened
          /\ IF "DHT" \in opened THEN Publish("dht") ELSE Silent
    /\ UNCHANGED <<features, dialVars, tickVars, loopVars, storeVars>>

Discover ==
    /\ pc = "discover" /\ Goto("peers")
    /\ Publish("discovering")
    /\ UNCHANGED <<features, held, dialVars, tickVars, loopVars, storeVars>>

NoWayIn(usable) == usable = {} /\ "listener" \notin held /\ "DHT" \notin features

DiscoverPeers ==
    /\ pc = "peers"
    /\ peerChan' \in SUBSET Peers
    /\ Publish("discovering")
    /\ IF NoWayIn(peerChan') THEN Return("error") ELSE Goto("start")
    /\ UNCHANGED <<features, held, dialer, dialing, clients, conns, abandoned,
                   tickVars, loopVars, storeVars>>

\* OnStarted hands the manager to the job; the file may not open.
OpenWriter ==
    /\ pc = "start"
    /\ \/ Return("error") /\ UNCHANGED held
       \/ Goto("resume") /\ held' = held \cup {"writer"}
    /\ Silent
    /\ UNCHANGED <<features, dialVars, tickVars, loopVars, storeVars>>

\* Mutant of Verified: what the file says it has is taken for a piece.
VerifiedBlindly(found) == found \subseteq Pieces

\* The scan may stop at an error; what it marked complete verified.
Verified(found) == found \subseteq disk

LoadExistingState ==
    /\ pc = "resume" /\ Goto("resumed")
    /\ \E found \in SUBSET Pieces : Verified(found) /\ completed' = found
    /\ Publish("connecting")
    /\ UNCHANGED <<features, held, dialVars, tickVars, loopVars, cached, disk, writeError>>

AlreadyComplete ==
    /\ pc = "resumed" /\ completed = Pieces
    /\ Publish("complete") /\ Return("nil")
    /\ UNCHANGED <<features, held, dialVars, tickVars, loopVars, storeVars>>

StartDialers ==
    /\ pc = "resumed" /\ completed # Pieces
    /\ Goto("connect") /\ Silent
    /\ dialer' = [d \in Dialers |-> "take"]
    /\ UNCHANGED <<features, held, peerChan, dialing, clients, conns, abandoned,
                   tickVars, loopVars, storeVars>>

\* wg.Wait of connectPeers; the channel goes with it, and what dialers left in it.
Connected ==
    /\ pc = "connect" /\ \A d \in Dialers : dialer[d] = "off"
    /\ Publish("connecting")
    /\ IF NoWayIn(clients) /\ "PEX" \notin features THEN Return("error") ELSE Goto("begin")
    /\ peerChan' = {}
    /\ UNCHANGED <<features, held, dialer, dialing, clients, conns, abandoned,
                   tickVars, loopVars, storeVars>>

BeginLoop ==
    /\ pc = "begin" /\ Goto("loop")
    /\ Publish("downloading")
    /\ ticker' = "wait" /\ workers' = TRUE
    /\ UNCHANGED <<features, held, dialVars, next, accepted, storeVars>>

\* Mutant of LoopIsDone: a cancelled loop has nothing to report.
LoopIsDoneOrCancelled == completed = Pieces \/ ctxDone

LoopIsDone == completed = Pieces

\* An inbound or a PEX client that comes late gets a worker nobody waits for.
LateWorkers == "listener" \in held \/ "PEX" \in features

\* DownloadLoop returns nil or an error, for a cancellation, a write that failed, a
\* piece given up or a swarm that left: even with the last piece done, which may
\* have been given up by another worker, or completed by a late one.
LoopReturns ==
    /\ pc = "loop" /\ (accepted = {} \/ LateWorkers)
    /\ \/ LoopIsDone /\ Goto("finish")
       \/ Return("error")
    /\ workers' = LateWorkers
    /\ Silent
    /\ UNCHANGED <<features, held, dialVars, tickVars, accepted, storeVars>>

\* The ticker is told to stop, not waited for: status is shared with it.
SetComplete ==
    /\ pc = "finish" /\ Goto("publish")
    /\ status' = "complete"
    /\ UNCHANGED <<job, features, held, dialVars, tickVars, loopVars, storeVars>>

PublishComplete ==
    /\ pc = "publish" /\ Return("nil")
    /\ Publish(status)
    /\ UNCHANGED <<features, held, dialVars, tickVars, loopVars, storeVars>>

-----------------------------------------------------------------------------
(* The deferred calls of Download, last one first. *)

CloseClients ==
    /\ pc = "close" /\ Goto("flush")
    /\ conns' = conns \ clients /\ clients' = {}
    /\ Silent
    /\ UNCHANGED <<features, held, peerChan, dialer, dialing, abandoned, tickVars,
                   loopVars, storeVars>>

\* Close of the writer: from now on WritePiece refuses;
StopWriter ==
    /\ pc = "flush" /\ Goto("drain")
    /\ Silent
    /\ UNCHANGED <<features, held, dialVars, tickVars, loopVars, storeVars>>

\* Mutant of Flushed: Close does not wait for the writer's goroutine.
FlushedSoon == TRUE

Flushed == cached = {} \/ writeError

\* it waits for what was accepted.  The error it returns is dropped.
CloseWriter ==
    /\ pc = "drain" /\ Goto("release")
    /\ "writer" \in held => Flushed
    /\ held' = held \ {"writer"}
    /\ Silent
    /\ UNCHANGED <<features, dialVars, tickVars, loopVars, storeVars>>

CloseListener ==
    /\ pc = "release" /\ Goto("report")
    /\ held' = {}
    /\ Silent
    /\ UNCHANGED <<features, dialVars, tickVars, loopVars, storeVars>>

Main ==
    \/ SetRunning \/ Loading \/ OpenTorrent \/ Listen \/ Discover \/ DiscoverPeers
    \/ OpenWriter \/ LoadExistingState \/ AlreadyComplete \/ StartDialers \/ Connected
    \/ BeginLoop \/ LoopReturns \/ SetComplete \/ PublishComplete
    \/ CloseClients \/ StopWriter \/ CloseWriter \/ CloseListener \/ Report

-----------------------------------------------------------------------------
(* The workers of DownloadLoop. *)

\* WritePiece takes a verified piece, as long as the writer is open.  It looks at
\* the writer's error before the send, so the write may have failed by now.
AcceptPiece(p) ==
    /\ workers /\ "writer" \in held /\ pc # "drain"
    /\ p \in Pieces \ (completed \cup accepted)
    /\ cached' = cached \cup {p} /\ accepted' = accepted \cup {p}
    /\ UNCHANGED <<job, pc, status, err, features, held, dialVars, tickVars, workers,
                   completed, disk, writeError>>

\* Then the worker marks it; the writer may have written it before.
MarkComplete(p) ==
    /\ p \in accepted
    /\ accepted' = accepted \ {p} /\ completed' = completed \cup {p}
    /\ UNCHANGED <<job, pc, status, err, features, held, dialVars, tickVars, workers,
                   cached, disk, writeError>>

Worker(p) == AcceptPiece(p) \/ MarkComplete(p)

-----------------------------------------------------------------------------
(* The dialers of connectPeers. *)

\* The select of a dialer; with a peer and a cancellation it may take either.
TakePeer(d) ==
    /\ dialer[d] = "take"
    /\ \/ /\ ctxDone \/ peerChan = {}
          /\ dialer' = [dialer EXCEPT ![d] = "off"] /\ UNCHANGED <<peerChan, dialing>>
       \/ \E p \in peerChan :
             /\ peerChan' = peerChan \ {p}
             /\ dialing' = [dialing EXCEPT ![d] = p]
             /\ dialer' = [dialer EXCEPT ![d] = "check"]
    /\ UNCHANGED <<job, pc, status, err, features, held, clients, conns, abandoned,
                   tickVars, loopVars, storeVars>>

Full == Cardinality(clients) >= MaxActiveConnections

\* Mutant of CheckLimit: a dialer that is not needed waits.
CheckLimitWaiting(d) ==
    /\ dialer[d] = "check" /\ ~Full
    /\ dialer' = [dialer EXCEPT ![d] = "dial"]
    /\ UNCHANGED <<job, pc, status, err, features, held, peerChan, dialing, clients, conns,
                   abandoned, tickVars, loopVars, storeVars>>

\* The first check: a dialer that finds enough clients ends, with its peer.
CheckLimit(d) ==
    /\ dialer[d] = "check"
    /\ dialer' = [dialer EXCEPT ![d] = IF Full THEN "off" ELSE "dial"]
    /\ dialing' = [dialing EXCEPT ![d] = IF Full THEN NoPeer ELSE @]
    /\ UNCHANGED <<job, pc, status, err, features, held, peerChan, clients, conns,
                   abandoned, tickVars, loopVars, storeVars>>

\* Dial, handshake, bitfield and interest, which need not end: each message before
\* the bitfield renews the deadline, or PEX contacts block on a nil channel.  A
\* handshake that does not verify leaves its connection open, be it that of an
\* encrypted attempt before a plain one that gives a client.
Dial(d) ==
    /\ dialer[d] = "dial"
    /\ abandoned' = abandoned \cup ({dialing[d]} \cap Unclosed)
    /\ \/ /\ dialer' = [dialer EXCEPT ![d] = "take"]
          /\ dialing' = [dialing EXCEPT ![d] = NoPeer] /\ UNCHANGED conns
       \/ /\ dialer' = [dialer EXCEPT ![d] = "append"]
          /\ conns' = conns \cup {dialing[d]} /\ UNCHANGED dialing
    /\ UNCHANGED <<job, pc, status, err, features, held, peerChan, clients,
                   tickVars, loopVars, storeVars>>

\* Mutant of AppendClient: a client that is not needed is forgotten.
AppendOrForget(d) ==
    /\ dialer[d] = "append"
    /\ dialer' = [dialer EXCEPT ![d] = "take"] /\ dialing' = [dialing EXCEPT ![d] = NoPeer]
    /\ \/ ~Full /\ clients' = clients \cup {dialing[d]} /\ Publish(status)
       \/ Full /\ UNCHANGED <<clients, status, job>>
    /\ UNCHANGED <<conns, abandoned, pc, err, features, held, peerChan, tickVars, loopVars,
                   storeVars>>

\* The second check: the other dialers did not wait for this one's handshake.
AppendClient(d) ==
    /\ dialer[d] = "append"
    /\ dialer' = [dialer EXCEPT ![d] = "take"] /\ dialing' = [dialing EXCEPT ![d] = NoPeer]
    /\ \/ ~Full /\ clients' = clients \cup {dialing[d]} /\ Publish(status) /\ UNCHANGED conns
       \/ Full /\ conns' = conns \ {dialing[d]} /\ UNCHANGED <<clients, status, job>>
    /\ UNCHANGED <<abandoned, pc, err, features, held, peerChan, tickVars, loopVars, storeVars>>

Dialer(d) == TakePeer(d) \/ CheckLimit(d) \/ Dial(d) \/ AppendClient(d)

-----------------------------------------------------------------------------
(* The ticker, the writer's goroutine, the machine. *)

\* publish of the ticker: status is copied, written back and put in the job.
\* Nothing but the first step looks at the context, and a tick that is due may
\* be preferred to it.
Tick ==
    /\ \/ ticker = "wait"  /\ ticker' = "copied" /\ next' = status /\ UNCHANGED <<status, job>>
       \/ ticker = "wait"  /\ (ctxDone \/ pc # "loop")
                           /\ ticker' = "off" /\ UNCHANGED <<next, status, job>>
       \/ ticker = "copied" /\ ticker' = "back" /\ status' = next /\ UNCHANGED <<next, job>>
       \/ ticker = "back"  /\ ticker' = "wait" /\ Publish(next) /\ UNCHANGED next
    /\ UNCHANGED <<pc, err, features, held, dialVars, loopVars, storeVars>>

\* flush: one WriteAt, which may fail for good.
WritePiece ==
    /\ ~writeError
    /\ \E p \in cached :
          \/ cached' = cached \ {p} /\ disk' = disk \cup {p} /\ UNCHANGED writeError
          \/ writeError' = TRUE /\ UNCHANGED <<cached, disk>>
    /\ UNCHANGED <<job, pc, status, err, features, held, dialVars, tickVars, loopVars, completed>>

\* The process is killed: what is in the output file remains.
Crash ==
    /\ pc # "none"
    /\ jobState' = "absent" /\ jobPhase' = "none" /\ ctxDone' = FALSE
    /\ pc' = "none" /\ status' = "loading" /\ err' = "nil" /\ features' = {} /\ held' = {}
    /\ peerChan' = {} /\ dialer' = [d \in Dialers |-> "off"]
    /\ dialing' = [d \in Dialers |-> NoPeer] /\ clients' = {} /\ conns' = {}
    /\ abandoned' = {} /\ workers' = FALSE /\ accepted' = {}
    /\ ticker' = "off" /\ next' = "loading"
    /\ completed' = {} /\ cached' = {} /\ writeError' = FALSE
    /\ UNCHANGED disk

Next ==
    \/ StartDownload \/ Cancel \/ Main
    \/ \E d \in Dialers : Dialer(d)
    \/ \E p \in Pieces : Worker(p)
    \/ Tick \/ WritePiece \/ Crash

Spec == Init /\ [][Next]_vars

\* Goroutines run; a dial need not end, nor does DownloadLoop (Returns of Scheduler).
LiveSpec == /\ Spec /\ WF_vars(pc # "loop" /\ Main) /\ WF_vars(WritePiece)
            /\ \A d \in Dialers : WF_vars(dialer[d] # "dial" /\ Dialer(d))

-----------------------------------------------------------------------------
(* Properties *)

Labels == {"none", "spawned", "loading", "open", "listen", "discover", "peers", "start",
           "resume", "resumed", "connect", "begin", "loop", "finish", "publish",
           "close", "flush", "drain", "release", "report", "ended"}

TypeOK ==
    /\ jobState \in {"absent", "queued", "running", "complete", "failed", "cancelled"}
    /\ jobPhase \in Phases \cup {"none", "failed", "cancelled"}
    /\ ctxDone \in BOOLEAN
    /\ pc \in Labels /\ status \in Phases /\ err \in {"nil", "error"}
    /\ features \subseteq {"DHT", "PEX"} /\ held \subseteq {"listener", "DHT", "writer"}
    /\ peerChan \subseteq Peers /\ clients \subseteq Peers /\ conns \subseteq Peers
    /\ dialer \in [Dialers -> {"off", "take", "check", "dial", "append"}]
    /\ dialing \in [Dialers -> Peers \cup {NoPeer}]
    /\ \A d \in Dialers : dialer[d] \in {"check", "dial", "append"} => dialing[d] \in Peers
    /\ ticker \in {"off", "wait", "copied", "back"} /\ next \in Phases
    /\ abandoned \subseteq Peers /\ workers \in BOOLEAN /\ accepted \subseteq Pieces
    /\ completed \subseteq Pieces /\ cached \subseteq Pieces /\ disk \subseteq Pieces
    /\ writeError \in BOOLEAN

\* A job is never shown as complete, in its state or its phase, while a piece
\* is missing: not by a cancelled or failed download, not by a stale status of
\* the ticker (session.go:323 and :337, server.go:279).
CompleteIsTrue ==
    jobState = "complete" \/ jobPhase = "complete" => completed = Pieces

\* A job whose state is "complete" is on disk, unless a write failed: its state
\* is set after the deferred Close drained the writer (session.go:253 before
\* server.go:279), although its phase is not.
CompleteIsDurable ==
    jobState = "complete" => disk = Pieces \/ writeError

\* A job that is shown as complete has flushed its pieces to the file
\* (docs/SiddTorrent_Architecture_and_Math.md:263); refuted, since the error of
\* the deferred Close is dropped (session.go:253).
CompleteIsFlushed == jobState = "complete" => disk = Pieces

\* A piece counted as done is in the file or on its way there, unless a write
\* failed; so what a resumed download skips survived the crash
\* (manager.go:123 against disk/writer.go:137).
DoneIsStored ==
    completed \subseteq disk \cup cached \/ writeError

\* However Cancel interleaves with the goroutine's updates, even when its first
\* one makes a cancelled job run again: a job that ended has a final state, a
\* cancelled job is not one that failed, and a failed one was not cancelled
\* (server.go:229, :265-279, :360).
OutcomeRight ==
    pc = "ended" =>
        /\ jobState \in {"complete", "failed", "cancelled"}
        /\ jobState = "failed" => ~ctxDone
        /\ jobState = "cancelled" => ctxDone

\* Dialers that connect at the same time keep no more clients than allowed
\* (session.go:430).
WithinLimit == Cardinality(clients) <= MaxActiveConnections

\* jobState, as the promise sees it: queued and running jobs are active.
Seen == CASE jobState = "absent" -> "none"
          [] jobState \in {"queued", "running"} -> "active"
          [] OTHER -> jobState

\* The job keeps the promises of DownloadJob, however the request, a
\* cancellation, the ticker, the writer and a crash interleave: it settles once,
\* truthfully, after the writer's cache is in the file, and what a crash leaves
\* is all the next run starts from (server.go:229, :265-279 and :360,
\* session.go:253, manager.go:123).
Job == INSTANCE DownloadJob
       WITH state <- Seen, settled <- pc = "ended", asked <- ctxDone,
            done <- completed, durable <- disk, broken <- writeError

RefinesJob == Job!Spec

\* When the job is reported, every connection that connecting gave a dialer was
\* closed, kept as client or not (session.go:287 and :436); the connection of a
\* handshake that did not verify is not (peer.go:227).
NoConnectionLeft == pc \in {"report", "ended"} => conns = {}

\* The goroutine waits for a dial or for DownloadLoop, which need not end.
Hangs == pc = "loop" \/ \E d \in Dialers : dialer[d] = "dial"

\* A job that was submitted ends, or the process does, unless it hangs: the other
\* dialers end, and Close returns (session.go:444 and :253).
EveryJobEnds == (jobState = "queued" ~> pc \in {"ended", "none"}) \/ <>[]Hangs
=============================================================================
