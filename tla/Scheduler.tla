------------------------------ MODULE Scheduler ------------------------------
(***************************************************************************)
(* The life of a download's goroutines: internal/piece/scheduler.go        *)
(* (StartScheduler), the sends of internal/peer/pex.go into its peerChan   *)
(* and the error a worker ends with.                                       *)
(*                                                                         *)
(* StartScheduler starts a worker per dialled client, accepts inbound      *)
(* clients and PEX contacts while it runs, waits for completion,           *)
(* cancellation or the end of all workers, closes the connections, joins   *)
(* the workers and turns the errors they queued into its result.  What a   *)
(* worker does in between is module Workers; here it only polls for a      *)
(* piece, fetches it, gossips and ends.                                    *)
(***************************************************************************)
EXTENDS Naturals, Sequences, FiniteSets

CONSTANTS Conns,      \* connections
          Clients,    \* those dialled before the scheduler starts
          Incoming,   \* those that arrive on IncomingClients; the rest are PEX
          Addrs,      \* addresses, "host:port"
          Addr,       \* the remote address of a connection
          ErrCap,     \* capacity of errCh (100)
          PeerCap,    \* capacity of peerChan (100)
          DialSlots,  \* capacity of pexSem (5)
          MaxAdded,   \* bound: addresses in one PEX message
          NoAddr      \* no address

ASSUME SchedulerAssumption ==
    /\ IsFiniteSet(Conns)
    /\ Clients \subseteq Conns
    /\ Incoming \subseteq Conns \ Clients
    /\ Addr \in [Conns -> Addrs]
    /\ NoAddr \notin Addrs
    /\ \A c, d \in Clients : Addr[c] = Addr[d] => c = d   \* peers are deduplicated
    /\ ErrCap \in Nat \ {0} /\ PeerCap \in Nat \ {0} /\ DialSlots \in Nat \ {0}
    /\ MaxAdded \in Nat

VARIABLES pc,          \* where the goroutine of each connection is
          gossip,      \* addresses its worker still has to send to peerChan
          reported,    \* the error its worker ended with
          activeClients,
          peerPool,    \* addresses seen so far
          peerChan,
          dialing,     \* the address the PEX dialer waits to dial, or NoAddr
          dialer,      \* the PEX dialer goroutine runs
          closed,      \* connections closed by the scheduler
          errCh,
          errClosed,   \* errCh is closed
          panicked,    \* a goroutine sent on the closed errCh
          left,        \* a piece is pending or in progress (Stats)
          complete,    \* all pieces are in pm.Completed,
          failed,      \*   some in pm.PermanentlyFailed
          completeChan,
          cancelled,   \* ctx is done
          doneCh,      \* closed when the first wg.Wait returned
          sched,       \* control state of StartScheduler
          lastErr,     \* the errors it drained hold one that is not a connection's
          result

connVars == <<pc, gossip, reported, activeClients>>
pexVars  == <<peerPool, peerChan, dialing, dialer>>
errVars  == <<errCh, errClosed, panicked>>
pmVars   == <<left, complete, failed>>
endVars  == <<completeChan, cancelled>>
mainVars == <<closed, doneCh, sched, lastErr, result>>
vars     == <<connVars, pexVars, errVars, pmVars, endVars, mainVars>>

Pex == Conns \ (Clients \cup Incoming)

Working == {"polling", "fetching", "pex", "check", "report", "end"}

\* The connections counted by wg, between wg.Add and wg.Done: those with a
\* worker, and those that have just left activeClients.
Counted == {c \in Conns : pc[c] \in Working \cup {"leaving"}}

IsComplete == complete /\ ~failed

Dialing == {c \in Conns : pc[c] = "dialing"}

Init ==
    /\ pc = [c \in Conns |-> IF c \in Clients THEN "polling" ELSE "absent"]
    /\ gossip = [c \in Conns |-> 0]
    /\ reported = [c \in Conns |-> "none"]
    /\ activeClients = Clients
    /\ peerPool = {Addr[c] : c \in Clients}
    /\ peerChan = <<>>
    /\ dialing = NoAddr
    /\ dialer = TRUE
    /\ closed = {}
    /\ errCh = <<>>
    /\ errClosed = FALSE
    /\ panicked = FALSE
    /\ left = TRUE
    /\ complete = FALSE
    /\ failed = FALSE
    /\ completeChan = FALSE
    /\ cancelled = FALSE
    /\ doneCh = FALSE
    /\ sched = "select"
    /\ lastErr = FALSE
    /\ result = "none"

Goto(c, from, to) == pc[c] = from /\ pc' = [pc EXCEPT ![c] = to]

-----------------------------------------------------------------------------
(* How a connection becomes a worker. *)

\* Mutant of Accept: an inbound client is not checked against peerPool.
AcceptAny(c) ==
    /\ c \in Incoming
    /\ Goto(c, "absent", "handshake")
    /\ peerPool' = peerPool \cup {Addr[c]}
    /\ UNCHANGED <<gossip, reported, activeClients, peerChan, dialing, dialer,
                   errVars, pmVars, endVars, mainVars>>

\* The listener takes an inbound client unless its address is known.  Its
\* select may still pick a client once ctx is done or the scheduler returned.
Accept(c) ==
    /\ c \in Incoming
    /\ Goto(c, "absent", IF Addr[c] \in peerPool THEN "dropped" ELSE "handshake")
    /\ peerPool' = peerPool \cup {Addr[c]}
    /\ UNCHANGED <<gossip, reported, activeClients, peerChan, dialing, dialer,
                   errVars, pmVars, endVars, mainVars>>

\* ReadBitField and SendInterested, in a goroutine nobody waits for.  It need
\* not end: each message renews the deadline, and PEX contacts that come before
\* the bitfield are sent to a channel that is nil until startPeerWorker.
Handshake(c) ==
    /\ Goto(c, "handshake", "joining") \/ Goto(c, "handshake", "dropped")
    /\ UNCHANGED <<gossip, reported, activeClients, pexVars, errVars, pmVars, endVars,
                   mainVars>>

\* The dialer takes an address that is new, then waits for one of pexSem.
TakeAddress ==
    /\ dialer /\ dialing = NoAddr /\ peerChan # <<>>
    /\ peerChan' = Tail(peerChan)
    /\ dialing' = IF Head(peerChan) \in peerPool THEN NoAddr ELSE Head(peerChan)
    /\ peerPool' = peerPool \cup {Head(peerChan)}
    /\ UNCHANGED <<connVars, dialer, errVars, pmVars, endVars, mainVars>>

AcquireSlot(c) ==
    /\ dialer /\ dialing = Addr[c] /\ c \in Pex
    /\ Cardinality(Dialing) < DialSlots
    /\ Goto(c, "absent", "dialing")
    /\ dialing' = NoAddr
    /\ UNCHANGED <<gossip, reported, activeClients, peerPool, peerChan, dialer,
                   errVars, pmVars, endVars, mainVars>>

DialerStops ==
    /\ dialer /\ (cancelled \/ sched = "returned")
    /\ dialer' = FALSE
    /\ dialing' = NoAddr
    /\ UNCHANGED <<connVars, peerPool, peerChan, errVars, pmVars, endVars, mainVars>>

\* The dial fails, or it ends in a client that is dropped if ctx is done.  Like
\* Handshake it need not end, and keeps its slot until it does.
DialEnds(c) ==
    /\ \/ ~cancelled /\ Goto(c, "dialing", "joining")
       \/ Goto(c, "dialing", "dropped")
    /\ UNCHANGED <<gossip, reported, activeClients, pexVars, errVars, pmVars, endVars,
                   mainVars>>

\* startPeerWorker enters the client, then counts it and starts its goroutine.
startPeerWorker(c) ==
    /\ Goto(c, "joining", "adding")
    /\ activeClients' = activeClients \cup {c}
    /\ UNCHANGED <<gossip, reported, pexVars, errVars, pmVars, endVars, mainVars>>

AddWorker(c) ==
    /\ Goto(c, "adding", "polling")
    /\ UNCHANGED <<gossip, reported, activeClients, pexVars, errVars, pmVars, endVars,
                   mainVars>>

-----------------------------------------------------------------------------
(* How a worker fetches, gossips and ends. *)

\* The top of its loop: ctx is not done and NextPiece has something for it.  With
\* nothing for it, it waits there while a piece is left.
TakesPiece(c) ==
    /\ Goto(c, "polling", "fetching")
    /\ ~cancelled /\ left
    /\ UNCHANGED <<gossip, reported, activeClients, pexVars, errVars, pmVars, endVars,
                   mainVars>>

\* StartWorker returns nil: Stats counts nothing.
NothingToDo(c) ==
    /\ Goto(c, "polling", "end")
    /\ ~left
    /\ UNCHANGED <<gossip, reported, activeClients, pexVars, errVars, pmVars, endVars,
                   mainVars>>

\* It returns ctx.Err(), which is not reported.
SeesCancelled(c) ==
    /\ Goto(c, "polling", "end")
    /\ cancelled
    /\ UNCHANGED <<gossip, reported, activeClients, pexVars, errVars, pmVars, endVars,
                   mainVars>>

\* A PEX message arrives: each address in it is sent to peerChan.
HandleExtended(c) ==
    /\ Goto(c, "fetching", "pex") /\ c \notin closed
    /\ \E n \in 1 .. MaxAdded : gossip' = [gossip EXCEPT ![c] = n]
    /\ UNCHANGED <<reported, activeClients, pexVars, errVars, pmVars, endVars, mainVars>>

\* The send blocks while peerChan is full, whatever happens to the connection.
SendAddress(c) ==
    /\ Goto(c, "pex", IF gossip[c] = 1 THEN "fetching" ELSE "pex")
    /\ Len(peerChan) < PeerCap
    /\ \E d \in Pex : peerChan' = Append(peerChan, Addr[d])
    /\ gossip' = [gossip EXCEPT ![c] = @ - 1]
    /\ UNCHANGED <<reported, activeClients, peerPool, dialing, dialer,
                   errVars, pmVars, endVars, mainVars>>

\* Its piece goes back to Pending, into Completed or to PermanentlyFailed.  No
\* piece is lost (NoPieceLost of Workers_proof): what is not left is one of these.
\* What other workers do to the same piece may come in between.
PieceEnds(stored, givenUp) ==
    /\ complete' \in {complete, complete \/ stored}
    /\ failed' = (failed \/ givenUp)
    /\ left' \in BOOLEAN /\ (left' \/ complete' \/ failed')
    /\ UNCHANGED <<gossip, activeClients, pexVars, errVars, endVars, mainVars>>

\* The piece is given back or retried.
Retries(c) ==
    /\ Goto(c, "fetching", "polling")
    /\ PieceEnds(FALSE, FALSE)
    /\ UNCHANGED reported

Stores(c) ==
    /\ Goto(c, "fetching", "check")
    /\ PieceEnds(TRUE, FALSE)
    /\ UNCHANGED reported

CheckComplete(c) ==
    /\ Goto(c, "check", IF IsComplete THEN "end" ELSE "polling")
    /\ completeChan' = (completeChan \/ IsComplete)
    /\ UNCHANGED <<gossip, reported, activeClients, pexVars, errVars, pmVars, cancelled,
                   mainVars>>

EndsWith(c, err) ==
    /\ Goto(c, "fetching", "report")
    /\ reported' = [reported EXCEPT ![c] = err]

\* It returns the connection's error; the ban of its peer, for a piece that may
\* still be retried; or the end of a piece.
LosesPeer(c) == EndsWith(c, "connection") /\ PieceEnds(FALSE, FALSE)

BansPeer(c) == EndsWith(c, "fatal") /\ PieceEnds(FALSE, FALSE)

GivesUp(c) == EndsWith(c, "fatal") /\ PieceEnds(FALSE, TRUE)

\* errCh <- err: it waits while the channel is full, and panics if it is closed.
Report(c) ==
    /\ Goto(c, "report", "end")
    /\ \/ /\ ~errClosed /\ Len(errCh) < ErrCap
          /\ errCh' = Append(errCh, reported[c])
          /\ UNCHANGED panicked
       \/ /\ errClosed
          /\ panicked' = TRUE
          /\ UNCHANGED errCh
    /\ UNCHANGED <<gossip, reported, activeClients, pexVars, errClosed, pmVars, endVars,
                   mainVars>>

\* The deferred function: leave activeClients, then wg.Done.
Leave(c) ==
    /\ Goto(c, "end", "leaving")
    /\ activeClients' = activeClients \ {c}
    /\ UNCHANGED <<gossip, reported, pexVars, errVars, pmVars, endVars, mainVars>>

Finish(c) ==
    /\ Goto(c, "leaving", "gone")
    /\ UNCHANGED <<gossip, reported, activeClients, pexVars, errVars, pmVars, endVars,
                   mainVars>>

-----------------------------------------------------------------------------
(* StartScheduler, after it has started its goroutines. *)

Cancel ==
    /\ ~cancelled
    /\ cancelled' = TRUE
    /\ UNCHANGED <<connVars, pexVars, errVars, pmVars, completeChan, mainVars>>

\* The goroutine that closes doneCh after its wg.Wait.
AllDone ==
    /\ Counted = {} /\ ~doneCh
    /\ doneCh' = TRUE
    /\ UNCHANGED <<connVars, pexVars, errVars, pmVars, endVars, closed, sched, lastErr,
                   result>>

Step(from, to) ==
    /\ sched = from /\ sched' = to
    /\ UNCHANGED <<connVars, pexVars, pmVars, endVars, panicked, doneCh>>

\* The select: any ready case may be taken.
SelectDone ==
    /\ Step("select", "drain") /\ doneCh
    /\ UNCHANGED <<errCh, errClosed, closed, lastErr, result>>

CloseAll ==
    /\ Step("select", "join") /\ (completeChan \/ cancelled)
    /\ closed' = activeClients
    /\ UNCHANGED <<errCh, errClosed, lastErr, result>>

\* Mutants of Join: wg counts the PEX dialer too, which runs until the
\* scheduler returns; the workers are not joined.
JoinWithDialer ==
    /\ Step("join", "drain") /\ Counted = {} /\ ~dialer
    /\ UNCHANGED <<errCh, errClosed, closed, lastErr, result>>

JoinNobody ==
    /\ Step("join", "drain")
    /\ UNCHANGED <<errCh, errClosed, closed, lastErr, result>>

Join ==
    /\ Step("join", "drain") /\ Counted = {}
    /\ UNCHANGED <<errCh, errClosed, closed, lastErr, result>>

\* close(errCh), and the last error in it that is not a connection's.
Drain ==
    /\ Step("drain", "decide")
    /\ errClosed' = TRUE /\ errCh' = <<>>
    /\ lastErr' = (\E i \in DOMAIN errCh : errCh[i] = "fatal")
    /\ UNCHANGED <<closed, result>>

\* Mutant of Decide: a cancelled download has no other result.
DecideCancelledFirst ==
    /\ Step("decide", IF IsComplete /\ ~cancelled THEN "returned" ELSE "blame")
    /\ result' = IF IsComplete /\ ~cancelled THEN "nil" ELSE result
    /\ UNCHANGED <<errCh, errClosed, closed, lastErr>>

\* Completion comes before everything else,
Decide ==
    /\ Step("decide", IF IsComplete THEN "returned" ELSE "blame")
    /\ result' = IF IsComplete THEN "nil" ELSE result
    /\ UNCHANGED <<errCh, errClosed, closed, lastErr>>

\* and cancellation before the errors.
Blame ==
    /\ Step("blame", "returned")
    /\ result' = IF cancelled THEN "cancelled"
                 ELSE IF lastErr THEN "stopped" ELSE "noProgress"
    /\ UNCHANGED <<errCh, errClosed, closed, lastErr>>

-----------------------------------------------------------------------------
Starts(c) ==
    Accept(c) \/ Handshake(c) \/ DialEnds(c) \/ startPeerWorker(c) \/ AddWorker(c)

FetchEnds(c) ==
    Retries(c) \/ Stores(c) \/ LosesPeer(c) \/ BansPeer(c) \/ GivesUp(c)

Works(c) ==
    \/ TakesPiece(c) \/ NothingToDo(c) \/ SeesCancelled(c)
    \/ HandleExtended(c) \/ SendAddress(c) \/ FetchEnds(c) \/ CheckComplete(c)
    \/ Report(c) \/ Leave(c) \/ Finish(c)

Dialer == TakeAddress \/ DialerStops \/ \E c \in Conns : AcquireSlot(c)

Main == SelectDone \/ CloseAll \/ Join \/ Drain \/ Decide \/ Blame

Next ==
    \/ \E c \in Conns : Starts(c) \/ Works(c)
    \/ Dialer \/ Cancel \/ AllDone \/ Main

Spec == Init /\ [][Next]_vars

\* The Go runtime schedules every goroutine.  No handshake, no dial and no fetch
\* has to end, but on a closed connection: a call of DownloadPiece that begins
\* after the close fails.  A worker that polls sees ctx and the end of all pieces,
\* and nothing else.  No PEX message has to arrive.
Fairness ==
    /\ WF_vars(Dialer) /\ WF_vars(AllDone) /\ WF_vars(Main)
    /\ \A c \in Conns :
          /\ WF_vars(startPeerWorker(c)) /\ WF_vars(AddWorker(c))
          /\ WF_vars(NothingToDo(c)) /\ WF_vars(SeesCancelled(c))
          /\ WF_vars(SendAddress(c)) /\ WF_vars(CheckComplete(c))
          /\ SF_vars(c \in closed /\ LosesPeer(c))
          /\ WF_vars(Report(c)) /\ WF_vars(Leave(c)) /\ WF_vars(Finish(c))

LiveSpec == Spec /\ Fairness

-----------------------------------------------------------------------------
(* Safety. *)

States == {"absent", "handshake", "dialing", "dropped", "joining", "adding", "polling",
           "fetching", "pex", "check", "report", "end", "leaving", "gone"}
Errors == {"connection", "fatal"}

\* Types; a connection is in activeClients from before wg counts it until before
\* it is counted off, and only gossip needs addresses.
TypeOK ==
    /\ pc \in [Conns -> States]
    /\ gossip \in [Conns -> 0 .. MaxAdded]
    /\ \A c \in Conns : gossip[c] > 0 <=> pc[c] = "pex"
    /\ reported \in [Conns -> Errors \cup {"none"}]
    /\ \A c \in Conns : pc[c] = "report" => reported[c] \in Errors
    /\ activeClients = {c \in Conns : pc[c] \in Working \cup {"adding"}}
    /\ peerPool \subseteq Addrs
    /\ peerChan \in Seq(Addrs) /\ Len(peerChan) <= PeerCap
    /\ dialing \in Addrs \cup {NoAddr}
    /\ closed \subseteq Conns
    /\ errCh \in Seq(Errors) /\ Len(errCh) <= ErrCap
    /\ dialer \in BOOLEAN /\ errClosed \in BOOLEAN /\ panicked \in BOOLEAN
    /\ left \in BOOLEAN /\ complete \in BOOLEAN /\ failed \in BOOLEAN
    /\ completeChan \in BOOLEAN /\ cancelled \in BOOLEAN /\ doneCh \in BOOLEAN
    /\ lastErr \in BOOLEAN
    /\ sched \in {"select", "join", "drain", "decide", "blame", "returned"}
    /\ result \in {"none", "nil", "cancelled", "stopped", "noProgress"}

Known == {c \in Conns : pc[c] \notin {"absent", "dropped", "gone"}}

\* However inbound clients and gossip race for peerPool, there is one
\* connection per address.
OneConnectionPerAddress ==
    \A c, d \in Known : Addr[c] = Addr[d] => c = d

\* PEX never has more dials under way than pexSem has slots, and only the
\* dialer waits for one.
DialsBounded == Cardinality(Dialing) <= DialSlots

\* Someone who was not dialled before the scheduler started got a worker.
CameLater == \E c \in Conns \ Clients : pc[c] \in Working \cup {"leaving", "gone"}

\* However completion, cancellation, errors and late workers race: nil means that
\* every piece is completed and none given up; a complete download is reported as
\* an error only if a piece was given up besides (a piece fetched twice may be
\* both) or if a late worker completed it after IsComplete was read; a cause is
\* given only if a worker reported it, and the cause a worker of an initial client
\* reported is never passed over (scheduler.go:295-312, worker.go:92, :98).
ResultRight ==
    [][result' # result =>
         /\ result' = "nil" => complete /\ ~failed
         /\ result' # "nil" => ~complete \/ failed \/ CameLater
         /\ result' = "stopped" => \E c \in Conns : reported[c] = "fatal"
         /\ result' = "noProgress" => \A c \in Clients : reported[c] # "fatal"]_vars

\* The workers of the clients the scheduler started with have all ended when it
\* drains errCh; a worker that sends on the closed errCh came in later.
ClientsJoined ==
    /\ sched \in {"drain", "decide", "blame", "returned"} => Clients \cap Counted = {}
    /\ panicked => \E c \in Conns \ Clients : reported[c] # "none"

-----------------------------------------------------------------------------
(* Liveness. *)

\* Nobody reads peerChan: the dialer is gone, or waits for a slot while every
\* dial that has one may go on for ever.
Unread == ~dialer \/ (dialing # NoAddr /\ Cardinality(Dialing) >= DialSlots)

\* A worker the join may wait for in vain: it sends gossip to a full peerChan
\* nobody reads; it came too late for its connection to be closed; or it polls,
\* which only ctx ends, while a piece of a complete download is still pending.
Stuck(c) ==
    \/ pc[c] = "pex" /\ Len(peerChan) = PeerCap /\ Unread
    \/ pc[c] \in {"fetching", "pex", "check"} /\ c \notin Clients \cup closed
    \/ pc[c] = "polling" /\ complete /\ left /\ ~cancelled

\* StartScheduler returns once the download is complete or cancelled, while errCh
\* has room, unless it waits for such a worker for ever (scheduler.go:284, :292).
ReturnsUnlessStuck ==
    \/ completeChan \/ cancelled ~> sched = "returned"
    \/ <>[](sched = "join" /\ \E c \in Conns : Stuck(c))

\* SiddTorrent_Architecture_and_Math.md:263: on cancellation all connections are
\* closed, and wg.Wait() joins all workers.
Returns == cancelled ~> sched = "returned"
=============================================================================
