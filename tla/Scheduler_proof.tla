--------------------------- MODULE Scheduler_proof ---------------------------
(***************************************************************************)
(* Proofs about Scheduler, for any number of connections and any channel   *)
(* capacities.                                                             *)
(***************************************************************************)
EXTENDS Scheduler, TLAPS, FiniteSetTheorems

-----------------------------------------------------------------------------
(* What the steps leave alone. *)

\* The steps of a connection that change nothing but its own control state, its
\* gossip to come and its place in activeClients.
Moves(c) ==
    \/ Handshake(c) \/ DialEnds(c) \/ startPeerWorker(c) \/ AddWorker(c)
    \/ TakesPiece(c) \/ NothingToDo(c) \/ SeesCancelled(c) \/ HandleExtended(c)
    \/ Leave(c) \/ Finish(c)

\* One disjunct for each way a step changes the state.
LEMMA NextCases ==
    [Next]_vars =>
        \/ \E c \in Conns : Moves(c) \/ Accept(c) \/ AcquireSlot(c) \/ SendAddress(c)
                            \/ FetchEnds(c) \/ CheckComplete(c) \/ Report(c)
        \/ TakeAddress \/ DialerStops \/ Cancel \/ AllDone \/ Main
        \/ UNCHANGED vars
  BY DEF Next, Starts, Works, Dialer, Moves

\* A connection that moves goes from one known state to a later one.
LEMMA MovesFrame ==
    ASSUME NEW c \in Conns, Moves(c), pc \in [Conns -> States]
    PROVE  /\ UNCHANGED <<reported, pexVars, errVars, pmVars, endVars, mainVars>>
           /\ pc' \in [Conns -> States] /\ \A d \in Conns \ {c} : pc'[d] = pc[d]
           /\ pc[c] \notin {"absent", "gone", "report"}
           /\ pc'[c] \notin {"absent", "dialing", "report", "check"}
           /\ pc[c] \in Working \cup {"leaving", "gone"}
                => pc'[c] \in Working \cup {"leaving", "gone"}
           /\ pc[c] \in {"end", "leaving"} => pc'[c] \in {"leaving", "gone"}
           /\ pc'[c] \in {"leaving", "gone"} => pc[c] \in {"end", "leaving"}
<1> USE DEF Goto, Working, States, connVars
<1>1. CASE Handshake(c) \/ DialEnds(c) \/ startPeerWorker(c) \/ AddWorker(c)
  BY <1>1 DEF Handshake, DialEnds, startPeerWorker, AddWorker
<1>2. CASE TakesPiece(c) \/ NothingToDo(c) \/ SeesCancelled(c) \/ HandleExtended(c)
  BY <1>2 DEF TakesPiece, NothingToDo, SeesCancelled, HandleExtended
<1>3. CASE Leave(c) \/ Finish(c)
  BY <1>3 DEF Leave, Finish
<1> QED
  BY <1>1, <1>2, <1>3 DEF Moves

\* A fetch that ends takes one worker on, and may end its piece.
LEMMA FetchEndsFrame ==
    ASSUME NEW c \in Conns, FetchEnds(c), pc \in [Conns -> States],
           complete \in BOOLEAN, failed \in BOOLEAN
    PROVE  /\ UNCHANGED <<gossip, activeClients, pexVars, errVars, endVars, mainVars>>
           /\ pc[c] = "fetching" /\ pc' = [pc EXCEPT ![c] = pc'[c]]
           /\ pc'[c] \in {"polling", "check", "report"}
           /\ left' \in BOOLEAN /\ complete' \in BOOLEAN /\ failed' \in BOOLEAN
           /\ complete => complete'
           /\ failed => failed'
           /\ \/ pc'[c] # "report" /\ reported' = reported
              \/ pc'[c] = "report" /\ \E err \in Errors : reported' = [reported EXCEPT ![c] = err]
<1> USE DEF Goto, States, Errors, PieceEnds
<1>1. CASE Retries(c) \/ Stores(c)
  BY <1>1 DEF Retries, Stores
<1>2. CASE LosesPeer(c) \/ BansPeer(c) \/ GivesUp(c)
  BY <1>2 DEF LosesPeer, BansPeer, GivesUp, EndsWith
<1> QED
  BY <1>1, <1>2 DEF FetchEnds

\* The scheduler's own steps touch no connection and no piece.
LEMMA MainFrame ==
    ASSUME TakeAddress \/ DialerStops \/ Cancel \/ AllDone \/ Main
    PROVE  UNCHANGED <<connVars, pmVars, completeChan, panicked>>
  BY DEF TakeAddress, DialerStops, Cancel, AllDone, Main, Step, SelectDone, CloseAll,
         Join, Drain, Decide, Blame, connVars, pmVars, errVars, endVars, mainVars

-----------------------------------------------------------------------------
(* Types. *)

Flags ==
    /\ dialer \in BOOLEAN /\ errClosed \in BOOLEAN /\ panicked \in BOOLEAN
    /\ left \in BOOLEAN /\ complete \in BOOLEAN /\ failed \in BOOLEAN
    /\ completeChan \in BOOLEAN /\ cancelled \in BOOLEAN /\ doneCh \in BOOLEAN
    /\ lastErr \in BOOLEAN

Data ==
    /\ pc \in [Conns -> States]
    /\ gossip \in [Conns -> 0 .. MaxAdded]
    /\ \A c \in Conns : gossip[c] > 0 <=> pc[c] = "pex"
    /\ reported \in [Conns -> Errors \cup {"none"}]
    /\ \A c \in Conns : pc[c] = "report" => reported[c] \in Errors
    /\ activeClients = {c \in Conns : pc[c] \in Working \cup {"adding"}}
    /\ peerPool \subseteq Addrs
    /\ peerChan \in Seq(Addrs) /\ Len(peerChan) <= PeerCap
    /\ dialing \in Addrs \cup {NoAddr}
    /\ closed \subseteq Conns
    /\ errCh \in Seq(Errors) /\ Len(errCh) <= ErrCap
    /\ sched \in {"select", "join", "drain", "decide", "blame", "returned"}
    /\ result \in {"none", "nil", "cancelled", "stopped", "noProgress"}

LEMMA TypeParts == (TypeOK <=> Flags /\ Data) /\ (TypeOK' <=> Flags' /\ Data')
  BY DEF TypeOK, Flags, Data

\* The initial states are well typed.
LEMMA TypeInit == Init => TypeOK
<1> SUFFICES ASSUME Init PROVE TypeOK
  OBVIOUS
<1> USE SchedulerAssumption DEF Init
<1>1. /\ gossip \in [Conns -> 0 .. MaxAdded]
      /\ \A c \in Conns : gossip[c] > 0 <=> pc[c] = "pex"
  OBVIOUS
<1>2. /\ peerPool \subseteq Addrs
      /\ activeClients = {c \in Conns : pc[c] \in Working \cup {"adding"}}
  BY DEF Working
<1>3. peerChan \in Seq(Addrs) /\ errCh \in Seq(Errors)
  OBVIOUS
<1>4. /\ pc \in [Conns -> States] /\ reported \in [Conns -> Errors \cup {"none"}]
      /\ \A c \in Conns : pc[c] = "report" => reported[c] \in Errors
  BY DEF States
<1>5. Flags
  BY DEF Flags
<1>6. /\ Len(peerChan) <= PeerCap /\ Len(errCh) <= ErrCap /\ dialing \in Addrs \cup {NoAddr}
      /\ closed \subseteq Conns /\ sched = "select" /\ result = "none"
  OBVIOUS
<1> QED
  BY <1>1, <1>2, <1>3, <1>4, <1>5, <1>6, TypeParts DEF Data

\* Flags are only ever copied, set to a constant or to a truth value.
LEMMA FlagsStep == Flags /\ Data /\ [Next]_vars => Flags'
<1> SUFFICES ASSUME Flags, Data, [Next]_vars PROVE Flags'
  OBVIOUS
<1> USE DEF connVars, pexVars, errVars, pmVars, endVars, mainVars
<1>0. pc \in [Conns -> States]
  BY DEF Data
<1>1. ASSUME NEW c \in Conns, Moves(c) PROVE Flags'
  BY <1>0, <1>1, MovesFrame DEF Flags
<1>2. ASSUME NEW c \in Conns, Accept(c) \/ AcquireSlot(c) \/ SendAddress(c) PROVE Flags'
  BY <1>2 DEF Accept, AcquireSlot, SendAddress, Flags
<1>3. ASSUME NEW c \in Conns, FetchEnds(c) PROVE Flags'
  BY <1>0, <1>3, FetchEndsFrame DEF Flags
<1>4. ASSUME NEW c \in Conns, CheckComplete(c) PROVE Flags'
  <2>1. completeChan' \in BOOLEAN
    BY <1>4, Zenon DEF CheckComplete, Flags, IsComplete
  <2> QED
    BY <1>4, <2>1 DEF CheckComplete, Flags
<1>5. ASSUME NEW c \in Conns, Report(c) PROVE Flags'
  BY <1>5, Zenon DEF Report, Flags
<1>6. CASE TakeAddress \/ DialerStops \/ Cancel \/ AllDone
  BY <1>6, Zenon DEF TakeAddress, DialerStops, Cancel, AllDone, Flags
<1>7. CASE Main
  <2>1. CASE SelectDone \/ CloseAll \/ Join \/ Decide \/ Blame
    BY <2>1 DEF SelectDone, CloseAll, Join, Decide, Blame, Step, Flags
  <2>2. CASE Drain
    <3>1. lastErr' \in BOOLEAN
      BY <2>2, Zenon DEF Drain
    <3> QED
      BY <2>2, <3>1 DEF Drain, Step, Flags
  <2> QED
    BY <1>7, <2>1, <2>2 DEF Main
<1>8. CASE UNCHANGED vars
  BY <1>8 DEF vars, Flags
<1> QED
  BY <1>1, <1>2, <1>3, <1>4, <1>5, <1>6, <1>7, <1>8, NextCases

\* Every step keeps the types; activeClients follows the control states.
LEMMA DataStep == Flags /\ Data /\ [Next]_vars => Data'
<1> SUFFICES ASSUME Flags, Data, [Next]_vars PROVE Data'
  OBVIOUS
<1> USE SchedulerAssumption DEF Data, Working, Goto, connVars, pexVars, errVars, pmVars,
        endVars, mainVars, Pex
<1>1. ASSUME NEW c \in Conns, Accept(c) PROVE Data'
  BY <1>1 DEF Accept, States
<1>2. ASSUME NEW c \in Conns, Handshake(c) \/ DialEnds(c) PROVE Data'
  BY <1>2 DEF Handshake, DialEnds, States
<1>3. ASSUME NEW c \in Conns, startPeerWorker(c) \/ AddWorker(c) PROVE Data'
  <2>1. CASE startPeerWorker(c)
    BY <2>1 DEF startPeerWorker, States
  <2>2. CASE AddWorker(c)
    BY <2>2 DEF AddWorker, States
  <2> QED
    BY <1>3, <2>1, <2>2
<1>4. ASSUME NEW c \in Conns, TakesPiece(c) \/ NothingToDo(c) \/ SeesCancelled(c) PROVE Data'
  BY <1>4 DEF TakesPiece, NothingToDo, SeesCancelled, States
<1>5. ASSUME NEW c \in Conns, HandleExtended(c) PROVE Data'
  BY <1>5 DEF HandleExtended, States
<1>6. ASSUME NEW c \in Conns, SendAddress(c) PROVE Data'
  <2> USE <1>6 DEF SendAddress
  <2>1. PICK d \in Conns : peerChan' = Append(peerChan, Addr[d])
    OBVIOUS
  <2>2. peerChan' \in Seq(Addrs) /\ Len(peerChan') <= PeerCap
    BY <2>1
  <2>3. /\ gossip[c] \in 1 .. MaxAdded /\ gossip' = [gossip EXCEPT ![c] = gossip[c] - 1]
        /\ gossip'[c] > 0 <=> gossip[c] # 1
    OBVIOUS
  <2>4. /\ gossip' \in [Conns -> 0 .. MaxAdded]
        /\ \A e \in Conns : gossip'[e] > 0 <=> pc'[e] = "pex"
    BY <2>3
  <2>5. /\ pc' \in [Conns -> States]
        /\ activeClients' = {e \in Conns : pc'[e] \in Working \cup {"adding"}}
        /\ \A e \in Conns : pc'[e] = "report" => reported'[e] \in Errors
    BY DEF States
  <2> QED
    BY <2>2, <2>4, <2>5
<1>7. ASSUME NEW c \in Conns, FetchEnds(c) PROVE Data'
  <2> USE <1>7, FetchEndsFrame DEF Flags
  <2>1. /\ pc' \in [Conns -> States]
        /\ \A e \in Conns : gossip'[e] > 0 <=> pc'[e] = "pex"
    BY DEF States
  <2>3. \A e \in Conns : pc[e] \in Working \cup {"adding"} <=> pc'[e] \in Working \cup {"adding"}
    OBVIOUS
  <2>4. activeClients' = {e \in Conns : pc'[e] \in Working \cup {"adding"}}
    BY <2>3
  <2>2. /\ reported' \in [Conns -> Errors \cup {"none"}]
        /\ \A e \in Conns : pc'[e] = "report" => reported'[e] \in Errors
    OBVIOUS
  <2> QED
    BY <2>1, <2>2, <2>4
<1>8. ASSUME NEW c \in Conns, CheckComplete(c) PROVE Data'
  BY <1>8 DEF CheckComplete, States
<1>9. ASSUME NEW c \in Conns, Report(c) PROVE Data'
  <2>1. /\ pc' \in [Conns -> States]
        /\ activeClients' = {e \in Conns : pc'[e] \in Working \cup {"adding"}}
        /\ \A e \in Conns : gossip'[e] > 0 <=> pc'[e] = "pex"
    BY <1>9 DEF Report, States
  <2>2. errCh' \in Seq(Errors) /\ Len(errCh') <= ErrCap
    <3>1. reported[c] \in Errors
      BY <1>9 DEF Report
    <3>2. CASE errCh' = Append(errCh, reported[c]) /\ Len(errCh) < ErrCap
      BY <3>1, <3>2
    <3>3. CASE UNCHANGED errCh
      BY <3>3
    <3> QED
      BY <1>9, <3>2, <3>3 DEF Report
  <2> QED
    BY <1>9, <2>1, <2>2 DEF Report
<1>10. ASSUME NEW c \in Conns, Leave(c) \/ Finish(c) PROVE Data'
  BY <1>10 DEF Leave, Finish, States
<1>11. ASSUME NEW c \in Conns, AcquireSlot(c) PROVE Data'
  BY <1>11 DEF AcquireSlot, States
<1>12. CASE TakeAddress
  <2> USE <1>12 DEF TakeAddress
  <2>1. /\ Head(peerChan) \in Addrs /\ Tail(peerChan) \in Seq(Addrs)
        /\ Len(Tail(peerChan)) <= PeerCap
    OBVIOUS
  <2> QED
    BY <2>1
<1>13. CASE DialerStops \/ Cancel \/ AllDone
  BY <1>13 DEF DialerStops, Cancel, AllDone
<1>14. CASE Main
  <2>1. CASE SelectDone \/ CloseAll \/ Join
    BY <2>1 DEF SelectDone, CloseAll, Join, Step
  <2>2. CASE Drain
    <3>1. errCh' \in Seq(Errors) /\ Len(errCh') <= ErrCap
      BY <2>2 DEF Drain
    <3> QED
      BY <2>2, <3>1 DEF Drain, Step
  <2>3. CASE Decide
    BY <2>3 DEF Decide, Step
  <2>4. CASE Blame
    BY <2>4 DEF Blame, Step
  <2> QED
    BY <1>14, <2>1, <2>2, <2>3, <2>4 DEF Main
<1>15. CASE UNCHANGED vars
  BY <1>15 DEF vars
<1> QED
  BY <1>1, <1>2, <1>3, <1>4, <1>5, <1>6, <1>7, <1>8, <1>9, <1>10, <1>11, <1>12, <1>13,
     <1>14, <1>15, NextCases DEF Moves

\* Every step keeps the type invariant.
LEMMA TypeStep == TypeOK /\ [Next]_vars => TypeOK'
  BY TypeParts, FlagsStep, DataStep

-----------------------------------------------------------------------------
(* One connection per address. *)

\* Every connection that is under way has its address in peerPool, the dialer
\* waits for an address of which there is none, and no two share one.
Fresh ==
    /\ \A c \in Known : Addr[c] \in peerPool
    /\ dialing # NoAddr => dialing \in peerPool /\ \A c \in Known : Addr[c] # dialing
    /\ OneConnectionPerAddress

\* The clients the scheduler starts with have distinct addresses.
LEMMA FreshInit == Init => Fresh
  BY SchedulerAssumption DEF Init, Fresh, Known, OneConnectionPerAddress

\* A step after which no more connections are under way, and no more awaited.
LEMMA FreshKept ==
    ASSUME Fresh, Known' \subseteq Known, UNCHANGED peerPool, dialing' \in {dialing, NoAddr}
    PROVE  Fresh'
  BY DEF Fresh, OneConnectionPerAddress

\* Accept and the dialer take an address only once.
LEMMA FreshStep == TypeOK /\ Fresh /\ [Next]_vars => Fresh'
<1> SUFFICES ASSUME TypeOK, Fresh, [Next]_vars PROVE Fresh'
  OBVIOUS
<1> USE SchedulerAssumption DEF Goto, connVars, pexVars, errVars, pmVars, endVars, mainVars
<1>1. /\ pc \in [Conns -> States] /\ peerChan \in Seq(Addrs)
      /\ complete \in BOOLEAN /\ failed \in BOOLEAN
  BY DEF TypeOK
<1>2. ASSUME NEW c \in Conns, Accept(c) PROVE Fresh'
  <2>1. CASE Addr[c] \in peerPool
    BY <1>1, <1>2, <2>1 DEF Accept, Fresh, Known, OneConnectionPerAddress
  <2>2. CASE Addr[c] \notin peerPool
    BY <1>1, <1>2, <2>2 DEF Accept, Fresh, Known, OneConnectionPerAddress
  <2> QED
    BY <2>1, <2>2
<1>3. ASSUME NEW c \in Conns, Moves(c) PROVE Fresh'
  <2>1. Known' \subseteq Known
    <3>1. pc[c] # "dropped"
      BY <1>3 DEF Moves, Handshake, DialEnds, startPeerWorker, AddWorker, TakesPiece,
                  NothingToDo, SeesCancelled, HandleExtended, Leave, Finish
    <3> QED
      BY <1>1, <1>3, <3>1, MovesFrame DEF Known
  <2> QED
    BY <1>1, <1>3, <2>1, MovesFrame, FreshKept
<1>4. ASSUME NEW c \in Conns, FetchEnds(c) PROVE Fresh'
  <2>1. Known' \subseteq Known
    BY <1>1, <1>4, FetchEndsFrame DEF Known
  <2> QED
    BY <1>1, <1>4, <2>1, FetchEndsFrame, FreshKept
<1>5. ASSUME NEW c \in Conns, SendAddress(c) \/ CheckComplete(c) \/ Report(c) PROVE Fresh'
  <2>1. Known' \subseteq Known
    BY <1>1, <1>5 DEF SendAddress, CheckComplete, Report, Known
  <2> QED
    BY <1>5, <2>1, FreshKept DEF SendAddress, CheckComplete, Report
<1>6. ASSUME NEW c \in Conns, AcquireSlot(c) PROVE Fresh'
  BY <1>1, <1>6 DEF AcquireSlot, Fresh, Known, OneConnectionPerAddress
<1>7. CASE TakeAddress
  <2>1. Head(peerChan) \in Addrs
    BY <1>1, <1>7 DEF TakeAddress
  <2> QED
    BY <1>1, <1>7, <2>1 DEF TakeAddress, Fresh, Known, OneConnectionPerAddress
<1>8. CASE DialerStops \/ Cancel \/ AllDone \/ Main
  <2>1. UNCHANGED <<pc, peerPool>> /\ dialing' \in {dialing, NoAddr}
    BY <1>8 DEF DialerStops, Cancel, AllDone, Main, Step, SelectDone, CloseAll, Join,
                Drain, Decide, Blame
  <2> QED
    BY <2>1, FreshKept DEF Known
<1>9. CASE UNCHANGED vars
  BY <1>9, FreshKept DEF vars, Known
<1> QED
  BY <1>2, <1>3, <1>4, <1>5, <1>6, <1>7, <1>8, <1>9, NextCases

-----------------------------------------------------------------------------
(* The dials under way. *)

\* Only AcquireSlot adds a dial, and it finds a free slot.
LEMMA DialsStep == TypeOK /\ DialsBounded /\ [Next]_vars => DialsBounded'
<1> SUFFICES ASSUME TypeOK, DialsBounded, [Next]_vars PROVE DialsBounded'
  OBVIOUS
<1> USE SchedulerAssumption DEF Goto
<1>1. /\ pc \in [Conns -> States]
      /\ IsFiniteSet(Dialing) /\ Cardinality(Dialing) \in Nat
      /\ complete \in BOOLEAN /\ failed \in BOOLEAN
  BY FS_Subset, FS_CardinalityType DEF TypeOK, Dialing
<1>2. Dialing' \subseteq Dialing => DialsBounded'
  BY <1>1, FS_Subset, FS_CardinalityType DEF DialsBounded
<1>3. ASSUME NEW c \in Conns, AcquireSlot(c) PROVE DialsBounded'
  <2>1. Dialing' = Dialing \cup {c} /\ c \notin Dialing
    BY <1>1, <1>3 DEF AcquireSlot, Dialing
  <2>2. Cardinality(Dialing') = Cardinality(Dialing) + 1
    BY <1>1, <2>1, FS_AddElement
  <2> QED
    BY <1>1, <1>3, <2>2 DEF AcquireSlot, DialsBounded
<1>4. ASSUME NEW c \in Conns, Moves(c) PROVE Dialing' \subseteq Dialing
  BY <1>1, <1>4, MovesFrame DEF Dialing
<1>5. ASSUME NEW c \in Conns, FetchEnds(c) PROVE Dialing' \subseteq Dialing
  BY <1>1, <1>5, FetchEndsFrame DEF Dialing
<1>6. ASSUME NEW c \in Conns, Accept(c) \/ SendAddress(c) \/ CheckComplete(c) \/ Report(c)
      PROVE  Dialing' \subseteq Dialing
  BY <1>1, <1>6 DEF Accept, SendAddress, CheckComplete, Report, Dialing
<1>7. TakeAddress \/ DialerStops \/ Cancel \/ AllDone \/ Main => Dialing' = Dialing
  BY MainFrame DEF Dialing, connVars
<1>8. UNCHANGED vars => Dialing' = Dialing
  BY DEF vars, connVars, Dialing
<1> QED
  BY <1>2, <1>3, <1>4, <1>5, <1>6, <1>7, <1>8, NextCases

-----------------------------------------------------------------------------
(* Joining a fixed set of clients. *)

Drained == {"decide", "blame", "returned"}

\* A client the scheduler started with never starts again, so that the end of
\* its worker is final, and errCh is closed after it.
Joined ==
    /\ \A c \in Clients : pc[c] \in Working \cup {"leaving", "gone"}
    /\ doneCh \/ sched \in Drained \cup {"drain"} => Clients \cap Counted = {}
    /\ errClosed <=> sched \in Drained
    /\ panicked => \E c \in Conns \ Clients : reported[c] # "none"

\* The workers of the initial clients stay joined while no other thing changes.
LEMMA JoinedKept ==
    ASSUME TypeOK, Joined, UNCHANGED <<doneCh, sched, errClosed, panicked>>,
           \A c \in Clients : pc[c] \in Working \cup {"leaving", "gone"}
                                => pc'[c] \in Working \cup {"leaving", "gone"},
           Clients \cap Counted' \subseteq Counted,
           \A c \in Conns : reported[c] # "none" => reported'[c] # "none"
    PROVE  Joined'
  BY DEF Joined

LEMMA JoinedStep == TypeOK /\ Joined /\ [Next]_vars => Joined'
<1> SUFFICES ASSUME TypeOK, Joined, [Next]_vars PROVE Joined'
  OBVIOUS
<1> USE SchedulerAssumption DEF Goto, connVars, pexVars, errVars, pmVars, endVars, mainVars
<1>1. /\ pc \in [Conns -> States] /\ reported \in [Conns -> Errors \cup {"none"}]
      /\ complete \in BOOLEAN /\ failed \in BOOLEAN
  BY DEF TypeOK
<1>2. ASSUME NEW c \in Conns, Moves(c) PROVE Joined'
  <2>1. Clients \cap Counted' \subseteq Counted
    <3>1. c \in Clients => pc[c] \in Working \cup {"leaving"}
      BY <1>1, <1>2, MovesFrame DEF Joined
    <3> QED
      BY <1>1, <1>2, <3>1, MovesFrame DEF Counted
  <2> QED
    BY <1>1, <1>2, <2>1, MovesFrame, JoinedKept
<1>3. ASSUME NEW c \in Conns, FetchEnds(c) PROVE Joined'
  <2>1. /\ Counted' = Counted /\ pc'[c] \in Working /\ \A d \in Conns \ {c} : pc'[d] = pc[d]
        /\ \A d \in Conns : reported[d] # "none" => reported'[d] # "none"
    BY <1>1, <1>3, FetchEndsFrame DEF Counted, Working, Errors
  <2>2. UNCHANGED <<doneCh, sched, errClosed, panicked>>
    BY <1>1, <1>3, FetchEndsFrame
  <2> QED
    BY <2>1, <2>2, JoinedKept
<1>4. ASSUME NEW c \in Conns, Accept(c) \/ AcquireSlot(c) PROVE Joined'
  <2>1. c \notin Clients
    BY <1>4 DEF Accept, AcquireSlot, Pex
  <2>2. /\ \A d \in Clients : pc'[d] = pc[d]
        /\ UNCHANGED <<doneCh, sched, errClosed, panicked, reported>>
    BY <1>1, <1>4, <2>1 DEF Accept, AcquireSlot
  <2> QED
    BY <2>2, JoinedKept DEF Counted
<1>5. ASSUME NEW c \in Conns, SendAddress(c) \/ CheckComplete(c) PROVE Joined'
  <2>1. /\ pc[c] \in Working /\ pc'[c] \in Working /\ \A d \in Conns \ {c} : pc'[d] = pc[d]
        /\ UNCHANGED <<doneCh, sched, errClosed, panicked, reported>>
    BY <1>1, <1>5 DEF SendAddress, CheckComplete, Working
  <2> QED
    BY <1>1, <2>1, JoinedKept DEF Counted
<1>6. ASSUME NEW c \in Conns, Report(c) PROVE Joined'
  <2>1. /\ pc[c] \in Working /\ pc'[c] \in Working /\ \A d \in Conns \ {c} : pc'[d] = pc[d]
        /\ UNCHANGED <<doneCh, sched, errClosed, reported>> /\ reported[c] # "none"
    BY <1>1, <1>6 DEF Report, TypeOK, Errors, Working
  <2>2. panicked' => panicked \/ c \notin Clients
    <3>1. errClosed /\ c \in Clients => FALSE
      BY <2>1, <1>1 DEF Joined, Counted
    <3> QED
      BY <1>6, <3>1 DEF Report
  <2>3. Counted' = Counted
    BY <2>1 DEF Counted
  <2> QED
    BY <2>1, <2>2, <2>3 DEF Joined
<1>7. CASE TakeAddress \/ DialerStops \/ Cancel
  <2>1. UNCHANGED <<pc, reported, doneCh, sched, errClosed, panicked>>
    BY <1>7 DEF TakeAddress, DialerStops, Cancel
  <2> QED
    BY <2>1 DEF Joined, Counted
<1>8. CASE AllDone
  BY <1>8 DEF AllDone, Joined, Counted
<1>9. CASE Main
  <2>1. UNCHANGED <<pc, reported, panicked, doneCh>> /\ Counted' = Counted
    BY <1>9 DEF Main, Step, SelectDone, CloseAll, Join, Drain, Decide, Blame, Counted
  <2>2. CASE SelectDone
    BY <2>1, <2>2 DEF SelectDone, Step, Joined, Drained
  <2>3. CASE CloseAll
    BY <2>1, <2>3 DEF CloseAll, Step, Joined, Drained
  <2>4. CASE Join
    BY <2>1, <2>4 DEF Join, Step, Joined, Drained
  <2>5. CASE Drain
    BY <2>1, <2>5 DEF Drain, Step, Joined, Drained
  <2>6. CASE Decide \/ Blame
    BY <2>1, <2>6 DEF Decide, Blame, Step, Joined, Drained
  <2> QED
    BY <1>9, <2>2, <2>3, <2>4, <2>5, <2>6 DEF Main
<1>10. CASE UNCHANGED vars
  BY <1>10 DEF vars, Joined, Counted
<1> QED
  BY <1>2, <1>3, <1>4, <1>5, <1>6, <1>7, <1>8, <1>9, <1>10, NextCases

-----------------------------------------------------------------------------
(* The result. *)

FatalReported == \E c \in Conns : reported[c] = "fatal"
FatalQueued == \E i \in DOMAIN errCh : errCh[i] = "fatal"

\* An error is reported once, at the end of its worker.
ReportedOnce ==
    \A c \in Conns : reported[c] # "none" => pc[c] \in {"report", "end", "leaving", "gone"}

\* The errors in errCh and the one drained from it are of workers, and that of an
\* initial client is on its way, in errCh or drained; and once IsComplete was false,
\* only a worker that came later can have completed the download.
Blamed ==
    /\ FatalQueued \/ lastErr => FatalReported
    /\ lastErr => errClosed
    /\ \A c \in Clients :
          reported[c] = "fatal" => pc[c] = "report" \/ lastErr \/ (~errClosed /\ FatalQueued)
    /\ sched = "blame" => ~complete \/ failed \/ CameLater

LEMMA OnceStep == TypeOK /\ ReportedOnce /\ [Next]_vars => ReportedOnce'
<1> SUFFICES ASSUME TypeOK, ReportedOnce, [Next]_vars PROVE ReportedOnce'
  OBVIOUS
<1> USE DEF ReportedOnce, Goto
<1>1. /\ pc \in [Conns -> States] /\ reported \in [Conns -> Errors \cup {"none"}]
      /\ complete \in BOOLEAN /\ failed \in BOOLEAN
  BY DEF TypeOK
<1>2. ASSUME NEW c \in Conns, Moves(c) PROVE ReportedOnce'
  BY <1>1, <1>2, MovesFrame
<1>3. ASSUME NEW c \in Conns, FetchEnds(c) PROVE ReportedOnce'
  BY <1>1, <1>3, FetchEndsFrame
<1>4. ASSUME NEW c \in Conns, Accept(c) \/ AcquireSlot(c) \/ SendAddress(c)
                              \/ CheckComplete(c) \/ Report(c)
      PROVE  ReportedOnce'
  BY <1>1, <1>4 DEF Accept, AcquireSlot, SendAddress, CheckComplete, Report
<1>5. CASE TakeAddress \/ DialerStops \/ Cancel \/ AllDone \/ Main
  BY <1>5, MainFrame DEF connVars
<1>6. CASE UNCHANGED vars
  BY <1>6 DEF vars, connVars
<1> QED
  BY <1>2, <1>3, <1>4, <1>5, <1>6, NextCases

\* Nothing that is done at a connection matters but an error, a piece that ends
\* and a worker that comes in.
LEMMA BlamedKept ==
    ASSUME TypeOK, Blamed, UNCHANGED <<errCh, lastErr, reported, errClosed, sched>>,
           \A c \in Clients : pc[c] = "report" => pc'[c] = "report",
           sched = "blame" => complete' = complete \/ CameLater',
           failed => failed', CameLater => CameLater'
    PROVE  Blamed'
  BY DEF Blamed, FatalQueued, FatalReported

LEMMA BlamedStep == TypeOK /\ Joined /\ ReportedOnce /\ Blamed /\ [Next]_vars => Blamed'
<1> SUFFICES ASSUME TypeOK, Joined, ReportedOnce, Blamed, [Next]_vars PROVE Blamed'
  OBVIOUS
<1> USE SchedulerAssumption DEF Goto, connVars, pexVars, errVars, pmVars, endVars, mainVars
<1>1. /\ pc \in [Conns -> States] /\ reported \in [Conns -> Errors \cup {"none"}]
      /\ complete \in BOOLEAN /\ failed \in BOOLEAN /\ errCh \in Seq(Errors)
  BY DEF TypeOK
<1>2. ASSUME NEW c \in Conns, Moves(c) PROVE Blamed'
  <2>1. CameLater => CameLater'
    BY <1>1, <1>2, MovesFrame DEF CameLater
  <2>2. UNCHANGED <<errCh, lastErr, reported, errClosed, sched, complete, failed>>
    BY <1>1, <1>2, MovesFrame
  <2>3. \A d \in Clients : pc[d] = "report" => pc'[d] = "report"
    BY <1>1, <1>2, MovesFrame
  <2> QED
    BY <2>1, <2>2, <2>3, BlamedKept
<1>3. ASSUME NEW c \in Conns, FetchEnds(c) PROVE Blamed'
  <2>1. /\ pc[c] = "fetching" /\ pc'[c] \in Working /\ reported[c] = "none"
        /\ \A d \in Conns \ {c} : pc'[d] = pc[d] /\ reported'[d] = reported[d]
        /\ UNCHANGED <<errCh, lastErr, errClosed, sched>> /\ (failed => failed')
    BY <1>1, <1>3, FetchEndsFrame DEF Working, ReportedOnce
  <2>2. CameLater => CameLater'
    BY <1>1, <2>1 DEF CameLater, Working
  <2>3. sched = "blame" => CameLater'
    BY <1>1, <2>1 DEF Joined, Drained, Counted, CameLater, Working
  <2>4. FatalReported => FatalReported'
    BY <2>1 DEF FatalReported
  <2>5. ASSUME NEW d \in Clients, reported'[d] = "fatal"
        PROVE  pc'[d] = "report" \/ lastErr \/ (~errClosed /\ FatalQueued)
    <3>1. CASE d = c
      BY <1>1, <1>3, <2>1, <2>5, <3>1, FetchEndsFrame
    <3>2. CASE d # c
      BY <2>1, <2>5, <3>2 DEF Blamed
    <3> QED
      BY <3>1, <3>2
  <2> QED
    BY <2>1, <2>2, <2>3, <2>4, <2>5 DEF Blamed, FatalQueued
<1>4. ASSUME NEW c \in Conns, Accept(c) \/ AcquireSlot(c) PROVE Blamed'
  <2>1. CameLater => CameLater'
    BY <1>1, <1>4 DEF Accept, AcquireSlot, CameLater, Working
  <2>2. \A d \in Clients : pc[d] = "report" => pc'[d] = "report"
    BY <1>1, <1>4 DEF Accept, AcquireSlot
  <2> QED
    BY <1>4, <2>1, <2>2, BlamedKept DEF Accept, AcquireSlot
<1>5. ASSUME NEW c \in Conns, SendAddress(c) \/ CheckComplete(c) PROVE Blamed'
  <2>1. CameLater => CameLater'
    BY <1>1, <1>5 DEF SendAddress, CheckComplete, CameLater, Working
  <2>2. \A d \in Clients : pc[d] = "report" => pc'[d] = "report"
    BY <1>1, <1>5 DEF SendAddress, CheckComplete
  <2> QED
    BY <1>5, <2>1, <2>2, BlamedKept DEF SendAddress, CheckComplete
<1>6. ASSUME NEW c \in Conns, Report(c) PROVE Blamed'
  <2>1. /\ pc[c] = "report" /\ pc'[c] = "end" /\ \A d \in Conns \ {c} : pc'[d] = pc[d]
        /\ UNCHANGED <<lastErr, errClosed, sched, reported, complete, failed>>
    BY <1>1, <1>6 DEF Report
  <2>2. CameLater => CameLater'
    BY <1>1, <2>1 DEF CameLater, Working
  <2>3. FatalQueued => FatalQueued'
    BY <1>1, <1>6 DEF Report, FatalQueued
  <2>4. FatalQueued' => FatalQueued \/ reported[c] = "fatal"
    BY <1>1, <1>6 DEF Report, FatalQueued
  <2>5. reported[c] = "fatal" /\ ~errClosed => FatalQueued'
    <3> SUFFICES ASSUME reported[c] = "fatal", ~errClosed PROVE FatalQueued'
      OBVIOUS
    <3>1. errCh' = Append(errCh, "fatal") /\ "fatal" \in Errors
      BY <1>6 DEF Report, Errors
    <3>2. Len(errCh) + 1 \in DOMAIN errCh' /\ errCh'[Len(errCh) + 1] = "fatal"
      BY <1>1, <3>1
    <3> QED
      BY <3>2 DEF FatalQueued
  <2>6. c \in Clients => ~errClosed
    BY <2>1 DEF Joined, Counted, Working
  <2> QED
    BY <2>1, <2>2, <2>3, <2>4, <2>5, <2>6 DEF Blamed, FatalReported
<1>7. CASE TakeAddress \/ DialerStops \/ Cancel \/ AllDone
  <2>1. UNCHANGED <<pc, errCh, lastErr, reported, errClosed, sched, complete, failed>>
    BY <1>7 DEF TakeAddress, DialerStops, Cancel, AllDone
  <2> QED
    BY <2>1, BlamedKept DEF CameLater
<1>8. CASE Main
  <2>1. UNCHANGED <<pc, reported, complete, failed>>
    BY <1>8, MainFrame
  <2>2. CASE SelectDone \/ CloseAll \/ Join
    BY <2>1, <2>2 DEF SelectDone, CloseAll, Join, Step, Blamed, FatalQueued, FatalReported
  <2>3. CASE Drain
    <3>1. /\ errClosed' /\ errCh' = <<>> /\ (lastErr' <=> FatalQueued) /\ sched = "drain"
          /\ sched' = "decide"
      BY <2>3 DEF Drain, Step, FatalQueued
    <3>2. ~errClosed
      BY <3>1 DEF Joined, Drained
    <3>3. ~FatalQueued'
      BY <3>1 DEF FatalQueued
    <3>4. \A c \in Clients : pc[c] # "report"
      BY <3>1 DEF Joined, Counted, Working
    <3> QED
      BY <2>1, <3>1, <3>2, <3>3, <3>4 DEF Blamed, FatalReported
  <2>4. CASE Decide
    BY <2>1, <2>4 DEF Decide, Step, Blamed, FatalQueued, FatalReported, IsComplete
  <2>5. CASE Blame
    BY <2>1, <2>5 DEF Blame, Step, Blamed, FatalQueued, FatalReported
  <2> QED
    BY <1>8, <2>2, <2>3, <2>4, <2>5 DEF Main
<1>9. CASE UNCHANGED vars
  BY <1>9, BlamedKept DEF vars, CameLater
<1> QED
  BY <1>2, <1>3, <1>4, <1>5, <1>6, <1>7, <1>8, <1>9, NextCases

\* Decide and Blame set the result, from what the drained errors say.
LEMMA ResultStep ==
    ASSUME TypeOK, Joined, Blamed, [Next]_vars, result' # result
    PROVE  /\ result' = "nil" => complete /\ ~failed
           /\ result' # "nil" => ~complete \/ failed \/ CameLater
           /\ result' = "stopped" => \E c \in Conns : reported[c] = "fatal"
           /\ result' = "noProgress" => \A c \in Clients : reported[c] # "fatal"
<1> USE DEF connVars, pexVars, errVars, pmVars, endVars, mainVars
<1>1. Decide \/ Blame
  <2>0. pc \in [Conns -> States] /\ complete \in BOOLEAN /\ failed \in BOOLEAN
    BY DEF TypeOK
  <2>1. ASSUME NEW c \in Conns,
               Accept(c) \/ AcquireSlot(c) \/ SendAddress(c) \/ CheckComplete(c) \/ Report(c)
        PROVE  result' = result
    BY <2>1 DEF Accept, AcquireSlot, SendAddress, CheckComplete, Report
  <2>4. ASSUME NEW c \in Conns, Moves(c) PROVE result' = result
    BY <2>0, <2>4, MovesFrame
  <2>5. ASSUME NEW c \in Conns, FetchEnds(c) PROVE result' = result
    BY <2>0, <2>5, FetchEndsFrame
  <2>2. TakeAddress \/ DialerStops \/ Cancel \/ AllDone \/ SelectDone \/ CloseAll
        \/ Join \/ Drain => result' = result
    BY DEF TakeAddress, DialerStops, Cancel, AllDone, SelectDone, CloseAll, Join, Drain
  <2>3. UNCHANGED vars => result' = result
    BY DEF vars
  <2> QED
    <3>1. \A c \in Conns : ~(Moves(c) \/ Accept(c) \/ AcquireSlot(c) \/ SendAddress(c)
                            \/ FetchEnds(c) \/ CheckComplete(c) \/ Report(c))
      BY <2>1, <2>4, <2>5
    <3>2. TakeAddress \/ DialerStops \/ Cancel \/ AllDone \/ Main
      BY <2>3, <3>1, NextCases, Zenon
    <3> QED
      BY <2>2, <3>2, Zenon DEF Main
<1>2. CASE Decide
  BY <1>2 DEF Decide, IsComplete
<1>3. CASE Blame
  <2>1. sched = "blame" /\ errClosed /\ \A c \in Clients : pc[c] # "report"
    BY <1>3, SchedulerAssumption DEF Blame, Step, Joined, Drained, Counted, Working
  <2>2. /\ result' # "nil"
        /\ result' = "stopped" => lastErr
        /\ result' = "noProgress" => ~lastErr
    BY <1>3 DEF Blame
  <2> QED
    BY <2>1, <2>2, SchedulerAssumption DEF Blamed, FatalReported
<1> QED
  BY <1>1, <1>2, <1>3

-----------------------------------------------------------------------------
(* The safety of the specification. *)

IndInv == TypeOK /\ Fresh /\ DialsBounded /\ Joined /\ ReportedOnce /\ Blamed

LEMMA Inductive == Spec => []IndInv
<1>1. Init => IndInv
  <2> SUFFICES ASSUME Init PROVE IndInv
    OBVIOUS
  <2>1. Dialing = {}
    BY DEF Init, Dialing
  <2>2. DialsBounded
    BY <2>1, FS_EmptySet, SchedulerAssumption DEF DialsBounded
  <2>3. Joined
    BY SchedulerAssumption DEF Init, Joined, Working, Drained
  <2>4. ReportedOnce /\ Blamed
    BY SchedulerAssumption DEF Init, ReportedOnce, Blamed, FatalQueued
  <2> QED
    BY <2>2, <2>3, <2>4, TypeInit, FreshInit DEF IndInv
<1>2. IndInv /\ [Next]_vars => IndInv'
  BY TypeStep, FreshStep, DialsStep, JoinedStep, OnceStep, BlamedStep DEF IndInv
<1> QED
  BY <1>1, <1>2, PTL DEF Spec

\* The scheduler is well typed; a connection stands in activeClients from before
\* it is counted until before it is counted off, so that the closing of the active
\* connections misses only workers that are about to start or to finish.
THEOREM SchedulerTypes == Spec => []TypeOK
  BY Inductive, PTL DEF IndInv

\* peerPool keeps inbound clients and PEX contacts to one connection per
\* address, whatever the listener and the dialer race on.
THEOREM OnePerAddress == Spec => []OneConnectionPerAddress
  BY Inductive, PTL DEF IndInv, Fresh

\* pexSem bounds the dials of the PEX dialer.
THEOREM DialLimit == Spec => []DialsBounded
  BY Inductive, PTL DEF IndInv

\* When the scheduler drains errCh the workers of its initial clients have
\* ended; only one that came in later can send on the closed channel.
THEOREM InitialWorkersJoined == Spec => []ClientsJoined
<1>1. IndInv => ClientsJoined
  BY DEF IndInv, Joined, Drained, ClientsJoined
<1> QED
  BY <1>1, Inductive, PTL

\* StartScheduler returns nil only for a complete download, an error for a complete
\* one only in the cases the property names, a cause only if a worker had one, and
\* never passes over the cause of an initial client's worker.
THEOREM ResultIsRight == Spec => ResultRight
<1>1. IndInv /\ [Next]_vars =>
        [result' # result =>
           /\ result' = "nil" => complete /\ ~failed
           /\ result' # "nil" => ~complete \/ failed \/ CameLater
           /\ result' = "stopped" => \E c \in Conns : reported[c] = "fatal"
           /\ result' = "noProgress" => \A c \in Clients : reported[c] # "fatal"]_vars
  BY ResultStep DEF IndInv
<1> QED
  BY <1>1, Inductive, PTL DEF Spec, ResultRight

-----------------------------------------------------------------------------
(* Room for the errors. *)

\* A worker with an error to report finds room for it, or a closed channel.
ErrorsFit == \A c \in Conns : pc[c] = "report" => errClosed \/ Len(errCh) < ErrCap

\* Connections whose worker has nothing to report any more.
Silent == {c \in Conns : pc[c] \in {"end", "leaving", "gone"}}

\* Each of them left one error at most.
OneErrorEach == Len(errCh) <= Cardinality(Silent)

LEMMA SilentFinite ==
    /\ IsFiniteSet(Silent) /\ IsFiniteSet(Silent')
    /\ Cardinality(Silent) \in Nat /\ Cardinality(Silent') \in Nat
<1>1. Silent \subseteq Conns /\ Silent' \subseteq Conns
  BY DEF Silent
<1>2. IsFiniteSet(Silent) /\ IsFiniteSet(Silent')
  BY <1>1, FS_Subset, SchedulerAssumption
<1> QED
  BY <1>2, FS_CardinalityType

\* A step that adds no error.
LEMMA NoNewError ==
    ASSUME TypeOK, OneErrorEach, Silent \subseteq Silent', Len(errCh') <= Len(errCh),
           Len(errCh') \in Nat
    PROVE  OneErrorEach'
<1>1. Cardinality(Silent) <= Cardinality(Silent')
  BY SilentFinite, FS_Subset
<1> QED
  BY <1>1, SilentFinite DEF OneErrorEach, TypeOK

\* Who sent its error, or had none, is silent for good.
LEMMA OneErrorStep == TypeOK /\ OneErrorEach /\ [Next]_vars => OneErrorEach'
<1> SUFFICES ASSUME TypeOK, OneErrorEach, [Next]_vars PROVE OneErrorEach'
  OBVIOUS
<1> USE DEF Goto, connVars, pexVars, errVars, pmVars, endVars, mainVars
<1>1. /\ pc \in [Conns -> States] /\ Len(errCh) \in Nat /\ errCh \in Seq(Errors)
      /\ complete \in BOOLEAN /\ failed \in BOOLEAN
  BY DEF TypeOK
<1>2. Silent \subseteq Silent' /\ UNCHANGED errCh => OneErrorEach'
  BY <1>1, NoNewError
<1>3. ASSUME NEW c \in Conns, Report(c) PROVE OneErrorEach'
  <2>1. Silent' = Silent \cup {c} /\ c \notin Silent
    BY <1>1, <1>3 DEF Report, Silent
  <2>2. Cardinality(Silent') = Cardinality(Silent) + 1
    BY <2>1, SilentFinite, FS_AddElement
  <2>3. errCh' = errCh \/ errCh' = Append(errCh, reported[c])
    BY <1>3 DEF Report
  <2>4. reported[c] \in Errors
    BY <1>3 DEF Report, TypeOK
  <2>5. Len(errCh') <= Len(errCh) + 1 /\ Len(errCh') \in Nat
    BY <1>1, <2>3, <2>4
  <2> QED
    BY <1>1, <2>2, <2>5, SilentFinite DEF OneErrorEach
<1>4. ASSUME NEW c \in Conns, Moves(c) PROVE Silent \subseteq Silent' /\ UNCHANGED errCh
  BY <1>1, <1>4, MovesFrame DEF Silent
<1>5. ASSUME NEW c \in Conns, FetchEnds(c) PROVE Silent \subseteq Silent' /\ UNCHANGED errCh
  BY <1>1, <1>5, FetchEndsFrame DEF Silent
<1>6. ASSUME NEW c \in Conns,
             Accept(c) \/ AcquireSlot(c) \/ SendAddress(c) \/ CheckComplete(c)
      PROVE  Silent \subseteq Silent' /\ UNCHANGED errCh
  BY <1>1, <1>6 DEF Accept, AcquireSlot, SendAddress, CheckComplete, Silent
<1>7. TakeAddress \/ DialerStops \/ Cancel \/ AllDone \/ Main => Silent' = Silent
  BY MainFrame DEF Silent
<1>8. TakeAddress \/ DialerStops \/ Cancel \/ AllDone \/ SelectDone \/ CloseAll \/ Join
      \/ Decide \/ Blame => UNCHANGED errCh
  BY DEF TakeAddress, DialerStops, Cancel, AllDone, SelectDone, CloseAll, Join, Decide, Blame
<1>9. CASE Drain
  BY <1>1, <1>7, <1>9, NoNewError DEF Drain, Main
<1>10. UNCHANGED vars => Silent \subseteq Silent' /\ UNCHANGED errCh
  BY DEF vars, Silent
<1> QED
  BY <1>2, <1>3, <1>4, <1>5, <1>6, <1>7, <1>8, <1>9, <1>10, NextCases DEF Main

\* With no more connections than errCh has room for, no worker blocks in the send
\* of its error, so that the join of Returns cannot hang on one: the run errors
\* needs one connection more (scheduler.go:46, :82).
THEOREM ErrorsFitUnlessMany ==
    ASSUME Cardinality(Conns) <= ErrCap
    PROVE  Spec => []ErrorsFit
<1>1. Init => OneErrorEach
  BY SilentFinite DEF Init, OneErrorEach
<1>2. TypeOK /\ OneErrorEach => ErrorsFit
  <2> SUFFICES ASSUME TypeOK, OneErrorEach, NEW c \in Conns, pc[c] = "report"
               PROVE  Len(errCh) < ErrCap
    BY DEF ErrorsFit
  <2>1. Silent \subseteq Conns \ {c}
    BY DEF Silent
  <2>2. IsFiniteSet(Conns) /\ Cardinality(Conns \ {c}) = Cardinality(Conns) - 1
        /\ Cardinality(Conns) \in Nat
    BY SchedulerAssumption, FS_RemoveElement, FS_CardinalityType
  <2>3. IsFiniteSet(Conns \ {c})
    BY <2>2, FS_RemoveElement
  <2>4. Cardinality(Silent) <= Cardinality(Conns \ {c})
    BY <2>1, <2>3, FS_Subset
  <2>5. Len(errCh) \in Nat /\ ErrCap \in Nat
    BY SchedulerAssumption DEF TypeOK
  <2> QED
    BY <2>2, <2>4, <2>5, SilentFinite DEF OneErrorEach
<1> QED
  BY <1>1, <1>2, OneErrorStep, SchedulerTypes, PTL DEF Spec

-----------------------------------------------------------------------------
(* The join waits for nobody who cannot go on, but for those Stuck names. *)

\* The dialer has an address to take or a slot to take it in.
DialerRuns ==
    /\ dialer
    /\ \/ dialing = NoAddr /\ peerChan # <<>>
       \/ \E d \in Pex : /\ dialing = Addr[d] /\ pc[d] = "absent"
                         /\ Cardinality(Dialing) < DialSlots

\* A worker that needs nobody else: it polls and has a reason to end, its fetch is
\* on a closed connection, it has room for its error or its gossip or the dialer
\* will make some, or it only counts or leaves.
GoesOn(c) ==
    \/ pc[c] = "polling" /\ (cancelled \/ ~left)
    \/ pc[c] = "fetching" /\ c \in closed
    \/ pc[c] = "pex" /\ (Len(peerChan) < PeerCap \/ DialerRuns)
    \/ pc[c] = "report" /\ (errClosed \/ Len(errCh) < ErrCap)
    \/ pc[c] \in {"check", "end", "leaving"}

JoinIsNotStuck == sched = "join" => \A c \in Counted : GoesOn(c) \/ Stuck(c)

\* All gossip is of PEX contacts, and those whose address the dialer waits to
\* dial were never dialled.
Dialable ==
    /\ \A i \in DOMAIN peerChan : \E d \in Pex : peerChan[i] = Addr[d]
    /\ \A d \in Pex : pc[d] # "absent" => Addr[d] \in peerPool
    /\ dialing # NoAddr => /\ dialing \in peerPool
                           /\ \E d \in Pex : Addr[d] = dialing
                           /\ \A d \in Pex : Addr[d] = dialing => pc[d] = "absent"

\* The scheduler closes the connections only when the workers have a reason to
\* end, and then it closes those of all initial clients that still work.
Told ==
    /\ completeChan => complete
    /\ sched = "join" => /\ completeChan \/ cancelled
                         /\ \A c \in Clients : pc[c] \in Working => c \in closed

LEMMA DialableInit == Init => Dialable /\ Told
  BY SchedulerAssumption DEF Init, Dialable, Told, Pex

\* Addresses enter peerChan as gossip and are dialled once.
LEMMA DialableStep == TypeOK /\ Dialable /\ [Next]_vars => Dialable'
<1> SUFFICES ASSUME TypeOK, Dialable, [Next]_vars PROVE Dialable'
  OBVIOUS
<1> USE DEF Dialable, Goto, connVars, pexVars, errVars, pmVars, endVars, mainVars
<1>1. /\ pc \in [Conns -> States] /\ peerChan \in Seq(Addrs)
      /\ complete \in BOOLEAN /\ failed \in BOOLEAN
      /\ Addr \in [Conns -> Addrs] /\ NoAddr \notin Addrs /\ Pex \subseteq Conns
      /\ Pex \cap Incoming = {}
  BY SchedulerAssumption DEF TypeOK, Pex
<1>2. ASSUME NEW c \in Conns, Accept(c) PROVE Dialable'
  BY <1>1, <1>2 DEF Accept
<1>3. ASSUME NEW c \in Conns, Moves(c) \/ FetchEnds(c) \/ CheckComplete(c) \/ Report(c)
      PROVE  Dialable'
  <2>1. CASE Moves(c)
    <3>1. UNCHANGED <<peerChan, peerPool, dialing>> /\ pc[c] # "absent" /\ pc'[c] # "absent"
          /\ \A d \in Conns \ {c} : pc'[d] = pc[d]
      BY <1>1, <2>1, MovesFrame
    <3> QED
      BY <1>1, <3>1
  <2>2. CASE FetchEnds(c)
    <3>1. UNCHANGED <<peerChan, peerPool, dialing>> /\ pc[c] # "absent" /\ pc'[c] # "absent"
          /\ \A d \in Conns \ {c} : pc'[d] = pc[d]
      BY <1>1, <2>2, FetchEndsFrame
    <3> QED
      BY <1>1, <3>1
  <2>3. CASE CheckComplete(c) \/ Report(c)
    <3>1. UNCHANGED <<peerChan, peerPool, dialing>> /\ pc[c] # "absent" /\ pc'[c] # "absent"
          /\ \A d \in Conns \ {c} : pc'[d] = pc[d]
      BY <1>1, <2>3 DEF CheckComplete, Report
    <3> QED
      BY <1>1, <3>1
  <2> QED
    BY <1>3, <2>1, <2>2, <2>3
<1>4. ASSUME NEW c \in Conns, SendAddress(c) PROVE Dialable'
  <2>1. PICK d \in Pex : peerChan' = Append(peerChan, Addr[d])
    BY <1>4 DEF SendAddress
  <2>2. \A k \in DOMAIN peerChan' : \E e \in Pex : peerChan'[k] = Addr[e]
    <3> SUFFICES ASSUME NEW k \in DOMAIN peerChan' PROVE \E e \in Pex : peerChan'[k] = Addr[e]
      OBVIOUS
    <3>1. /\ Addr[d] \in Addrs /\ DOMAIN peerChan' = 1 .. Len(peerChan) + 1
          /\ DOMAIN peerChan = 1 .. Len(peerChan)
      BY <1>1, <2>1
    <3>2. CASE k = Len(peerChan) + 1
      BY <1>1, <2>1, <3>1, <3>2
    <3>3. CASE k \in DOMAIN peerChan
      BY <1>1, <2>1, <3>1, <3>3
    <3> QED
      BY <3>1, <3>2, <3>3
  <2>3. /\ UNCHANGED <<peerPool, dialing>>
        /\ \A e \in Conns : pc'[e] = "absent" <=> pc[e] = "absent"
    BY <1>1, <1>4 DEF SendAddress
  <2> QED
    BY <1>1, <2>2, <2>3
<1>5. ASSUME NEW c \in Conns, AcquireSlot(c) PROVE Dialable'
  <2>1. /\ UNCHANGED <<peerChan, peerPool>> /\ dialing' = NoAddr /\ dialing = Addr[c]
        /\ \A d \in Conns \ {c} : pc'[d] = pc[d]
    BY <1>1, <1>5 DEF AcquireSlot
  <2> QED
    BY <1>1, <1>5, <2>1 DEF AcquireSlot
<1>6. CASE TakeAddress
  <2>1. /\ UNCHANGED pc /\ peerChan' = Tail(peerChan) /\ peerChan # <<>>
        /\ dialing' = IF Head(peerChan) \in peerPool THEN NoAddr ELSE Head(peerChan)
        /\ peerPool' = peerPool \cup {Head(peerChan)}
    BY <1>6 DEF TakeAddress
  <2>2. /\ 1 \in DOMAIN peerChan /\ Head(peerChan) = peerChan[1]
        /\ \A k \in DOMAIN peerChan' : k + 1 \in DOMAIN peerChan /\ peerChan'[k] = peerChan[k + 1]
    BY <1>1, <2>1
  <2>3. \A k \in DOMAIN peerChan' : \E d \in Pex : peerChan'[k] = Addr[d]
    BY <2>2
  <2>4. \A d \in Pex : pc'[d] # "absent" => Addr[d] \in peerPool'
    BY <2>1
  <2>5. ASSUME dialing' # NoAddr
        PROVE  /\ dialing' \in peerPool'
               /\ \E d \in Pex : Addr[d] = dialing'
               /\ \A d \in Pex : Addr[d] = dialing' => pc'[d] = "absent"
    <3>1. dialing' = peerChan[1] /\ dialing' \notin peerPool
      BY <2>1, <2>2, <2>5
    <3>2. \A d \in Pex : Addr[d] = dialing' => pc[d] = "absent"
      BY <3>1
    <3> QED
      BY <2>1, <2>2, <3>1, <3>2
  <2> QED
    BY <2>3, <2>4, <2>5
<1>7. CASE DialerStops \/ Cancel \/ AllDone \/ Main
  <2>1. UNCHANGED <<pc, peerChan, peerPool>> /\ dialing' \in {dialing, NoAddr}
    BY <1>7 DEF DialerStops, Cancel, AllDone, Main, Step, SelectDone, CloseAll, Join,
                Drain, Decide, Blame
  <2> QED
    BY <2>1
<1>8. CASE UNCHANGED vars
  BY <1>8 DEF vars
<1> QED
  BY <1>2, <1>3, <1>4, <1>5, <1>6, <1>7, <1>8, NextCases

\* Completion is announced once it is a fact, and the connections are closed after
\* that or a cancellation.
LEMMA ToldStep == TypeOK /\ Joined /\ Told /\ [Next]_vars => Told'
<1> SUFFICES ASSUME TypeOK, Joined, Told, [Next]_vars PROVE Told'
  OBVIOUS
<1> USE SchedulerAssumption DEF Told, Goto, connVars, pexVars, errVars, pmVars, endVars,
        mainVars
<1>1. /\ pc \in [Conns -> States] /\ complete \in BOOLEAN /\ failed \in BOOLEAN
      /\ activeClients = {c \in Conns : pc[c] \in Working \cup {"adding"}}
      /\ \A c \in Clients : pc[c] \in Working \cup {"leaving", "gone"}
  BY DEF TypeOK, Joined
<1>2. ASSUME NEW c \in Conns, Moves(c) PROVE Told'
  <2>1. c \in Clients /\ pc'[c] \in Working => pc[c] \in Working
    BY <1>1, <1>2, MovesFrame DEF Working
  <2> QED
    BY <1>1, <1>2, <2>1, MovesFrame
<1>3. ASSUME NEW c \in Conns, FetchEnds(c) PROVE Told'
  <2>1. pc[c] \in Working /\ (complete => complete')
    BY <1>1, <1>3, FetchEndsFrame DEF Working
  <2> QED
    BY <1>1, <1>3, <2>1, FetchEndsFrame
<1>4. ASSUME NEW c \in Conns, Accept(c) \/ AcquireSlot(c) PROVE Told'
  <2>1. c \notin Clients
    BY <1>4 DEF Accept, AcquireSlot, Pex
  <2> QED
    BY <1>1, <1>4, <2>1 DEF Accept, AcquireSlot
<1>5. ASSUME NEW c \in Conns, SendAddress(c) \/ CheckComplete(c) \/ Report(c) PROVE Told'
  <2>1. /\ pc[c] \in Working /\ \A d \in Conns \ {c} : pc'[d] = pc[d]
        /\ UNCHANGED <<complete, cancelled, closed, sched>>
    BY <1>1, <1>5 DEF SendAddress, CheckComplete, Report, Working
  <2>2. /\ completeChan' => completeChan \/ complete
        /\ completeChan => completeChan'
    <3>1. completeChan' = completeChan \/ completeChan' = (completeChan \/ IsComplete)
      BY <1>5 DEF SendAddress, CheckComplete, Report
    <3> QED
      BY <3>1, SMT DEF IsComplete, TypeOK
  <2> QED
    BY <1>1, <2>1, <2>2
<1>6. CASE TakeAddress \/ DialerStops \/ Cancel \/ AllDone
  BY <1>6 DEF TakeAddress, DialerStops, Cancel, AllDone
<1>7. CASE Main
  <2>1. CASE CloseAll
    BY <1>1, <2>1 DEF CloseAll, Step
  <2>2. CASE SelectDone \/ Join \/ Drain \/ Decide \/ Blame
    <3>1. sched' # "join" /\ completeChan' = completeChan
      BY <2>2 DEF SelectDone, Join, Drain, Decide, Blame, Step
    <3>2. complete' = complete
      BY <2>2, MainFrame DEF Main
    <3> QED
      BY <3>1, <3>2
  <2> QED
    BY <1>7, <2>1, <2>2 DEF Main
<1>8. CASE UNCHANGED vars
  BY <1>8 DEF vars
<1> QED
  BY <1>2, <1>3, <1>4, <1>5, <1>6, <1>7, <1>8, NextCases

\* The join of StartScheduler waits for nobody who waits in vain, but for the
\* workers ReturnsUnlessStuck excepts: with no more connections than errCh has room
\* for, every other worker was told to end, works on a closed connection, or finds
\* or is made room for what it sends (scheduler.go:284 and :292, pex.go:116).
THEOREM JoinWaitsForSomeone ==
    ASSUME Cardinality(Conns) <= ErrCap
    PROVE  Spec => []JoinIsNotStuck
<1>1. Spec => [](Dialable /\ Told)
  <2>1. IndInv /\ Dialable /\ Told /\ [Next]_vars => Dialable' /\ Told'
    BY DialableStep, ToldStep DEF IndInv
  <2> QED
    BY <2>1, DialableInit, Inductive, PTL DEF Spec
<1>2. Spec => []ErrorsFit
  BY ErrorsFitUnlessMany
<1>3. IndInv /\ Dialable /\ Told /\ ErrorsFit => JoinIsNotStuck
  <2> SUFFICES ASSUME IndInv, Dialable, Told, ErrorsFit, sched = "join",
                      NEW c \in Counted, ~Stuck(c)
               PROVE  GoesOn(c)
    BY DEF JoinIsNotStuck
  <2>1. TypeOK /\ c \in Conns /\ pc[c] \in Working \cup {"leaving"}
    BY DEF IndInv, Counted
  <2>2. CASE pc[c] = "polling"
    BY <2>1, <2>2 DEF Told, Stuck, GoesOn, TypeOK
  <2>3. CASE pc[c] = "fetching"
    BY <2>1, <2>3 DEF Told, Stuck, GoesOn, Working
  <2>4. CASE pc[c] = "pex"
    <3> SUFFICES ASSUME ~(Len(peerChan) < PeerCap) PROVE DialerRuns
      BY <2>4 DEF GoesOn
    <3>1. /\ Len(peerChan) = PeerCap /\ PeerCap \in Nat \ {0} /\ DialSlots \in Nat \ {0}
          /\ peerChan # <<>>
      BY <2>1, SchedulerAssumption DEF TypeOK
    <3>2. dialer /\ (dialing = NoAddr \/ ~(Cardinality(Dialing) >= DialSlots))
      BY <2>1, <2>4, <3>1 DEF Stuck, Unread, TypeOK
    <3>3. ASSUME dialing # NoAddr PROVE DialerRuns
      <4>1. PICK d \in Pex : Addr[d] = dialing /\ pc[d] = "absent"
        BY <3>3 DEF Dialable
      <4>2. Cardinality(Dialing) \in Nat
        BY SchedulerAssumption, FS_Subset, FS_CardinalityType DEF Dialing
      <4> QED
        BY <3>1, <3>2, <3>3, <4>1, <4>2 DEF DialerRuns
    <3> QED
      BY <3>1, <3>2, <3>3 DEF DialerRuns
  <2>5. CASE pc[c] = "report"
    BY <2>1, <2>5 DEF ErrorsFit, GoesOn
  <2>6. CASE pc[c] \in {"check", "end", "leaving"}
    BY <2>6 DEF GoesOn
  <2> QED
    BY <2>1, <2>2, <2>3, <2>4, <2>5, <2>6 DEF Working
<1> QED
  BY <1>1, <1>2, <1>3, Inductive, PTL
=============================================================================
