-------------------------- MODULE Discovery_proof --------------------------
(***************************************************************************)
(* Proofs about Discovery, for any trackers, nodes, identifiers and        *)
(* network.                                                                *)
(***************************************************************************)
EXTENDS Discovery, TLAPS, FiniteSetTheorems, WellFoundedInduction

-----------------------------------------------------------------------------
(* The steps that concern one part leave the others alone. *)

NextDHT == Bootstrap \/ Listen \/ Close \/ SearchPeers \/ SearchStep

\* A step is one of the trackers, of the DHT, or of the session alone.
LEMMA Steps ==
    ASSUME [NextDiscovery]_discoveryVars
    PROVE  /\ [\E a \in Announces : GetPeersFrom(a)]_trackerVars
           /\ [NextDHT]_dhtVars
<1> USE DEF NextDHT, sessionVars
<1>1. BootstrapNode => UNCHANGED trackerVars /\ NextDHT
  BY DEF BootstrapNode
<1>2. ASSUME NEW a \in Announces, AskTracker(a)
      PROVE  GetPeersFrom(a) /\ UNCHANGED dhtVars
  BY <1>2 DEF AskTracker
<1>3. GetPeers \/ discoverPeers \/ NodeClosed => UNCHANGED <<trackerVars, dhtVars>>
  BY DEF GetPeers, discoverPeers, NodeClosed
<1>4. Search => UNCHANGED trackerVars /\ NextDHT
  BY DEF Search
<1>5. CloseNode => UNCHANGED trackerVars /\ NextDHT
  BY DEF CloseNode
<1>6. ListenNode => UNCHANGED trackerVars /\ NextDHT
  BY DEF ListenNode
<1>7. UNCHANGED discoveryVars => UNCHANGED <<trackerVars, dhtVars>>
  BY DEF discoveryVars
<1> QED
  BY <1>1, <1>2, <1>3, <1>4, <1>5, <1>6, <1>7 DEF NextDiscovery, SessionStep

-----------------------------------------------------------------------------
(* Trackers. *)

\* While nothing was late or refused, every attempt but this one timed out; and a
\* reply to the last request is the awaited one, or an error.
Explained(a) ==
    Asking(a) =>
       /\ late[a] \/ refused[a] \/ timeouts[a] + 1 = attempt[a]
       /\ \A m \in replies[a] :
             m.tx = tx[a] => m.action = tracker[a] \/ m.action = "error"

TrackerInv ==
    /\ tracker \in [Announces -> {"start", "dial", "connect", "announce", "answered",
                                  "failed"}]
    /\ attempt \in [Announces -> 0 .. MaxRetries]
    /\ timeouts \in [Announces -> Nat]
    /\ tx \in [Announces -> Nat]
    /\ replies \in [Announces -> SUBSET Reply]
    /\ late \in [Announces -> BOOLEAN]
    /\ refused \in [Announces -> BOOLEAN]
    /\ \A a \in Announces :
          /\ Explained(a)
          /\ \A m \in replies[a] : m.tx <= tx[a]

\* Initially no request was made.
LEMMA TrackerInit == InitTracker => TrackerInv
  BY TrackerAssumption DEF InitTracker, TrackerInv, Explained, Asking, Reply

\* A request is the last one of its socket, and only a reply to it has its
\* identifier.
LEMMA RequestStep ==
    ASSUME TrackerInv, NEW a \in Announces, NEW action \in {"connect", "announce"},
           NEW left \in SUBSET Reply, \A m \in left : m.tx <= tx[a],
           Request(a, action, left)
    PROVE  /\ tracker' = [tracker EXCEPT ![a] = action]
           /\ tx' \in [Announces -> Nat]
           /\ replies' \in [Announces -> SUBSET Reply]
           /\ \A m \in replies'[a] :
                 /\ m.tx <= tx'[a]
                 /\ m.tx = tx'[a] => m.action = action \/ m.action = "error"
           /\ \A b \in Announces \ {a} : replies'[b] = replies[b] /\ tx'[b] = tx[b]
<1>1. PICK kind \in {action, "error"} :
         replies' = [replies EXCEPT ![a] = left \cup {[action |-> kind, tx |-> tx[a] + 1]}]
  BY DEF Request
<1>2. tx' = [tx EXCEPT ![a] = @ + 1] /\ tx[a] \in Nat
  BY DEF Request, TrackerInv
<1>3. tx' \in [Announces -> Nat] /\ tx'[a] = tx[a] + 1
  BY <1>2 DEF TrackerInv
<1>4. [action |-> kind, tx |-> tx[a] + 1] \in Reply
  BY <1>2 DEF Reply
<1>5. replies' \in [Announces -> SUBSET Reply]
  BY <1>1, <1>4 DEF TrackerInv
<1>6. ASSUME NEW m \in replies'[a]
      PROVE  /\ m.tx <= tx'[a]
             /\ m.tx = tx'[a] => m.action = action \/ m.action = "error"
  <2>1. m \in left \/ m = [action |-> kind, tx |-> tx[a] + 1]
    BY <1>1, <1>6 DEF TrackerInv
  <2>2. CASE m \in left
    <3>1. m.tx \in Nat /\ m.tx <= tx[a]
      BY <2>2 DEF Reply
    <3> QED
      BY <3>1, <1>2, <1>3
  <2>3. CASE m = [action |-> kind, tx |-> tx[a] + 1]
    BY <2>3, <1>2, <1>3
  <2> QED
    BY <2>1, <2>2, <2>3
<1>7. \A b \in Announces \ {a} : replies'[b] = replies[b] /\ tx'[b] = tx[b]
  BY <1>1, <1>2 DEF TrackerInv
<1> QED
  BY <1>3, <1>5, <1>6, <1>7 DEF Request

\* What is known of a tracker stays so while another one is asked.
LEMMA OthersStay ==
    ASSUME TrackerInv, NEW b \in Announces,
           tracker'[b] = tracker[b], attempt'[b] = attempt[b], timeouts'[b] = timeouts[b],
           tx'[b] = tx[b], replies'[b] = replies[b], late'[b] = late[b],
           refused'[b] = refused[b]
    PROVE  Explained(b)' /\ \A m \in replies'[b] : m.tx <= tx'[b]
  BY DEF TrackerInv, Explained, Asking

\* The next attempt, or the next IP.
LEMMA RetryStep ==
    ASSUME TrackerInv, NEW a \in Announces, NEW left \in SUBSET Reply,
           \A m \in left : m.tx <= tx[a], Asking(a), Retry(a, left)
    PROVE  /\ tracker' \in [Announces -> {"start", "dial", "connect", "announce",
                                          "answered", "failed"}]
           /\ attempt' \in [Announces -> 0 .. MaxRetries]
           /\ tx' \in [Announces -> Nat]
           /\ replies' \in [Announces -> SUBSET Reply]
           /\ \A m \in replies'[a] : m.tx <= tx'[a]
           /\ \A b \in Announces \ {a} :
                 /\ tracker'[b] = tracker[b] /\ attempt'[b] = attempt[b]
                 /\ tx'[b] = tx[b] /\ replies'[b] = replies[b]
           /\ \/ /\ tracker'[a] = "dial" /\ attempt[a] = MaxRetries
              \/ /\ tracker'[a] = tracker[a] /\ attempt'[a] = attempt[a] + 1
                 /\ \A m \in replies'[a] :
                       m.tx = tx'[a] => m.action = tracker'[a] \/ m.action = "error"
<1>1. /\ tracker[a] \in {"connect", "announce"}
      /\ attempt[a] \in 0 .. MaxRetries /\ MaxRetries \in Nat
  BY TrackerAssumption DEF Asking, TrackerInv
<1>2. CASE attempt[a] < MaxRetries
  <2>1. attempt' = [attempt EXCEPT ![a] = @ + 1] /\ Request(a, tracker[a], left)
    BY <1>1, <1>2 DEF Retry
  <2>2. /\ tracker' = [tracker EXCEPT ![a] = tracker[a]]
        /\ tx' \in [Announces -> Nat]
        /\ replies' \in [Announces -> SUBSET Reply]
        /\ \A m \in replies'[a] :
              /\ m.tx <= tx'[a]
              /\ m.tx = tx'[a] => m.action = tracker[a] \/ m.action = "error"
        /\ \A b \in Announces \ {a} : replies'[b] = replies[b] /\ tx'[b] = tx[b]
    BY <2>1, <1>1, RequestStep, Zenon
  <2>3. attempt' \in [Announces -> 0 .. MaxRetries] /\ attempt'[a] = attempt[a] + 1
    BY <2>1, <1>1, <1>2 DEF TrackerInv
  <2>4. tracker' = tracker
    BY <2>2 DEF TrackerInv
  <2>5. \A b \in Announces \ {a} : attempt'[b] = attempt[b]
    BY <2>1 DEF TrackerInv
  <2>6. /\ tracker' \in [Announces -> {"start", "dial", "connect", "announce",
                                       "answered", "failed"}]
        /\ tracker'[a] = tracker[a]
        /\ \A b \in Announces \ {a} : tracker'[b] = tracker[b]
    BY <2>4 DEF TrackerInv
  <2> QED
    BY <2>2, <2>3, <2>5, <2>6
<1>3. CASE attempt[a] >= MaxRetries
  <2>1. /\ tracker' = [tracker EXCEPT ![a] = "dial"]
        /\ replies' = [replies EXCEPT ![a] = {}]
        /\ tx' = [tx EXCEPT ![a] = 0]
        /\ attempt' = [attempt EXCEPT ![a] = 0]
    BY <1>1, <1>3 DEF Retry
  <2> QED
    BY <2>1, <1>1, <1>3 DEF TrackerInv
<1> QED
  BY <1>1, <1>2, <1>3

TrackerStates == {"start", "dial", "connect", "announce", "answered", "failed"}

\* The reason for giving up an IP, in a step.
HasReason(a) ==
    Asking(a) /\ tracker'[a] = "dial" =>
       timeouts'[a] = MaxRetries \/ late'[a] \/ refused'[a]

\* Steps that end or start a goroutine, or change its IP.
LEMMA PlainSteps ==
    ASSUME TrackerInv, NEW a \in Announces,
           \/ Rejected(a) \/ getHTTPPeers(a) \/ LookupIP(a)
           \/ DialFails(a) \/ AllIPsFailed(a) \/ Announced(a)
    PROVE  TrackerInv' /\ \A b \in Announces : HasReason(b)
<1>1. /\ UNCHANGED <<attempt, timeouts, tx, late, refused>>
      /\ replies' \in [Announces -> SUBSET Reply]
      /\ replies'[a] \subseteq replies[a]
      /\ \A b \in Announces \ {a} : replies'[b] = replies[b]
  BY DEF Rejected, getHTTPPeers, LookupIP, DialFails, AllIPsFailed, Announced, socketVars,
         TrackerInv
<1>2. /\ tracker' \in [Announces -> TrackerStates]
      /\ \A b \in Announces \ {a} : tracker'[b] = tracker[b]
      /\ tracker'[a] \in {"answered", "failed", "dial"}
      /\ tracker'[a] = "dial" => ~Asking(a)
  BY DEF Rejected, getHTTPPeers, LookupIP, DialFails, AllIPsFailed, Announced, Merge, Fail,
         TrackerInv, TrackerStates, Asking
<1>3. \A b \in Announces : \A m \in replies'[b] : m.tx <= tx'[b]
  BY <1>1 DEF TrackerInv
<1>4. ~Asking(a)' /\ \A b \in Announces \ {a} : Explained(b)'
  BY <1>1, <1>2 DEF TrackerInv, Explained, Asking
<1>5. \A b \in Announces : HasReason(b)
  BY <1>2 DEF HasReason, Asking
<1>6. \A b \in Announces : Explained(b)'
  BY <1>4 DEF Explained
<1> QED
  BY <1>1, <1>2, <1>3, <1>5, <1>6 DEF TrackerInv, TrackerStates

\* A new request, with the count of timeouts at zero.
LEMMA RequestSteps ==
    ASSUME TrackerInv, NEW a \in Announces, Dial(a) \/ Connected(a)
    PROVE  TrackerInv' /\ \A b \in Announces : HasReason(b)
<1>1. PICK action \in {"connect", "announce"}, left \in SUBSET Reply :
         (\A m \in left : m.tx <= tx[a]) /\ Request(a, action, left)
  <2>1. CASE Dial(a)
    BY <2>1 DEF Dial
  <2>2. CASE Connected(a)
    <3>1. replies[a] \ {Awaited(a)} \in SUBSET Reply
      BY DEF TrackerInv
    <3> QED
      BY <2>2, <3>1 DEF Connected, TrackerInv
  <2> QED
    BY <2>1, <2>2
<1>2. /\ tracker' = [tracker EXCEPT ![a] = action]
      /\ tx' \in [Announces -> Nat]
      /\ replies' \in [Announces -> SUBSET Reply]
      /\ \A m \in replies'[a] :
            /\ m.tx <= tx'[a]
            /\ m.tx = tx'[a] => m.action = action \/ m.action = "error"
      /\ \A b \in Announces \ {a} : replies'[b] = replies[b] /\ tx'[b] = tx[b]
  BY <1>1, RequestStep, Zenon
<1>3. /\ tracker' \in [Announces -> TrackerStates] /\ tracker'[a] = action
      /\ \A b \in Announces \ {a} : tracker'[b] = tracker[b]
  BY <1>2 DEF TrackerInv, TrackerStates
<1>4. /\ attempt' \in [Announces -> 0 .. MaxRetries] /\ attempt'[a] = 1
      /\ timeouts' \in [Announces -> Nat] /\ timeouts'[a] = 0
      /\ \A b \in Announces \ {a} : attempt'[b] = attempt[b] /\ timeouts'[b] = timeouts[b]
  BY TrackerAssumption DEF Dial, Connected, TrackerInv
<1>5. /\ late' \in [Announces -> BOOLEAN] /\ refused' \in [Announces -> BOOLEAN]
      /\ \A b \in Announces \ {a} : late'[b] = late[b] /\ refused'[b] = refused[b]
  BY DEF Dial, Connected, TrackerInv
<1>6. Explained(a)'
  BY <1>2, <1>3, <1>4 DEF Explained
<1>7. \A b \in Announces \ {a} : Explained(b)' /\ \A m \in replies'[b] : m.tx <= tx'[b]
  BY <1>2, <1>3, <1>4, <1>5 DEF TrackerInv, Explained, Asking
<1>8. \A b \in Announces : HasReason(b)
  BY <1>1, <1>3 DEF HasReason, Asking
<1> QED
  BY <1>2, <1>3, <1>4, <1>5, <1>6, <1>7, <1>8 DEF TrackerInv, TrackerStates

\* An attempt that fails.
LEMMA FailedAttempt ==
    ASSUME TrackerInv, NEW a \in Announces, TimesOut(a) \/ Misread(a)
    PROVE  TrackerInv' /\ \A b \in Announces : HasReason(b)
<1>1. PICK left \in SUBSET replies[a] : Retry(a, left)
  BY DEF TimesOut, Misread
<1>2. left \in SUBSET Reply /\ (\A m \in left : m.tx <= tx[a]) /\ Asking(a)
  BY <1>1 DEF TrackerInv, TimesOut, Misread
<1>3. /\ tracker' \in [Announces -> TrackerStates]
      /\ attempt' \in [Announces -> 0 .. MaxRetries]
      /\ tx' \in [Announces -> Nat]
      /\ replies' \in [Announces -> SUBSET Reply]
      /\ \A m \in replies'[a] : m.tx <= tx'[a]
      /\ \A b \in Announces \ {a} :
            /\ tracker'[b] = tracker[b] /\ attempt'[b] = attempt[b]
            /\ tx'[b] = tx[b] /\ replies'[b] = replies[b]
      /\ \/ /\ tracker'[a] = "dial" /\ attempt[a] = MaxRetries
         \/ /\ tracker'[a] = tracker[a] /\ attempt'[a] = attempt[a] + 1
            /\ \A m \in replies'[a] :
                  m.tx = tx'[a] => m.action = tracker'[a] \/ m.action = "error"
  BY <1>1, <1>2, RetryStep, Zenon DEF TrackerStates
<1>4. /\ timeouts[a] \in Nat /\ attempt[a] \in Nat
      /\ late[a] \/ refused[a] \/ timeouts[a] + 1 = attempt[a]
  BY <1>2 DEF TrackerInv, Explained
\* Either the attempt timed out, or what it read was late or an error.
<1>5. /\ timeouts' \in [Announces -> Nat]
      /\ late' \in [Announces -> BOOLEAN] /\ refused' \in [Announces -> BOOLEAN]
      /\ \A b \in Announces \ {a} :
            timeouts'[b] = timeouts[b] /\ late'[b] = late[b] /\ refused'[b] = refused[b]
      /\ late'[a] \/ refused'[a] \/ timeouts'[a] = attempt[a]
  <2>1. CASE TimesOut(a)
    BY <2>1, <1>4 DEF TimesOut, TrackerInv
  <2>2. CASE Misread(a)
    <3>1. PICK m \in replies[a] :
             /\ m # Awaited(a)
             /\ late' = [late EXCEPT ![a] = @ \/ m.tx < tx[a]]
             /\ refused' = [refused EXCEPT ![a] = @ \/ m.action = "error"]
      BY <2>2 DEF Misread
    <3>2. m \in Reply /\ m.tx <= tx[a] /\ m.tx \in Nat /\ tx[a] \in Nat
      BY DEF TrackerInv, Reply
    <3>3. m.tx < tx[a] \/ m.action = "error"
      <4>1. SUFFICES ASSUME m.tx = tx[a] PROVE m.action = "error"
        BY <3>2
      <4>2. m.action = tracker[a] \/ m.action = "error"
        BY <4>1, <1>2 DEF TrackerInv, Explained
      <4>3. m.action # tracker[a]
        BY <4>1, <3>1, <3>2 DEF Awaited, Reply
      <4> QED
        BY <4>2, <4>3
    <3>4. late'[a] \/ refused'[a]
      BY <3>1, <3>3 DEF TrackerInv
    <3>5. timeouts' = timeouts
      BY <2>2 DEF Misread
    <3>6. late' \in [Announces -> BOOLEAN] /\ refused' \in [Announces -> BOOLEAN]
      BY <3>1 DEF TrackerInv
    <3>7. \A b \in Announces \ {a} : late'[b] = late[b] /\ refused'[b] = refused[b]
      BY <3>1 DEF TrackerInv
    <3> QED
      BY <3>4, <3>5, <3>6, <3>7 DEF TrackerInv
  <2> QED
    BY <2>1, <2>2
<1>6. Explained(a)'
  <2>1. CASE tracker'[a] = "dial"
    BY <2>1 DEF Explained, Asking
  <2>2. CASE /\ tracker'[a] = tracker[a] /\ attempt'[a] = attempt[a] + 1
             /\ \A m \in replies'[a] :
                   m.tx = tx'[a] => m.action = tracker'[a] \/ m.action = "error"
    <3>1. timeouts'[a] = attempt[a] => timeouts'[a] + 1 = attempt'[a]
      BY <2>2, <1>4
    <3> QED
      BY <2>2, <3>1, <1>5, Zenon DEF Explained
  <2> QED
    BY <2>1, <2>2, <1>3
<1>7. \A b \in Announces \ {a} : Explained(b)' /\ \A m \in replies'[b] : m.tx <= tx'[b]
  BY <1>3, <1>5 DEF TrackerInv, Explained, Asking
<1>8. HasReason(a)
  <2>1. tracker'[a] = "dial" /\ Asking(a) => attempt[a] = MaxRetries
    BY <1>3 DEF Asking
  <2> QED
    BY <2>1, <1>5, Zenon DEF HasReason
<1>9. \A b \in Announces \ {a} : HasReason(b)
  BY <1>3 DEF HasReason, Asking
<1> QED
  BY <1>3, <1>5, <1>6, <1>7, <1>8, <1>9 DEF TrackerInv, TrackerStates

\* The tracker's state is as described, and no IP is given up without a reason.
LEMMA TrackerStep ==
    ASSUME TrackerInv, [\E a \in Announces : GetPeersFrom(a)]_trackerVars
    PROVE  TrackerInv' /\ \A b \in Announces : HasReason(b)
<1>1. CASE UNCHANGED trackerVars
  BY <1>1 DEF trackerVars, socketVars, TrackerInv, Explained, Asking, HasReason
<1>2. ASSUME NEW a \in Announces, GetPeersFrom(a)
      PROVE  TrackerInv' /\ \A b \in Announces : HasReason(b)
  BY <1>2, PlainSteps, RequestSteps, FailedAttempt, Zenon DEF GetPeersFrom
<1> QED
  BY <1>1, <1>2

\* An IP of a tracker is given up only if it refused, if every attempt at a
\* request timed out, or if a reply came late.
THEOREM RetriesAreUsed == SpecDiscovery => GivesUpForAReason
<1>1. InitDiscovery => TrackerInv
  BY TrackerInit DEF InitDiscovery
<1>2. TrackerInv /\ [NextDiscovery]_discoveryVars => TrackerInv'
  BY Steps, TrackerStep
<1>3. TrackerInv /\ [NextDiscovery]_discoveryVars =>
        [\A a \in Announces : Asking(a) /\ tracker'[a] = "dial" =>
            timeouts'[a] = MaxRetries \/ late'[a] \/ refused'[a]]_trackerVars
  BY Steps, TrackerStep DEF HasReason
<1> QED
  BY <1>1, <1>2, <1>3, PTL DEF SpecDiscovery, GivesUpForAReason

-----------------------------------------------------------------------------
(* What discoverPeers returns. *)

\* What the search found.
Discovered == discovered = UNION {Values[n] : n \in answered}

Collected ==
    /\ answer \in [Announces -> SUBSET Peers]
    /\ \A a \in Announces : Ended(a) \/ answer[a] = {}
    /\ allPeers = UNION {answer[a] : a \in Announces}
    /\ Discovered
    /\ stage \in {"bootstrap", "trackers", "search", "found", "closing", "end"}
    /\ stage \in {"bootstrap", "trackers"} => discovered = {}
    /\ stage \notin {"bootstrap", "trackers"} =>
          \A a \in Announces : Ended(a)
    /\ stage = "search" => peers = allPeers
    /\ stage \in {"found", "closing", "end"} => peers = allPeers \cup discovered

\* A goroutine that ends adds its answer to the result, and none ends twice.
LEMMA TrackerCollects ==
    ASSUME TrackerInv, Collected, NEW a \in Announces, GetPeersFrom(a)
    PROVE  /\ answer' \in [Announces -> SUBSET Peers]
           /\ allPeers' = UNION {answer'[b] : b \in Announces}
           /\ \A b \in Announces : Ended(b)' \/ answer'[b] = {}
           /\ ~Ended(a)
<1>1. parsePeers(PeersOf[a]) \in SUBSET Peers
  BY TrackerAssumption DEF parsePeers
<1>2. ~Ended(a)
  BY DEF GetPeersFrom, Rejected, getHTTPPeers, LookupIP, Dial, DialFails, AllIPsFailed,
         TimesOut, Misread, Connected, Announced, Asking, Ended
<1>3. \/ answer' = answer /\ allPeers' = allPeers
      \/ \E found \in SUBSET Peers : Merge(a, found)
  BY <1>1 DEF GetPeersFrom, Rejected, getHTTPPeers, LookupIP, Dial, DialFails, AllIPsFailed,
         TimesOut, Misread, Connected, Announced, Fail
<1>4. tracker' \in [Announces -> TrackerStates]
      /\ \A b \in Announces \ {a} : tracker'[b] = tracker[b]
  <2>1. TrackerInv'
    BY TrackerStep
  <2>2. \A b \in Announces \ {a} : tracker'[b] = tracker[b]
    BY DEF GetPeersFrom, Rejected, getHTTPPeers, LookupIP, Dial, DialFails, AllIPsFailed,
           TimesOut, Misread, Connected, Announced, Fail, Merge, Retry, Request, TrackerInv
  <2> QED
    BY <2>1, <2>2 DEF TrackerInv, TrackerStates
<1>5. CASE answer' = answer /\ allPeers' = allPeers
  BY <1>2, <1>4, <1>5 DEF Collected, Ended
<1>6. ASSUME NEW found \in SUBSET Peers, Merge(a, found)
      PROVE  /\ answer' \in [Announces -> SUBSET Peers]
             /\ allPeers' = UNION {answer'[b] : b \in Announces}
             /\ \A b \in Announces : Ended(b)' \/ answer'[b] = {}
  <2>1. /\ answer' = [answer EXCEPT ![a] = found]
        /\ allPeers' = allPeers \cup found
        /\ tracker'[a] = "answered"
        /\ answer[a] = {}
    BY <1>2, <1>6 DEF Merge, Collected, TrackerInv
  <2>2. answer' \in [Announces -> SUBSET Peers]
    BY <2>1 DEF Collected
  <2>3. answer'[a] = found /\ \A b \in Announces \ {a} : answer'[b] = answer[b]
    BY <2>1 DEF Collected
  <2>4. ASSUME NEW p \in allPeers' PROVE \E b \in Announces : p \in answer'[b]
    <3>1. CASE p \in found
      BY <3>1, <2>3
    <3>2. CASE p \in allPeers
      <4>1. PICK b \in Announces : p \in answer[b]
        BY <3>2 DEF Collected
      <4> QED
        BY <4>1, <2>1, <2>3
    <3> QED
      BY <2>1, <3>1, <3>2
  <2>5. ASSUME NEW b \in Announces, NEW p \in answer'[b] PROVE p \in allPeers'
    BY <2>1, <2>3 DEF Collected
  <2>6. \A b \in Announces : Ended(b)' \/ answer'[b] = {}
    BY <1>4, <2>1, <2>3 DEF Collected, Ended
  <2> QED
    BY <2>2, <2>4, <2>5, <2>6
<1> QED
  BY <1>2, <1>3, <1>5, <1>6

\* A search adds the peers of a node with its answer.
LEMMA SearchCollects ==
    ASSUME Discovered, NextDHT
    PROVE  Discovered'
<1>1. CASE Answer
  BY <1>1 DEF Discovered, Answer
<1>2. CASE Bootstrap \/ Listen \/ Close \/ SearchPeers
  <2>1. discovered' = discovered /\ answered' = answered
    BY <1>2 DEF Bootstrap, Listen, Serve, Intercept, Unexpected, handleQuery, Deliver,
                ListenerReturns, Close, SearchPeers, searchVars
  <2> QED
    BY <2>1 DEF Discovered
<1>3. CASE Visited \/ Query \/ QueryFails \/ BrokenAnswer \/ Expires \/ NextRound
  <2>1. discovered' = discovered /\ answered' = answered
    BY <1>3 DEF Visited, Query, QueryFails, BrokenAnswer, Expires, NextRound
  <2> QED
    BY <2>1 DEF Discovered
<1> QED
  BY <1>1, <1>2, <1>3 DEF NextDHT, SearchStep

LEMMA CollectedStep ==
    ASSUME TrackerInv, Collected, [NextDiscovery]_discoveryVars
    PROVE  Collected'
<1>1. ASSUME NEW a \in Announces, AskTracker(a)
      PROVE  Collected'
  <2>1. /\ answer' \in [Announces -> SUBSET Peers]
        /\ allPeers' = UNION {answer'[b] : b \in Announces}
        /\ \A b \in Announces : Ended(b)' \/ answer'[b] = {}
        /\ ~Ended(a)
    BY <1>1, TrackerCollects DEF AskTracker
  <2>2. stage \in {"bootstrap", "trackers"}
    BY <2>1 DEF Collected
  <2>3. UNCHANGED <<discovered, answered, stage, peers>>
    BY <1>1 DEF AskTracker, dhtVars, searchVars, sessionVars
  <2> QED
    BY <2>1, <2>2, <2>3 DEF Collected, Discovered
<1>2. ASSUME UNCHANGED trackerVars
      PROVE  /\ UNCHANGED <<answer, allPeers, tracker>>
             /\ \A a \in Announces : Ended(a)' <=> Ended(a)
  BY <1>2 DEF trackerVars, Ended
<1>3. CASE BootstrapNode
  <2>1. /\ UNCHANGED trackerVars /\ UNCHANGED <<discovered, answered, peers>>
        /\ stage = "bootstrap" /\ stage' = "trackers"
    BY <1>3 DEF BootstrapNode, Bootstrap, searchVars
  <2> QED
    BY <1>2, <2>1 DEF Collected, Discovered
<1>4. CASE GetPeers
  <2>1. UNCHANGED trackerVars /\ UNCHANGED <<discovered, answered>>
    BY <1>4 DEF GetPeers, dhtVars, searchVars
  <2>2. /\ stage = "trackers" /\ \A a \in Announces : Ended(a)
        /\ peers' = allPeers /\ stage' \in {"search", "found"}
    BY <1>4 DEF GetPeers
  <2> QED
    BY <1>2, <2>1, <2>2 DEF Collected, Discovered
<1>5. CASE Search
  <2>1. UNCHANGED trackerVars /\ UNCHANGED <<stage, peers>> /\ stage = "search"
    BY <1>5 DEF Search, sessionVars
  <2>2. Discovered'
    BY <1>5, SearchCollects DEF Search, NextDHT, Collected
  <2> QED
    BY <1>2, <2>1, <2>2 DEF Collected
<1>6. CASE discoverPeers
  <2>1. /\ UNCHANGED trackerVars /\ UNCHANGED <<discovered, answered>>
        /\ stage = "search" /\ stage' = "found" /\ peers' = peers \cup discovered
    BY <1>6 DEF discoverPeers, dhtVars, searchVars
  <2> QED
    BY <1>2, <2>1 DEF Collected, Discovered
<1>7. CASE CloseNode \/ NodeClosed
  <2>1. /\ UNCHANGED trackerVars /\ UNCHANGED <<discovered, answered, peers>>
        /\ stage \in {"found", "closing"} /\ stage' \in {"closing", "end"}
    BY <1>7 DEF CloseNode, NodeClosed, Close, dhtVars, searchVars
  <2> QED
    BY <1>2, <2>1 DEF Collected, Discovered
<1>8. CASE ListenNode \/ UNCHANGED discoveryVars
  <2>1. /\ UNCHANGED trackerVars /\ UNCHANGED <<discovered, answered, stage, peers>>
    BY <1>8 DEF ListenNode, Listen, Serve, Intercept, Unexpected, handleQuery, Deliver,
                ListenerReturns, discoveryVars, dhtVars, searchVars, sessionVars
  <2> QED
    BY <1>2, <2>1 DEF Collected, Discovered
<1> QED
  BY <1>1, <1>3, <1>4, <1>5, <1>6, <1>7, <1>8 DEF NextDiscovery, SessionStep

\* The error of GetPeers says that no tracker had a peer.
ErrorIsTrue == stage \notin {"bootstrap", "trackers"} => (trackerErr <=> allPeers = {})

LEMMA ErrorStep ==
    ASSUME TrackerInv, Collected, ErrorIsTrue, [NextDiscovery]_discoveryVars
    PROVE  ErrorIsTrue'
<1>1. CASE GetPeers
  <2>1. trackerErr' = (allPeers = {}) /\ allPeers' = allPeers
    BY <1>1 DEF GetPeers, trackerVars
  <2> QED
    BY <2>1, Zenon DEF ErrorIsTrue
<1>2. CASE BootstrapNode
  BY <1>2 DEF BootstrapNode, ErrorIsTrue
<1>3. ASSUME NEW a \in Announces, AskTracker(a)
      PROVE  stage \in {"bootstrap", "trackers"} /\ stage' = stage
  <2>1. ~Ended(a)
    BY <1>3, TrackerCollects DEF AskTracker
  <2> QED
    BY <1>3, <2>1 DEF AskTracker, sessionVars, Collected
<1>4. CASE Search \/ discoverPeers \/ NodeClosed \/ CloseNode \/ ListenNode
           \/ UNCHANGED discoveryVars
  <2>1. allPeers' = allPeers /\ trackerErr' = trackerErr
    BY <1>4 DEF Search, discoverPeers, NodeClosed, CloseNode, ListenNode, discoveryVars,
                trackerVars, sessionVars
  <2>2. stage' \notin {"bootstrap", "trackers"} => stage \notin {"bootstrap", "trackers"}
    BY <1>4 DEF Search, discoverPeers, NodeClosed, CloseNode, ListenNode, discoveryVars,
                sessionVars
  <2> QED
    BY <2>1, <2>2, Zenon DEF ErrorIsTrue
<1>5. ASSUME stage \in {"bootstrap", "trackers"} /\ stage' = stage PROVE ErrorIsTrue'
  BY <1>5 DEF ErrorIsTrue
<1> QED
  BY <1>1, <1>2, <1>3, <1>4, <1>5, Zenon DEF NextDiscovery, SessionStep

\* discoverPeers returns all the trackers and the DHT found, and an error if no
\* tracker had a peer.
THEOREM EverythingIsReturned == SpecDiscovery => []NothingHeardIsDropped
<1>1. InitDiscovery => TrackerInv /\ Collected /\ ErrorIsTrue
  <2> SUFFICES ASSUME InitDiscovery PROVE TrackerInv /\ Collected /\ ErrorIsTrue
    OBVIOUS
  <2>1. TrackerInv
    BY TrackerInit DEF InitDiscovery
  <2>2. /\ answer = [a \in Announces |-> {}] /\ allPeers = {}
        /\ discovered = {} /\ answered = {}
        /\ stage \in {"bootstrap", "trackers"}
    BY DEF InitDiscovery, InitTracker, InitDHT
  <2>3. ErrorIsTrue
    BY <2>2 DEF ErrorIsTrue
  <2> QED
    BY <2>1, <2>2, <2>3 DEF Collected, Discovered
<1>2. TrackerInv /\ Collected /\ ErrorIsTrue /\ [NextDiscovery]_discoveryVars
        => TrackerInv' /\ Collected' /\ ErrorIsTrue'
  BY Steps, TrackerStep, CollectedStep, ErrorStep, Zenon
<1>3. Collected /\ ErrorIsTrue => NothingHeardIsDropped
  <2> SUFFICES ASSUME Collected, ErrorIsTrue, stage \in {"found", "closing", "end"}
               PROVE  /\ peers = (UNION {answer[a] : a \in Announces})
                                 \cup (UNION {Values[n] : n \in answered})
                      /\ trackerErr <=> \A a \in Announces : answer[a] = {}
    BY DEF NothingHeardIsDropped
  <2>1. /\ peers = allPeers \cup discovered
        /\ allPeers = UNION {answer[a] : a \in Announces}
        /\ discovered = UNION {Values[n] : n \in answered}
    BY DEF Collected, Discovered
  <2>2. trackerErr <=> allPeers = {}
    BY DEF ErrorIsTrue
  <2>3. allPeers = {} <=> \A a \in Announces : answer[a] = {}
    BY <2>1
  <2>4. peers = (UNION {answer[a] : a \in Announces})
                   \cup (UNION {Values[n] : n \in answered})
    BY <2>1
  <2>5. trackerErr <=> \A a \in Announces : answer[a] = {}
    BY <2>2, <2>3, Zenon
  <2> QED
    BY <2>4, <2>5, Zenon
<1> QED
  BY <1>1, <1>2, <1>3, PTL DEF SpecDiscovery

-----------------------------------------------------------------------------
(* The DHT: whose answer a query gets. *)

\* Every reply has the identifier of a query that was made, and one with that of
\* the query under way comes from the contact it asked.
Identified ==
    /\ txCounter \in Nat
    /\ \A m \in net : m.tx \in Nat /\ m.tx <= txCounter
    /\ search = "wait" =>
          txCounter > 0 /\ \A m \in net : m.tx = txCounter => m.from = contact
    /\ listener = "deliver" => held \in net
    /\ ch # Nothing => search = "wait" /\ ch.from = contact
    /\ waiters \subseteq (IF search = "wait" THEN {txCounter} ELSE {})

\* No query was made yet.
LEMMA IdentifiedInit == InitDHT => Identified
  BY DEF InitDHT, Identified

LEMMA IdentifiedStep == Identified /\ [NextDHT]_dhtVars => Identified'
<1> SUFFICES ASSUME Identified, [NextDHT]_dhtVars PROVE Identified'
  OBVIOUS
<1> USE DEF Identified, listenVars, searchVars
<1>1. CASE Bootstrap
  <2>1. /\ net' = net \cup {[tx |-> Bootstrapping, from |-> r] : r \in Routers}
        /\ UNCHANGED <<txCounter, search, contact, listener, held, ch, waiters>>
    BY <1>1 DEF Bootstrap
  <2>2. \A m \in net' : m \in net \/ m.tx = 0
    BY <2>1 DEF Bootstrapping
  <2> QED
    BY <2>1, <2>2
<1>2. ASSUME NEW m \in net, Intercept(m) PROVE Identified'
  BY <1>2 DEF Intercept
<1>3. CASE Deliver
  <2>1. /\ UNCHANGED <<txCounter, search, contact, net, waiters>> /\ listener' = "read"
        /\ ch' = IF search = "wait" /\ held.tx = txCounter THEN held ELSE ch
        /\ held \in net
    BY <1>3 DEF Deliver
  <2> QED
    BY <2>1
<1>4. ASSUME NEW m \in net, Unexpected(m) PROVE Identified'
  BY <1>4 DEF Unexpected
<1>5. ASSUME NEW c \in Strangers, handleQuery(c) PROVE Identified'
  BY <1>5 DEF handleQuery
<1>6. CASE ListenerReturns \/ Close \/ UNCHANGED dhtVars
  BY <1>6 DEF ListenerReturns, Close, dhtVars
<1>7. CASE SearchPeers \/ Visited \/ NextRound
  <2>1. /\ UNCHANGED <<txCounter, contact, net, listener, held, ch, waiters>>
        /\ search # "wait" /\ search' # "wait"
    BY <1>7 DEF SearchPeers, Visited, NextRound
  <2> QED
    BY <2>1
<1>8. CASE Query
  <2>1. /\ txCounter' = txCounter + 1 /\ search' = "wait" /\ search = "loop"
        /\ net' = net \cup {[tx |-> txCounter', from |-> contact']}
        /\ waiters' = waiters \cup {txCounter'} /\ ch' = Nothing
        /\ UNCHANGED <<listener, held>>
    BY <1>8 DEF Query, NextTx
  <2>2. waiters' = {txCounter'}
    BY <2>1
  <2>3. \A m \in net' : m \in net \/ m = [tx |-> txCounter', from |-> contact']
    BY <2>1
  <2>4. \A m \in net' : /\ m.tx \in Nat /\ m.tx <= txCounter'
                        /\ m.tx = txCounter' => m.from = contact'
    BY <2>1, <2>3
  <2> QED
    BY <2>1, <2>2, <2>4
<1>9. CASE QueryFails
  <2>1. /\ txCounter' = txCounter + 1 /\ search' = "loop" /\ search = "loop"
        /\ waiters' = waiters \ {txCounter'} /\ ch' = Nothing
        /\ UNCHANGED <<net, listener, held>>
    BY <1>9 DEF QueryFails, NextTx
  <2> QED
    BY <2>1
<1>10. CASE Returns
  BY <1>10 DEF Returns
<1> QED
  BY <1>1, <1>2, <1>3, <1>4, <1>5, <1>6, <1>7, <1>8, <1>9, <1>10
     DEF NextDHT, Listen, Serve, SearchStep, Answer, BrokenAnswer, Expires

\* A query gets the answer of the contact it asked or none, however late the
\* others are; and no query leaves its waiter behind.
THEOREM NoLateAnswer == SpecDiscovery => []AnswersItsQuery
<1>1. InitDiscovery => Identified
  BY IdentifiedInit DEF InitDiscovery
<1>2. Identified /\ [NextDiscovery]_discoveryVars => Identified'
  BY Steps, IdentifiedStep
<1>3. Identified => AnswersItsQuery
  BY DEF Identified, AnswersItsQuery
<1> QED
  BY <1>1, <1>2, <1>3, PTL DEF SpecDiscovery

-----------------------------------------------------------------------------
(* The routing table. *)

\* A bucket holds a node once.
Distinct(kb) == \A i, j \in DOMAIN kb : kb[i].id = kb[j].id => i = j

\* KBucket.Add keeps a bucket small and free of repetitions, and what it held; the
\* contact is the last of it unless the bucket is full of others.
LEMMA AddToBucketIsSound ==
    ASSUME NEW kb \in Seq(Contacts), Len(kb) <= K, Distinct(kb), NEW c \in Contacts
    PROVE  /\ AddToBucket(kb, c) \in Seq(Contacts)
           /\ Len(AddToBucket(kb, c)) <= K
           /\ Distinct(AddToBucket(kb, c))
           /\ \A i \in DOMAIN AddToBucket(kb, c) :
                 \/ AddToBucket(kb, c)[i] = c
                 \/ \E j \in DOMAIN kb :
                       AddToBucket(kb, c)[i] = kb[j]
                       /\ (kb[j].id # c.id \/ AddToBucket(kb, c) = kb)
           /\ \A j \in DOMAIN kb : \E i \in DOMAIN AddToBucket(kb, c) :
                 AddToBucket(kb, c)[i].id = kb[j].id
           /\ Len(AddToBucket(kb, c)) < K =>
                 \E i \in DOMAIN AddToBucket(kb, c) : AddToBucket(kb, c)[i].id = c.id
           /\ AddToBucket(kb, c) = kb => \A i \in DOMAIN kb : kb[i].id = c.id => kb[i] = c
<1> DEFINE new == AddToBucket(kb, c)
<1> USE DHTAssumption DEF Distinct
<1>1. CASE \E i \in DOMAIN kb : kb[i].id = c.id
  <2>1. PICK i \in DOMAIN kb : i = (CHOOSE k \in DOMAIN kb : kb[k].id = c.id)
                               /\ kb[i].id = c.id
    BY <1>1
  <2>2. i \in 1 .. Len(kb) /\ Len(kb) \in Nat
    OBVIOUS
  <2>3. new = Append(Without(kb, i), c)
    BY <1>1, <2>1 DEF AddToBucket
  <2>4. /\ Without(kb, i) \in Seq(Contacts) /\ Len(Without(kb, i)) = Len(kb) - 1
        /\ \A j \in 1 .. Len(kb) - 1 :
              Without(kb, i)[j] = IF j < i THEN kb[j] ELSE kb[j + 1]
    BY <2>2 DEF Without
  <2>5. /\ new \in Seq(Contacts) /\ Len(new) = Len(kb) /\ new[Len(kb)] = c
        /\ \A j \in 1 .. Len(kb) - 1 : new[j] = IF j < i THEN kb[j] ELSE kb[j + 1]
    BY <2>2, <2>3, <2>4
  <2> HIDE DEF new
  <2> DEFINE Old(j) == IF j < i THEN j ELSE j + 1
  <2>a. ASSUME NEW j \in 1 .. Len(kb) - 1
        PROVE  Old(j) \in DOMAIN kb /\ Old(j) # i /\ new[j] = kb[Old(j)]
    BY <2>2, <2>5
  <2>b. \A j, k \in 1 .. Len(kb) - 1 : Old(j) = Old(k) => j = k
    BY <2>2
  <2> HIDE DEF Old
  <2>6. \A j \in 1 .. Len(kb) - 1 : new[j].id # c.id
    BY <2>1, <2>a
  <2>7. Distinct(new)
    <3>1. ASSUME NEW j \in 1 .. Len(kb) - 1, NEW k \in 1 .. Len(kb) - 1,
                 new[j].id = new[k].id
          PROVE  j = k
      <4>1. /\ Old(j) \in DOMAIN kb /\ new[j] = kb[Old(j)]
            /\ Old(k) \in DOMAIN kb /\ new[k] = kb[Old(k)]
        BY <2>a
      <4>2. Old(j) = Old(k)
        BY <4>1, <3>1
      <4> QED
        BY <4>2, <2>b
    <3>2. ASSUME NEW j \in 1 .. Len(kb), NEW k \in 1 .. Len(kb), new[j].id = new[k].id
          PROVE  j = k
      <4>1. CASE j = Len(kb) /\ k = Len(kb)
        BY <4>1
      <4>2. CASE j = Len(kb) /\ k # Len(kb)
        <5>1. k \in 1 .. Len(kb) - 1
          BY <4>2, <2>2
        <5> QED
          BY <5>1, <4>2, <3>2, <2>5, <2>6
      <4>3. CASE j # Len(kb) /\ k = Len(kb)
        <5>1. j \in 1 .. Len(kb) - 1
          BY <4>3, <2>2
        <5> QED
          BY <5>1, <4>3, <3>2, <2>5, <2>6
      <4>4. CASE j # Len(kb) /\ k # Len(kb)
        <5>1. j \in 1 .. Len(kb) - 1 /\ k \in 1 .. Len(kb) - 1
          BY <4>4, <2>2
        <5> QED
          BY <5>1, <3>2, <3>1
      <4> QED
        BY <4>1, <4>2, <4>3, <4>4
    <3>3. DOMAIN new = 1 .. Len(kb)
      BY <2>5
    <3> QED
      BY <3>2, <3>3
  <2>8. ASSUME NEW k \in DOMAIN new
        PROVE  new[k] = c \/ \E j \in DOMAIN kb : new[k] = kb[j] /\ kb[j].id # c.id
    <3>1. CASE k = Len(kb)
      BY <3>1, <2>5
    <3>2. CASE k # Len(kb)
      <4>1. k \in 1 .. Len(kb) - 1
        BY <3>2, <2>2, <2>5
      <4> QED
        BY <4>1, <2>a, <2>6
    <3> QED
      BY <3>1, <3>2
  <2>9. ASSUME NEW j \in DOMAIN kb PROVE \E k \in DOMAIN new : new[k].id = kb[j].id
    <3>1. CASE j < i
      <4>1. j \in 1 .. Len(kb) - 1 /\ j \in DOMAIN new
        BY <3>1, <2>2, <2>5
      <4>2. new[j] = kb[j]
        BY <4>1, <3>1, <2>a DEF Old
      <4> QED
        BY <4>1, <4>2
    <3>2. CASE j = i
      <4>1. Len(kb) \in DOMAIN new
        BY <2>2, <2>5
      <4> QED
        BY <4>1, <3>2, <2>1, <2>5
    <3>3. CASE j > i
      <4>1. j - 1 \in 1 .. Len(kb) - 1 /\ j - 1 \in DOMAIN new /\ ~(j - 1 < i)
        BY <3>3, <2>2, <2>5
      <4>2. new[j - 1] = kb[(j - 1) + 1] /\ (j - 1) + 1 = j
        BY <4>1, <2>a DEF Old
      <4> QED
        BY <4>1, <4>2
    <3> QED
      BY <2>2, <3>1, <3>2, <3>3
  <2>10. Len(kb) \in DOMAIN new /\ new[Len(kb)].id = c.id
    BY <2>2, <2>5
  <2>11. new = kb => \A k \in DOMAIN kb : kb[k].id = c.id => kb[k] = c
    BY <2>5, <2>6, <2>2
  <2>12. Len(new) <= K
    BY <2>5
  <2>13. new \in Seq(Contacts)
    BY <2>5
  <2> QED
    BY <2>7, <2>8, <2>9, <2>10, <2>11, <2>12, <2>13 DEF new
<1>2. CASE /\ ~\E i \in DOMAIN kb : kb[i].id = c.id
           /\ Len(kb) < K
  <2>1. new = Append(kb, c)
    BY <1>2 DEF AddToBucket
  <2>2. /\ new \in Seq(Contacts) /\ Len(new) = Len(kb) + 1 /\ new[Len(kb) + 1] = c
        /\ \A j \in 1 .. Len(kb) : new[j] = kb[j]
    BY <2>1
  <2>3. Len(new) <= K
    BY <1>2, <2>2
  <2>4. \A j \in DOMAIN new : j = Len(kb) + 1 \/ j \in DOMAIN kb
    BY <2>2
  <2>5. \A j \in DOMAIN kb : j \in DOMAIN new /\ new[j] = kb[j]
    BY <2>2
  <2>6. Len(kb) + 1 \in DOMAIN new
    BY <2>2
  <2>7. Distinct(new)
    BY <1>2, <2>2, <2>4, <2>5
  <2> QED
    BY <1>2, <2>2, <2>3, <2>4, <2>5, <2>6, <2>7
<1>3. CASE /\ ~\E i \in DOMAIN kb : kb[i].id = c.id
           /\ ~Len(kb) < K
  <2>1. new = kb
    BY <1>3 DEF AddToBucket
  <2> QED
    BY <1>3, <2>1
<1> QED
  BY <1>1, <1>2, <1>3

\* A non-empty set of naturals has a least element.
LEMMA LeastNatural ==
    ASSUME NEW T \in SUBSET Nat, T # {}
    PROVE  \E x \in T : \A y \in T : x <= y
<1> DEFINE R == {ss \in Nat \X Nat : ss[1] < ss[2]}
<1>1. IsWellFoundedOn(R, Nat)
  BY NatLessThanWellFounded DEF OpToRel
<1>2. PICK x \in T : \A y \in T : <<y, x>> \notin R
  BY <1>1, WFMin
<1>3. \A y \in T : ~(y < x)
  BY <1>2
<1> QED
  BY <1>3

\* Every identifier has its bucket.
LEMMA BucketExists ==
    ASSUME NEW id \in IDs
    PROVE  BucketIndex(ID, id) \in 1 .. Bits
<1>1. CASE ID = id
  BY <1>1, DHTAssumption DEF BucketIndex
<1>2. CASE ID # id
  <2> DEFINE Differ == {i \in 1 .. Bits : ID[i] # id[i]}
  <2>1. Differ # {} /\ Differ \in SUBSET Nat
    <3>1. ASSUME Differ = {} PROVE FALSE
      <4>1. \A i \in 1 .. Bits : ID[i] = id[i]
        BY <3>1
      <4>2. ID \in [1 .. Bits -> {0, 1}] /\ id \in [1 .. Bits -> {0, 1}]
        BY DHTAssumption DEF IDs
      <4>3. ID = [i \in 1 .. Bits |-> ID[i]] /\ id = [i \in 1 .. Bits |-> id[i]]
        BY <4>2
      <4> QED
        BY <1>2, <4>1, <4>3, Zenon
    <3>2. Differ \in SUBSET Nat
      BY DHTAssumption
    <3> QED
      BY <3>1, <3>2
  <2>2. PICK i \in Differ : \A j \in Differ : i <= j
    BY <2>1, LeastNatural
  <2>3. i \in 1 .. Bits /\ ID[i] # id[i]
    OBVIOUS
  <2>4. \A j \in 1 .. i - 1 : ID[j] = id[j]
    BY <2>2, <2>3, DHTAssumption
  <2> QED
    BY <1>2, <2>3, <2>4 DEF BucketIndex
<1> QED
  BY <1>1, <1>2

Table ==
    /\ buckets \in [1 .. Bits -> Seq(Contacts)]
    /\ lastHost \in [IDs -> SUBSET Hosts]

\* One bucket of a sound table.
BucketSound(b) ==
    /\ Len(buckets[b]) <= K
    /\ Distinct(buckets[b])
    /\ \A i \in DOMAIN buckets[b] :
          /\ BucketIndex(ID, buckets[b][i].id) = b /\ buckets[b][i].id # ID
          /\ lastHost[buckets[b][i].id] = {buckets[b][i].host}
    /\ Len(buckets[b]) < K =>
          \A n \in IDs \ {ID} : BucketIndex(ID, n) = b /\ lastHost[n] # {} =>
             \E i \in DOMAIN buckets[b] : buckets[b][i].id = n

LEMMA BucketsAndTable == TableSound <=> \A b \in 1 .. Bits : BucketSound(b)
  BY DEF TableSound, BucketSound, Distinct

\* RoutingTable.Add keeps the table sound.
LEMMA AddStep ==
    ASSUME Table, TableSound, NEW c \in Contacts, Add(c)
    PROVE  Table' /\ TableSound'
<1> DEFINE at == BucketIndex(ID, c.id)
           old == buckets[at]
           new == AddToBucket(old, c)
<1>1. c.id \in IDs /\ c.host \in Hosts /\ c = [id |-> c.id, host |-> c.host]
  BY DEF Contacts
<1>2. at \in 1 .. Bits
  BY <1>1, BucketExists
<1>3. /\ lastHost' = [lastHost EXCEPT ![c.id] = {c.host}]
      /\ lastHost' \in [IDs -> SUBSET Hosts]
      /\ lastHost'[c.id] = {c.host}
      /\ \A n \in IDs \ {c.id} : lastHost'[n] = lastHost[n]
  BY <1>1 DEF Add, Table
<1>4. \A b \in 1 .. Bits : BucketSound(b)
  BY BucketsAndTable
<1>5. \A b \in 1 .. Bits : \A i \in DOMAIN buckets[b] : buckets[b][i] \in Contacts
  BY DEF Table
<1>6. CASE c.id = ID
  <2>1. buckets' = buckets
    BY <1>6 DEF Add
  <2>2. ASSUME NEW b \in 1 .. Bits PROVE BucketSound(b)'
    <3>1. \A i \in DOMAIN buckets[b] : buckets[b][i].id \in IDs \ {c.id}
      BY <1>4, <1>5, <1>6 DEF BucketSound, Contacts
    <3> QED
      BY <1>3, <1>4, <1>6, <2>1, <3>1 DEF BucketSound
  <2>3. TableSound'
    BY <2>2 DEF TableSound, BucketSound, Distinct
  <2> QED
    BY <1>3, <2>1, <2>3 DEF Table
<1>7. CASE c.id # ID
  <2> HIDE DEF at, old, new
  <2>1. buckets' = [buckets EXCEPT ![at] = new]
    BY <1>7 DEF Add, at, old, new
  <2>2. old \in Seq(Contacts) /\ Len(old) <= K /\ Distinct(old)
    BY <1>2, <1>4 DEF Table, BucketSound, old
  <2>3. /\ new \in Seq(Contacts)
        /\ Len(new) <= K
        /\ Distinct(new)
        /\ \A i \in DOMAIN new :
              \/ new[i] = c
              \/ \E j \in DOMAIN old : new[i] = old[j] /\ (old[j].id # c.id \/ new = old)
        /\ \A j \in DOMAIN old : \E i \in DOMAIN new : new[i].id = old[j].id
        /\ Len(new) < K => \E i \in DOMAIN new : new[i].id = c.id
        /\ new = old => \A i \in DOMAIN old : old[i].id = c.id => old[i] = c
    BY <2>2, AddToBucketIsSound, Zenon DEF new
  <2>4. /\ buckets' \in [1 .. Bits -> Seq(Contacts)] /\ buckets'[at] = new
        /\ \A b \in (1 .. Bits) \ {at} : buckets'[b] = buckets[b]
    BY <1>2, <2>1, <2>3 DEF Table
  <2>5. ASSUME NEW b \in 1 .. Bits, b # at PROVE BucketSound(b)'
    <3>1. \A i \in DOMAIN buckets[b] : buckets[b][i].id \in IDs \ {c.id}
      BY <1>4, <1>5, <2>5 DEF BucketSound, Contacts, at
    <3>2. \A n \in IDs : BucketIndex(ID, n) = b => lastHost'[n] = lastHost[n]
      BY <1>3, <2>5 DEF at
    <3>3. BucketSound(b) /\ buckets'[b] = buckets[b]
      BY <1>4, <2>4, <2>5
    <3>4. \A i \in DOMAIN buckets[b] :
             lastHost'[buckets[b][i].id] = lastHost[buckets[b][i].id]
      BY <1>3, <3>1
    <3> QED
      BY <3>2, <3>3, <3>4 DEF BucketSound
  <2>6. \A i \in DOMAIN new : new[i] = c \/ \E j \in DOMAIN old :
                                 new[i] = old[j] /\ old[j].id # c.id
    BY <2>3
  <2>7. ASSUME NEW i \in DOMAIN new
        PROVE  /\ BucketIndex(ID, new[i].id) = at /\ new[i].id # ID
               /\ lastHost'[new[i].id] = {new[i].host}
    <3>1. CASE new[i] = c
      BY <3>1, <1>3, <1>7 DEF at
    <3>2. ASSUME NEW j \in DOMAIN old, new[i] = old[j], old[j].id # c.id
          PROVE  /\ BucketIndex(ID, new[i].id) = at /\ new[i].id # ID
                 /\ lastHost'[new[i].id] = {new[i].host}
      <4>0. old[j] \in Contacts
        BY <2>2
      <4>1. old[j].id \in IDs \ {c.id}
        BY <3>2, <4>0 DEF Contacts
      <4>2. /\ BucketIndex(ID, old[j].id) = at /\ old[j].id # ID
            /\ lastHost[old[j].id] = {old[j].host}
        BY <1>2, <1>4 DEF BucketSound, old
      <4> QED
        BY <3>2, <4>1, <4>2, <1>3
    <3> QED
      BY <2>6, <3>1, <3>2
  <2>8. ASSUME Len(new) < K, NEW n \in IDs \ {ID}, BucketIndex(ID, n) = at, lastHost'[n] # {}
        PROVE  \E i \in DOMAIN new : new[i].id = n
    <3>1. CASE n = c.id
      BY <3>1, <2>3, <2>8
    <3>2. CASE n # c.id
      <4>1. lastHost[n] # {}
        BY <3>2, <2>8, <1>3
      <4>2. Len(old) < K
        BY <2>2, <2>8, DHTAssumption DEF new, AddToBucket, Without
      <4>3. \E j \in DOMAIN old : old[j].id = n
        BY <4>1, <4>2, <1>2, <1>4, <2>8 DEF BucketSound, old
      <4> QED
        BY <4>3, <2>3
    <3> QED
      BY <3>1, <3>2
  <2>9. BucketSound(at)'
    <3>1. /\ Len(buckets'[at]) <= K /\ Distinct(buckets'[at])
          /\ \A i \in DOMAIN buckets'[at] :
                /\ BucketIndex(ID, buckets'[at][i].id) = at /\ buckets'[at][i].id # ID
                /\ lastHost'[buckets'[at][i].id] = {buckets'[at][i].host}
          /\ Len(buckets'[at]) < K =>
                \A n \in IDs \ {ID} : BucketIndex(ID, n) = at /\ lastHost'[n] # {} =>
                   \E i \in DOMAIN buckets'[at] : buckets'[at][i].id = n
      BY <2>3, <2>4, <2>7, <2>8
    <3> QED
      BY <3>1 DEF BucketSound, at
  <2>10. \A b \in 1 .. Bits : BucketSound(b)'
    BY <2>5, <2>9
  <2>11. TableSound'
    BY <2>10 DEF TableSound, BucketSound, Distinct
  <2> QED
    BY <1>3, <2>4, <2>11 DEF Table
<1> QED
  BY <1>6, <1>7

\* The table has finitely many contacts.
LEMMA FiniteTable == Table => IsFiniteSet(InTable) /\ InTable \subseteq Contacts
<1> SUFFICES ASSUME Table PROVE IsFiniteSet(InTable) /\ InTable \subseteq Contacts
  OBVIOUS
<1> DEFINE In(b) == {buckets[b][i] : i \in DOMAIN buckets[b]}
           All   == {In(b) : b \in 1 .. Bits}
<1>1. ASSUME NEW b \in 1 .. Bits PROVE IsFiniteSet(In(b)) /\ In(b) \subseteq Contacts
  <2> DEFINE f == [i \in DOMAIN buckets[b] |-> buckets[b][i]]
  <2>1. buckets[b] \in Seq(Contacts)
    BY DEF Table
  <2>2. IsFiniteSet(DOMAIN buckets[b])
    <3>1. DOMAIN buckets[b] = 1 .. Len(buckets[b]) /\ Len(buckets[b]) \in Int
      BY <2>1
    <3> QED
      BY <3>1, FS_Interval
  <2>3. f \in Surjection(DOMAIN buckets[b], In(b))
    BY DEF Surjection
  <2>4. IsFiniteSet(In(b))
    BY <2>2, <2>3, FS_Surjection
  <2> QED
    BY <2>1, <2>4
<1>2. IsFiniteSet(All)
  <2> DEFINE g == [b \in 1 .. Bits |-> In(b)]
  <2>1. g \in Surjection(1 .. Bits, All)
    BY DEF Surjection
  <2>2. IsFiniteSet(1 .. Bits)
    BY DHTAssumption, FS_Interval
  <2> QED
    BY <2>1, <2>2, FS_Surjection
<1>3. InTable = UNION All
  BY DEF InTable
<1>4. \A T \in All : IsFiniteSet(T) /\ T \subseteq Contacts
  BY <1>1
<1> HIDE DEF All
<1>5. IsFiniteSet(UNION All)
  BY <1>2, <1>4, FS_UNION
<1> QED
  BY <1>3, <1>4, <1>5

\* Messages and lists of contacts have their types.
Typed ==
    /\ Table
    /\ net \subseteq Replies
    /\ listener = "deliver" => held \in net
    /\ ch # Nothing => ch \in Replies
    /\ closest \in Seq(Contacts) /\ next \in Seq(Contacts)
    /\ contact \in Contacts

\* The empty table is sound.
LEMMA TypedInit == InitDHT => Typed /\ TableSound
<1> SUFFICES ASSUME InitDHT PROVE Typed /\ TableSound
  OBVIOUS
<1>1. Typed
  <2>1. Contacts # {}
    <3>1. PICK n \in Hosts : TRUE
      BY DHTAssumption
    <3>2. [id |-> ID, host |-> n] \in Contacts
      BY DHTAssumption DEF Contacts
    <3> QED
      BY <3>2
  <2>2. contact \in Contacts
    BY <2>1 DEF InitDHT
  <2> QED
    BY <2>2 DEF InitDHT, Typed, Table
<1>2. TableSound
  BY DHTAssumption DEF InitDHT, TableSound
<1> QED
  BY <1>1, <1>2

\* The sender of a reply is entered, or ignored.
LEMMA ResponseStep ==
    ASSUME Typed, TableSound, NEW m \in Replies, handleResponse(m)
    PROVE  Table' /\ TableSound'
<1>1. m.from \in Contacts /\ Table
  BY DEF Replies, Typed
<1>2. CASE m.from.id \in Broken
  <2>1. buckets' = buckets /\ lastHost' = lastHost
    BY <1>2 DEF handleResponse, tableVars
  <2> QED
    BY <1>1, <2>1 DEF Table, TableSound
<1>3. CASE m.from.id \notin Broken
  BY <1>1, <1>3, AddStep DEF handleResponse
<1> QED
  BY <1>2, <1>3

LEMMA TypedStep ==
    ASSUME Identified, Typed, TableSound, [NextDHT]_dhtVars
    PROVE  Typed' /\ TableSound'
<1> USE DEF listenVars, searchVars
<1>0. UNCHANGED tableVars => Table' /\ TableSound'
  <2>1. UNCHANGED tableVars => buckets' = buckets /\ lastHost' = lastHost
    BY DEF tableVars
  <2>2. buckets' = buckets /\ lastHost' = lastHost => Table'
    BY DEF Typed, Table
  <2>3. buckets' = buckets /\ lastHost' = lastHost => TableSound'
    BY DEF TableSound
  <2> QED
    BY <2>1, <2>2, <2>3
<1>1. CASE Bootstrap
  <2>1. {[tx |-> Bootstrapping, from |-> r] : r \in Routers} \subseteq Replies
    BY DHTAssumption DEF Replies, Bootstrapping
  <2> QED
    BY <1>0, <1>1, <2>1 DEF Bootstrap, Typed
<1>2. ASSUME NEW m \in net, Intercept(m) PROVE Typed' /\ TableSound'
  BY <1>0, <1>2 DEF Intercept, Typed
<1>3. CASE Deliver
  <2>1. /\ UNCHANGED <<net, closest, next, contact>> /\ listener' = "read"
        /\ ch' \in {held, ch} /\ handleResponse(held) /\ held \in net
    BY <1>3 DEF Deliver, Typed
  <2>2. held \in Replies
    BY <2>1 DEF Typed
  <2>3. Table' /\ TableSound'
    BY <2>1, <2>2, ResponseStep
  <2> QED
    BY <2>1, <2>2, <2>3 DEF Typed
<1>4. ASSUME NEW m \in net, Unexpected(m) PROVE Typed' /\ TableSound'
  <2>1. m \in Replies
    BY DEF Typed
  <2>2. Table' /\ TableSound'
    BY <1>4, <2>1, ResponseStep DEF Unexpected
  <2> QED
    BY <1>4, <2>2 DEF Unexpected, Typed
<1>5. ASSUME NEW c \in Strangers, handleQuery(c) PROVE Typed' /\ TableSound'
  <2>1. Table' /\ TableSound'
    BY <1>5, AddStep, DHTAssumption DEF handleQuery, Typed
  <2> QED
    BY <1>5, <2>1 DEF handleQuery, Typed
<1>6. CASE ListenerReturns \/ Close \/ UNCHANGED dhtVars
  BY <1>0, <1>6 DEF ListenerReturns, Close, dhtVars, Typed
<1>7. CASE SearchPeers
  <2>1. PICK s \in [1 .. Count -> InTable] : closest' = s
    BY <1>7 DEF SearchPeers
  <2>2. IsFiniteSet(InTable) /\ InTable \subseteq Contacts
    BY FiniteTable DEF Typed
  <2>3. Count \in Nat
    BY <2>2, FS_CardinalityType, DHTAssumption DEF Count
  <2>4. closest' \in Seq(Contacts)
    BY <2>1, <2>2, <2>3
  <2>5. UNCHANGED <<tableVars, net, listener, held, ch, next, contact>>
    BY <1>7 DEF SearchPeers
  <2> QED
    BY <1>0, <2>4, <2>5 DEF Typed
<1>8. CASE Visited
  <2>1. closest # <<>> /\ closest' = Tail(closest)
        /\ UNCHANGED <<tableVars, net, listener, held, ch, next, contact>>
    BY <1>8 DEF Visited
  <2>2. closest' \in Seq(Contacts)
    BY <2>1 DEF Typed
  <2> QED
    BY <1>0, <2>1, <2>2 DEF Typed
<1>9. CASE Query \/ QueryFails
  <2>1. /\ closest # <<>> /\ contact' = Head(closest) /\ closest' = Tail(closest)
        /\ txCounter' = txCounter + 1 /\ ch' = Nothing
        /\ net' \subseteq net \cup {[tx |-> txCounter', from |-> contact']}
        /\ net \subseteq net'
        /\ UNCHANGED <<tableVars, listener, held, next>>
    BY <1>9 DEF Query, QueryFails, NextTx
  <2>2. closest' \in Seq(Contacts) /\ contact' \in Contacts
    BY <2>1 DEF Typed
  <2>3. net' \subseteq Replies
    BY <2>1, <2>2 DEF Typed, Identified, Replies
  <2> QED
    BY <1>0, <2>1, <2>2, <2>3 DEF Typed
<1>10. CASE Returns /\ (next' = next \/ Answer)
  <2>1. UNCHANGED <<tableVars, net, listener, held, closest, contact>> /\ ch' = Nothing
    BY <1>10 DEF Returns
  <2>2. next' \in Seq(Contacts)
    <3>1. CASE next' = next
      BY <3>1 DEF Typed
    <3>2. CASE Answer
      <4>1. ch \in Replies /\ next' = next \o Knows[ch.from.id]
        BY <3>2 DEF Answer, Typed
      <4>2. Knows[ch.from.id] \in Seq(Contacts)
        BY <4>1, DHTAssumption DEF Replies, Contacts
      <4> QED
        BY <4>1, <4>2 DEF Typed
    <3> QED
      BY <1>10, <3>1, <3>2
  <2> QED
    BY <1>0, <2>1, <2>2 DEF Typed
<1>11. CASE NextRound
  <2>1. /\ closest' \in {closest, next} /\ next' \in {next, <<>>}
        /\ UNCHANGED <<tableVars, net, listener, held, ch, contact>>
    BY <1>11 DEF NextRound
  <2>2. closest \in Seq(Contacts) /\ next \in Seq(Contacts) /\ <<>> \in Seq(Contacts)
    BY DEF Typed
  <2>3. closest' \in Seq(Contacts) /\ next' \in Seq(Contacts)
    BY <2>1, <2>2, Zenon
  <2> QED
    BY <1>0, <2>1, <2>3 DEF Typed
<1>12. Answer \/ BrokenAnswer \/ Expires => Returns /\ (next' = next \/ Answer)
  BY DEF Answer, BrokenAnswer, Expires
<1> QED
  BY <1>1, <1>2, <1>3, <1>4, <1>5, <1>6, <1>7, <1>8, <1>9, <1>10, <1>11, <1>12
     DEF NextDHT, Listen, Serve, SearchStep

\* The routing table holds each node once, in its bucket, under the address it was
\* last heard from, and every node that was heard unless its bucket is full.
THEOREM RoutingTableIsSound == SpecDiscovery => []TableSound
<1>1. InitDiscovery => Identified /\ Typed /\ TableSound
  BY IdentifiedInit, TypedInit DEF InitDiscovery
<1>2. Identified /\ Typed /\ TableSound /\ [NextDiscovery]_discoveryVars
        => Identified' /\ Typed' /\ TableSound'
  BY Steps, IdentifiedStep, TypedStep
<1> QED
  BY <1>1, <1>2, PTL DEF SpecDiscovery

-----------------------------------------------------------------------------
(* The search: whom it asks. *)

\* What the nodes of a set tell of.
Told(nodes) == UNION {{Knows[n][i].id : i \in DOMAIN Knows[n]} : n \in nodes}

\* The nodes of a list of contacts.
NodesOf(s) == {s[i].id : i \in DOMAIN s}

\* One round's step of Reach, from the function up to the round before.
Wave(f, k) == IF k = 1 THEN start ELSE f[k - 1] \cup Told(f[k - 1] \cap answered)

\* The recursion of Reach has a solution up to every round.
LEMMA ReachExists ==
    ASSUME NEW r \in Nat
    PROVE  \E f : f = [k \in 1 .. r |-> Wave(f, k)]
<1> DEFINE Solved(n) == \E f : f = [k \in 1 .. n |-> Wave(f, k)]
           T == {n \in Nat : ~Solved(n)}
<1>1. Solved(0)
  <2>1. <<>> = [k \in 1 .. 0 |-> Wave(<<>>, k)]
    OBVIOUS
  <2> QED
    BY <2>1
<1>2. ASSUME NEW n \in Nat, Solved(n) PROVE Solved(n + 1)
  <2>1. PICK f : f = [k \in 1 .. n |-> Wave(f, k)]
    BY <1>2
  <2> DEFINE g == [k \in 1 .. n + 1 |-> Wave(f, k)]
  <2>2. ASSUME NEW k \in 1 .. n PROVE g[k] = f[k]
    <3>1. k \in 1 .. n + 1
      OBVIOUS
    <3>2. f[k] = Wave(f, k)
      BY <2>1
    <3> QED
      BY <3>1, <3>2
  <2>3. ASSUME NEW k \in 1 .. n + 1 PROVE Wave(f, k) = Wave(g, k)
    <3>1. CASE k = 1
      BY <3>1 DEF Wave
    <3>2. CASE k # 1
      <4>1. k - 1 \in 1 .. n
        BY <3>2
      <4>2. g[k - 1] = f[k - 1]
        BY <2>2, <4>1
      <4> QED
        BY <3>2, <4>2 DEF Wave
    <3> QED
      BY <3>1, <3>2
  <2>4. g = [k \in 1 .. n + 1 |-> Wave(g, k)]
    BY <2>3
  <2> QED
    BY <2>4
<1> HIDE DEF Solved
<1>3. T = {}
  <2> SUFFICES ASSUME T # {} PROVE FALSE
    OBVIOUS
  <2>1. PICK m \in T : \A n \in T : m <= n
    <3>1. T \in SUBSET Nat
      OBVIOUS
    <3> QED
      BY <3>1, LeastNatural
  <2>2. m \in Nat /\ ~Solved(m) /\ m # 0
    BY <1>1
  <2>3. m - 1 \in Nat /\ m - 1 \notin T
    BY <2>1, <2>2
  <2>4. Solved(m - 1)
    BY <2>3
  <2>5. Solved((m - 1) + 1)
    BY <1>2, <2>3, <2>4
  <2> QED
    BY <2>2, <2>5
<1>4. Solved(r)
  BY <1>3
<1> QED
  BY <1>4 DEF Solved

\* Reach is what its recursive definition says.
ReachUnfolds ==
    /\ Reach[1] = start
    /\ \A k \in 2 .. Rounds : Reach[k] = Reach[k - 1] \cup Told(Reach[k - 1] \cap answered)

LEMMA ReachHolds == ReachUnfolds
<1> DEFINE G(f) == [k \in 1 .. Rounds |->
                      IF k = 1 THEN start
                      ELSE f[k - 1] \cup
                           UNION {{Knows[n][i].id : i \in DOMAIN Knows[n]}
                                     : n \in f[k - 1] \cap answered}]
<1>1. Rounds \in Nat \ {0}
  BY DHTAssumption
<1>2. \E f : f = G(f)
  BY <1>1, ReachExists DEF Wave, Told
<1>3. Reach = CHOOSE f : f = G(f)
  BY DEF Reach
<1> HIDE DEF G
<1>4. Reach = G(Reach)
  BY <1>2, <1>3, Zenon
<1>5. ASSUME NEW k \in 1 .. Rounds
      PROVE  Reach[k] = IF k = 1 THEN start
                        ELSE Reach[k - 1] \cup Told(Reach[k - 1] \cap answered)
  BY <1>4 DEF G, Told
<1>6. Reach[1] = start
  <2>1. 1 \in 1 .. Rounds
    BY <1>1
  <2> QED
    BY <1>5, <2>1
<1>7. ASSUME NEW k \in 2 .. Rounds
      PROVE  Reach[k] = Reach[k - 1] \cup Told(Reach[k - 1] \cap answered)
  <2>1. k \in 1 .. Rounds /\ k # 1
    BY <1>1
  <2> QED
    BY <1>5, <2>1
<1> QED
  BY <1>6, <1>7 DEF ReachUnfolds

LEMMA ReachHoldsNext == ReachUnfolds'
BY ReachHolds, PTL

\* Rounds only add to what is reached.
LEMMA ReachGrows ==
    ASSUME NEW j \in 1 .. Rounds, NEW k \in 1 .. Rounds, j <= k
    PROVE  Reach[j] \subseteq Reach[k]
<1> DEFINE T == {i \in Nat : i \in j .. Rounds /\ ~(Reach[j] \subseteq Reach[i])}
<1>1. Rounds \in Nat
  BY DHTAssumption
<1>2. T = {}
  <2> SUFFICES ASSUME T # {} PROVE FALSE
    OBVIOUS
  <2>1. PICK m \in T : \A i \in T : m <= i
    <3>1. T \in SUBSET Nat
      OBVIOUS
    <3> QED
      BY <3>1, LeastNatural
  <2>2. m \in j .. Rounds /\ ~(Reach[j] \subseteq Reach[m]) /\ m # j
    OBVIOUS
  <2>3. m - 1 \in j .. Rounds /\ m - 1 \in Nat /\ m \in 2 .. Rounds
    BY <1>1, <2>2
  <2>4. m - 1 \notin T
    BY <2>1, <2>3
  <2>5. Reach[j] \subseteq Reach[m - 1]
    BY <2>3, <2>4
  <2>6. Reach[m - 1] \subseteq Reach[m]
    BY <2>3, ReachHolds DEF ReachUnfolds
  <2> QED
    BY <2>2, <2>5, <2>6
<1>3. k \in j .. Rounds /\ k \in Nat
  BY <1>1
<1> QED
  BY <1>2, <1>3

\* Once a round reaches nothing new, no later one does.
LEMMA ReachSettles ==
    ASSUME NEW j \in 1 .. Rounds, Told(Reach[j] \cap answered) \subseteq Reach[j]
    PROVE  Reach[Rounds] = Reach[j]
<1> DEFINE T == {i \in Nat : i \in j .. Rounds /\ Reach[i] # Reach[j]}
<1>1. Rounds \in Nat
  BY DHTAssumption
<1>2. T = {}
  <2> SUFFICES ASSUME T # {} PROVE FALSE
    OBVIOUS
  <2>1. PICK m \in T : \A i \in T : m <= i
    <3>1. T \in SUBSET Nat
      OBVIOUS
    <3> QED
      BY <3>1, LeastNatural
  <2>2. m \in j .. Rounds /\ Reach[m] # Reach[j] /\ m # j
    OBVIOUS
  <2>3. m - 1 \in j .. Rounds /\ m - 1 \in Nat /\ m \in 2 .. Rounds
    BY <1>1, <2>2
  <2>4. m - 1 \notin T
    BY <2>1, <2>3
  <2>5. Reach[m - 1] = Reach[j]
    BY <2>3, <2>4
  <2>6. Reach[m] = Reach[m - 1] \cup Told(Reach[m - 1] \cap answered)
    BY <2>3, ReachHolds DEF ReachUnfolds
  <2> QED
    BY <2>2, <2>5, <2>6
<1>3. Rounds \in j .. Rounds
  BY <1>1
<1> QED
  BY <1>1, <1>2, <1>3

\* An answer of a node that was not reached before this round changes nothing of
\* what this round and those before it reach.
LEMMA ReachStays ==
    ASSUME NEW r \in 1 .. Rounds, UNCHANGED start, answered \subseteq answered',
           \A k \in 1 .. Rounds : k < r => Reach[k] \cap answered' \subseteq answered
    PROVE  \A k \in 1 .. Rounds : k <= r => Reach'[k] = Reach[k]
<1> DEFINE T == {i \in Nat : i \in 1 .. r /\ Reach'[i] # Reach[i]}
<1>1. Rounds \in Nat /\ r \in Nat
  BY DHTAssumption
<1>2. T = {}
  <2> SUFFICES ASSUME T # {} PROVE FALSE
    OBVIOUS
  <2>1. PICK m \in T : \A i \in T : m <= i
    <3>1. T \in SUBSET Nat
      OBVIOUS
    <3> QED
      BY <3>1, LeastNatural
  <2>2. m \in 1 .. r /\ Reach'[m] # Reach[m]
    OBVIOUS
  <2>3. m # 1
    BY <2>2, ReachHolds, ReachHoldsNext DEF ReachUnfolds
  <2>4. /\ m - 1 \in 1 .. r /\ m - 1 \in Nat /\ m - 1 \in 1 .. Rounds /\ m - 1 < r
        /\ m \in 2 .. Rounds
    BY <1>1, <2>2, <2>3
  <2>5. Reach'[m - 1] = Reach[m - 1]
    <3>1. m - 1 \notin T
      BY <2>1, <2>4
    <3> QED
      BY <2>4, <3>1
  <2>6. Reach[m - 1] \cap answered' = Reach[m - 1] \cap answered
    BY <2>4
  <2>7. Reach[m] = Reach[m - 1] \cup Told(Reach[m - 1] \cap answered)
    BY <2>4, ReachHolds DEF ReachUnfolds
  <2>8. Reach'[m] = Reach'[m - 1] \cup Told(Reach'[m - 1] \cap answered')
    BY <2>4, ReachHoldsNext DEF ReachUnfolds, Told
  <2> QED
    BY <2>2, <2>5, <2>6, <2>7, <2>8
<1>3. \A k \in 1 .. Rounds : k <= r => k \in Nat /\ k \in 1 .. r
  BY <1>1
<1> QED
  BY <1>2, <1>3

\* Lists of contacts, by the nodes in them.
LEMMA NodesOfLists ==
    /\ NodesOf(<<>>) = {}
    /\ \A s \in Seq(Contacts) : s # <<>> => NodesOf(s) = {Head(s).id} \cup NodesOf(Tail(s))
    /\ \A s, t \in Seq(Contacts) : NodesOf(s \o t) = NodesOf(s) \cup NodesOf(t)
<1>1. NodesOf(<<>>) = {}
  BY DEF NodesOf
<1>2. ASSUME NEW s \in Seq(Contacts), s # <<>>
      PROVE  NodesOf(s) = {Head(s).id} \cup NodesOf(Tail(s))
  <2>1. /\ Len(s) \in Nat \ {0} /\ DOMAIN s = 1 .. Len(s)
        /\ Len(Tail(s)) = Len(s) - 1 /\ DOMAIN Tail(s) = 1 .. Len(s) - 1
        /\ Head(s) = s[1] /\ \A i \in 1 .. Len(s) - 1 : Tail(s)[i] = s[i + 1]
    BY <1>2
  <2>2. ASSUME NEW i \in 1 .. Len(s) PROVE s[i].id \in {Head(s).id} \cup NodesOf(Tail(s))
    <3>1. CASE i = 1
      BY <2>1, <3>1
    <3>2. CASE i # 1
      <4>1. i - 1 \in 1 .. Len(s) - 1 /\ (i - 1) + 1 = i
        BY <2>1, <3>2
      <4>2. Tail(s)[i - 1] = s[i]
        BY <2>1, <4>1
      <4> QED
        BY <2>1, <4>1, <4>2 DEF NodesOf
    <3> QED
      BY <3>1, <3>2
  <2>3. ASSUME NEW i \in 1 .. Len(s) - 1 PROVE Tail(s)[i].id \in NodesOf(s)
    <3>1. i + 1 \in 1 .. Len(s)
      BY <2>1
    <3> QED
      BY <2>1, <3>1 DEF NodesOf
  <2>4. Head(s).id \in NodesOf(s)
    BY <2>1 DEF NodesOf
  <2> QED
    BY <2>1, <2>2, <2>3, <2>4 DEF NodesOf
<1>3. ASSUME NEW s \in Seq(Contacts), NEW t \in Seq(Contacts)
      PROVE  NodesOf(s \o t) = NodesOf(s) \cup NodesOf(t)
  <2>1. /\ Len(s) \in Nat /\ Len(t) \in Nat
        /\ DOMAIN s = 1 .. Len(s) /\ DOMAIN t = 1 .. Len(t)
        /\ DOMAIN (s \o t) = 1 .. Len(s) + Len(t)
        /\ \A i \in 1 .. Len(s) : (s \o t)[i] = s[i]
        /\ \A i \in 1 .. Len(t) : (s \o t)[Len(s) + i] = t[i]
    OBVIOUS
  <2>2. ASSUME NEW i \in 1 .. Len(s) + Len(t)
        PROVE  (s \o t)[i].id \in NodesOf(s) \cup NodesOf(t)
    <3>1. CASE i <= Len(s)
      <4>1. i \in 1 .. Len(s)
        BY <2>1, <3>1
      <4> QED
        BY <2>1, <4>1 DEF NodesOf
    <3>2. CASE i > Len(s)
      <4>1. i - Len(s) \in 1 .. Len(t) /\ Len(s) + (i - Len(s)) = i
        BY <2>1, <3>2
      <4>2. (s \o t)[i] = t[i - Len(s)]
        BY <2>1, <4>1
      <4> QED
        BY <2>1, <4>1, <4>2 DEF NodesOf
    <3> QED
      BY <2>1, <3>1, <3>2
  <2>3. ASSUME NEW i \in 1 .. Len(s) PROVE s[i].id \in NodesOf(s \o t)
    <3>1. i \in 1 .. Len(s) + Len(t)
      BY <2>1
    <3> QED
      BY <2>1, <3>1 DEF NodesOf
  <2>4. ASSUME NEW i \in 1 .. Len(t) PROVE t[i].id \in NodesOf(s \o t)
    <3>1. Len(s) + i \in 1 .. Len(s) + Len(t)
      BY <2>1
    <3> QED
      BY <2>1, <3>1 DEF NodesOf
  <2> QED
    BY <2>1, <2>2, <2>3, <2>4 DEF NodesOf
<1> QED
  BY <1>1, <1>2, <1>3

\* A node that no earlier round reached.
New(n) == \A k \in 1 .. Rounds : k < round => n \notin Reach[k]

\* The search is at the right place: visited and still to come are what this round
\* reaches, the next round adds what the answers told of, and the node being asked
\* was not reached before.
Searching ==
    /\ round \in 1 .. Rounds
    /\ search \in {"idle", "loop", "wait", "done"}
    /\ search = "idle" => /\ round = 1 /\ closest = <<>> /\ next = <<>>
                          /\ visited = {} /\ answered = {} /\ start = {}
    /\ answered \subseteq visited
    /\ visited \cup NodesOf(closest) = Reach[round]
    /\ Reach[round] \cup Told(answered) = Reach[round] \cup NodesOf(next)
    /\ \A k \in 1 .. Rounds : k < round => Reach[k] \subseteq visited
    /\ search = "wait" => contact.id \in visited \ answered /\ New(contact.id)
    /\ search = "done" => closest = <<>> /\ (round = Rounds \/ next = <<>>)

LEMMA SearchingInit == InitDHT => Searching
<1> SUFFICES ASSUME InitDHT PROVE Searching
  OBVIOUS
<1>1. 1 \in 1 .. Rounds /\ ~(\E k \in 1 .. Rounds : k < 1)
  BY DHTAssumption
<1>2. Reach[1] = {}
  BY ReachHolds DEF InitDHT, ReachUnfolds
<1>3. NodesOf(<<>>) = {} /\ Told({}) = {}
  BY NodesOfLists DEF Told
<1> QED
  BY <1>1, <1>2, <1>3 DEF InitDHT, Searching

\* A step that adds no answer keeps what every round reaches.
LEMMA ReachSame ==
    ASSUME UNCHANGED <<start, answered>>
    PROVE  \A k \in 1 .. Rounds : Reach'[k] = Reach[k]
<1>1. Rounds \in 1 .. Rounds /\ \A k \in 1 .. Rounds : k <= Rounds
  BY DHTAssumption
<1> QED
  BY <1>1, ReachStays

LEMMA SearchingStep ==
    ASSUME Identified, Typed, Searching, [NextDHT]_dhtVars
    PROVE  Searching'
<1>0. /\ round \in 1 .. Rounds /\ round \in Nat /\ Rounds \in Nat
      /\ closest \in Seq(Contacts) /\ next \in Seq(Contacts)
  BY DHTAssumption DEF Searching, Typed
<1>1. ASSUME UNCHANGED <<round, closest, next, visited, contact, start, answered>>,
             \/ search' = search
             \/ search = "wait" /\ search' = "loop"
      PROVE  Searching'
  <2>1. \A k \in 1 .. Rounds : Reach'[k] = Reach[k]
    BY <1>1, ReachSame
  <2>2. Reach'[round'] = Reach[round]
    BY <1>0, <1>1, <2>1
  <2>3. New(contact.id) => New(contact.id)'
    BY <1>1, <2>1 DEF New
  <2> QED
    BY <1>1, <2>1, <2>2, <2>3 DEF Searching
<1>2. CASE SearchPeers
  <2>1. /\ search = "idle" /\ start' = NodesOf(closest')
        /\ search' = IF closest' = <<>> THEN "done" ELSE "loop"
        /\ UNCHANGED <<round, next, visited, answered>>
    BY <1>2 DEF SearchPeers, NodesOf
  <2>2. /\ round = 1 /\ next = <<>> /\ visited = {} /\ answered = {}
    BY <2>1 DEF Searching
  <2>3. Reach'[1] = start'
    BY ReachHoldsNext DEF ReachUnfolds
  <2>4. Told({}) = {} /\ NodesOf(<<>>) = {}
    BY NodesOfLists DEF Told
  <2>5. \A k \in 1 .. Rounds : ~(k < 1)
    BY <1>0
  <2> QED
    BY <1>0, <2>1, <2>2, <2>3, <2>4, <2>5 DEF Searching
<1>3. ASSUME search = "loop", closest # <<>>, closest' = Tail(closest),
             UNCHANGED <<round, next, start, answered>>,
             visited' = visited \cup {Head(closest).id},
             \/ search' = "loop"
             \/ /\ search' = "wait" /\ contact' = Head(closest)
                /\ Head(closest).id \notin visited
      PROVE  Searching'
  <2>1. \A k \in 1 .. Rounds : Reach'[k] = Reach[k]
    BY <1>3, ReachSame
  <2>2. Reach'[round'] = Reach[round]
    BY <1>0, <1>3, <2>1
  <2>3. NodesOf(closest) = {Head(closest).id} \cup NodesOf(closest')
    BY <1>0, <1>3, NodesOfLists
  <2>4. visited' \cup NodesOf(closest') = Reach'[round']
    BY <1>3, <2>2, <2>3 DEF Searching
  <2>5. search' = "wait" => contact'.id \in visited' \ answered' /\ New(contact.id)'
    BY <1>3, <2>1 DEF Searching, New
  <2>6. Reach'[round'] \cup Told(answered') = Reach'[round'] \cup NodesOf(next')
    BY <1>3, <2>2 DEF Searching
  <2>7. \A k \in 1 .. Rounds : k < round' => Reach'[k] \subseteq visited'
    BY <1>3, <2>1 DEF Searching
  <2> QED
    BY <1>0, <1>3, <2>4, <2>5, <2>6, <2>7 DEF Searching
<1>4. CASE Visited
  <2>1. visited' = visited \cup {Head(closest).id}
    BY <1>4 DEF Visited
  <2> QED
    BY <1>3, <1>4, <2>1 DEF Visited
<1>5. CASE Query
  BY <1>3, <1>5 DEF Query
<1>6. CASE QueryFails
  BY <1>3, <1>6 DEF QueryFails
<1>7. CASE Answer
  <2> DEFINE n == contact.id
  <2>1. /\ search = "wait" /\ search' = "loop" /\ ch # Nothing
        /\ UNCHANGED <<round, closest, visited, contact, start>>
        /\ next' = next \o Knows[ch.from.id]
        /\ answered' = answered \cup {ch.from.id}
    BY <1>7 DEF Answer, Returns
  <2>2. ch.from.id = n /\ n \in visited /\ n \notin answered /\ New(n)
    BY <2>1 DEF Identified, Searching
  <2>3. Knows[n] \in Seq(Contacts)
    BY DHTAssumption DEF Typed, Contacts
  <2>4. \A k \in 1 .. Rounds : k <= round => Reach'[k] = Reach[k]
    <3>1. \A k \in 1 .. Rounds : k < round => Reach[k] \cap answered' \subseteq answered
      BY <2>1, <2>2 DEF New
    <3> QED
      BY <1>0, <2>1, <3>1, ReachStays
  <2>5. Reach'[round'] = Reach[round] /\ round' = round
    BY <1>0, <2>1, <2>4
  <2>6. NodesOf(next') = NodesOf(next) \cup NodesOf(Knows[n])
    BY <1>0, <2>1, <2>2, <2>3, NodesOfLists
  <2>7. Told(answered') = Told(answered) \cup NodesOf(Knows[n])
    BY <2>1, <2>2 DEF Told, NodesOf
  <2>8. Reach[round] \cup Told(answered) = Reach[round] \cup NodesOf(next)
    BY DEF Searching
  <2>9. Reach'[round'] \cup Told(answered') = Reach'[round'] \cup NodesOf(next')
    BY <2>5, <2>6, <2>7, <2>8
  <2>10. ASSUME NEW k \in 1 .. Rounds, k < round' PROVE Reach'[k] \subseteq visited'
    <3>1. k < round /\ k <= round
      BY <1>0, <2>5, <2>10
    <3>2. Reach[k] \subseteq visited
      BY <3>1 DEF Searching
    <3> QED
      BY <2>1, <2>4, <3>1, <3>2
  <2>11. answered' \subseteq visited' /\ visited' \cup NodesOf(closest') = Reach'[round']
    BY <2>1, <2>2, <2>5 DEF Searching
  <2> QED
    BY <1>0, <2>1, <2>9, <2>10, <2>11 DEF Searching
<1>8. CASE BrokenAnswer \/ Expires
  BY <1>1, <1>8 DEF BrokenAnswer, Expires, Returns
<1>9. CASE NextRound
  <2>1. /\ search = "loop" /\ closest = <<>>
        /\ UNCHANGED <<visited, start, answered>>
    BY <1>9 DEF NextRound
  <2>2. \A k \in 1 .. Rounds : Reach'[k] = Reach[k]
    BY <2>1, ReachSame
  <2>3. visited = Reach[round] /\ NodesOf(<<>>) = {}
    BY <2>1, NodesOfLists DEF Searching
  <2>4. CASE round < Rounds /\ next # <<>>
    <3>1. /\ round' = round + 1 /\ closest' = next /\ next' = <<>> /\ search' = "loop"
          /\ round + 1 \in 1 .. Rounds /\ round + 1 \in 2 .. Rounds
          /\ (round + 1) - 1 = round
      BY <1>0, <1>9, <2>1, <2>4 DEF NextRound
    <3>2. Reach[round + 1] = Reach[round] \cup Told(Reach[round] \cap answered)
      BY <3>1, ReachHolds DEF ReachUnfolds
    <3>3. Reach[round] \cap answered = answered
      BY <2>3 DEF Searching
    <3>4. Reach[round + 1] = Reach[round] \cup NodesOf(next)
      BY <3>2, <3>3 DEF Searching
    <3>5. Reach'[round'] = Reach[round + 1]
      BY <2>2, <3>1
    <3>6. visited' \cup NodesOf(closest') = Reach'[round']
      BY <2>1, <2>3, <3>1, <3>4, <3>5
    <3>7. Reach'[round'] \cup Told(answered') = Reach'[round'] \cup NodesOf(next')
      BY <2>1, <2>3, <3>1, <3>2, <3>3, <3>5
    <3>8. ASSUME NEW k \in 1 .. Rounds, k < round' PROVE Reach'[k] \subseteq visited'
      <4>1. k <= round
        BY <1>0, <3>1, <3>8
      <4>2. Reach[k] \subseteq Reach[round]
        BY <1>0, <4>1, ReachGrows
      <4> QED
        BY <2>1, <2>2, <2>3, <4>2
    <3> QED
      BY <2>1, <3>1, <3>6, <3>7, <3>8 DEF Searching
  <2>5. CASE ~(round < Rounds /\ next # <<>>)
    <3>1. /\ UNCHANGED <<round, closest, next>> /\ search' = "done"
          /\ round = Rounds \/ next = <<>>
      BY <1>0, <1>9, <2>5 DEF NextRound
    <3>2. Reach'[round'] = Reach[round]
      BY <1>0, <2>2, <3>1
    <3> QED
      BY <2>1, <2>2, <3>1, <3>2 DEF Searching
  <2> QED
    BY <2>4, <2>5
<1>10. CASE Bootstrap \/ Listen \/ Close \/ UNCHANGED dhtVars
  BY <1>1, <1>10
     DEF Bootstrap, Listen, Serve, Intercept, Unexpected, handleQuery, Deliver,
         ListenerReturns, Close, dhtVars, searchVars
<1> QED
  BY <1>2, <1>4, <1>5, <1>6, <1>7, <1>8, <1>9, <1>10 DEF NextDHT, SearchStep

\* A search asks every node it heard of within its rounds, though any query may
\* fail, any answer come late or never; and it keeps the peers of all answers.
THEOREM SearchAsksAll == SpecDiscovery => []SearchIsThorough
<1>1. InitDiscovery => Identified /\ Typed /\ TableSound /\ Searching
  BY IdentifiedInit, TypedInit, SearchingInit DEF InitDiscovery
<1>2. Identified /\ Typed /\ TableSound /\ Searching /\ [NextDiscovery]_discoveryVars
        => Identified' /\ Typed' /\ TableSound' /\ Searching'
  BY Steps, IdentifiedStep, TypedStep, SearchingStep
<1>3. InitDiscovery => Discovered
  BY DEF InitDiscovery, InitDHT, Discovered
<1>4. Discovered /\ [NextDiscovery]_discoveryVars => Discovered'
  <2> SUFFICES ASSUME Discovered, [NextDHT]_dhtVars PROVE Discovered'
    BY Steps
  <2>1. CASE UNCHANGED dhtVars
    BY <2>1 DEF Discovered, dhtVars, searchVars
  <2>2. CASE NextDHT
    BY <2>2, SearchCollects
  <2> QED
    BY <2>1, <2>2
<1>5. Searching /\ Discovered => SearchIsThorough
  <2> SUFFICES ASSUME Searching, Discovered, search = "done" PROVE visited = Reach[Rounds]
    BY DEF SearchIsThorough, Discovered
  <2>1. visited = Reach[round] /\ NodesOf(<<>>) = {}
    BY NodesOfLists DEF Searching
  <2>2. CASE next = <<>>
    <3>1. Told(Reach[round] \cap answered) \subseteq Reach[round]
      <4>1. Reach[round] \cap answered = answered
        BY <2>1 DEF Searching
      <4> QED
        BY <2>1, <2>2, <4>1 DEF Searching
    <3>2. Reach[Rounds] = Reach[round]
      BY <3>1, ReachSettles DEF Searching
    <3> QED
      BY <2>1, <3>2
  <2>3. CASE round = Rounds
    BY <2>1, <2>3
  <2> QED
    BY <2>2, <2>3 DEF Searching
<1> QED
  BY <1>1, <1>2, <1>3, <1>4, <1>5, PTL DEF SpecDiscovery
=============================================================================
