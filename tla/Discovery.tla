------------------------------ MODULE Discovery ------------------------------
(***************************************************************************)
(* How a session finds its first peers (internal/session/session.go): the  *)
(* DHT node, if there is one, sends its bootstrap queries and listens from *)
(* then on; discoverPeers asks all the trackers, then searches the DHT.    *)
(* The node is closed with the session.                                    *)
(***************************************************************************)
EXTENDS Tracker, DHT

VARIABLES stage,      \* "bootstrap", "trackers", "search", "found", "closing" or "end"
          node,       \* there is a DHT node
          peers,      \* what discoverPeers collected
          trackerErr  \* GetPeers returned an error

sessionVars   == <<stage, node, peers, trackerErr>>
discoveryVars == <<trackerVars, dhtVars, sessionVars>>

\* openDHTNode: the feature is on, and one of two ports could be opened.
InitDiscovery ==
    /\ InitTracker /\ InitDHT
    /\ node \in BOOLEAN
    /\ stage = IF node THEN "bootstrap" ELSE "trackers"
    /\ peers = {} /\ trackerErr = FALSE

BootstrapNode ==
    /\ stage = "bootstrap"
    /\ Bootstrap
    /\ stage' = "trackers"
    /\ UNCHANGED <<trackerVars, node, peers, trackerErr>>

AskTracker(a) ==
    /\ stage # "bootstrap"
    /\ GetPeersFrom(a)
    /\ UNCHANGED <<dhtVars, sessionVars>>

\* Mutant of GetPeers: it returns with the first tracker.
GetPeersOfFirst ==
    /\ stage = "trackers" /\ \E a \in Announces : Ended(a)
    /\ peers' = allPeers
    /\ trackerErr' = (allPeers = {})
    /\ stage' = IF node THEN "search" ELSE "found"
    /\ UNCHANGED <<trackerVars, dhtVars, node>>

\* All the goroutines are done: GetPeers returns what they found, or an error.
GetPeers ==
    /\ stage = "trackers" /\ \A a \in Announces : Ended(a)
    /\ peers' = allPeers
    /\ trackerErr' = (allPeers = {})
    /\ stage' = IF node THEN "search" ELSE "found"
    /\ UNCHANGED <<trackerVars, dhtVars, node>>

Search ==
    /\ stage = "search"
    /\ SearchPeers \/ SearchStep
    /\ UNCHANGED <<trackerVars, sessionVars>>

\* What the DHT found is added; the error of the trackers is returned with it.
discoverPeers ==
    /\ stage = "search" /\ search = "done"
    /\ peers' = peers \cup discovered
    /\ stage' = "found"
    /\ UNCHANGED <<trackerVars, dhtVars, node, trackerErr>>

ListenNode ==
    /\ node
    /\ Listen
    /\ UNCHANGED <<trackerVars, sessionVars>>

\* The session ends: Close closes the socket and waits for the listener.
CloseNode ==
    /\ stage = "found" /\ node
    /\ Close
    /\ stage' = "closing"
    /\ UNCHANGED <<trackerVars, node, peers, trackerErr>>

NodeClosed ==
    /\ stage = "closing" /\ listener = "done"
    /\ stage' = "end"
    /\ UNCHANGED <<trackerVars, dhtVars, node, peers, trackerErr>>

SessionStep == BootstrapNode \/ GetPeers \/ Search \/ discoverPeers \/ NodeClosed

NextDiscovery ==
    \/ SessionStep \/ CloseNode \/ ListenNode
    \/ \E a \in Announces : AskTracker(a)

SpecDiscovery == InitDiscovery /\ [][NextDiscovery]_discoveryVars

ServeNode == Serve /\ node /\ UNCHANGED <<trackerVars, sessionVars>>

\* Every goroutine is scheduled, and every deadline passes; nothing is assumed of
\* the network, and nobody has to close the session.
FairDiscovery ==
    /\ WF_discoveryVars(SessionStep)
    /\ WF_discoveryVars(ServeNode)
    /\ \A a \in Announces : WF_discoveryVars(AskTracker(a))

LiveDiscovery == SpecDiscovery /\ FairDiscovery

-----------------------------------------------------------------------------
\* discoverPeers returns the peers of every tracker that answered and of every
\* node of the DHT whose answer came in time; an error if no tracker had any.
NothingHeardIsDropped ==
    stage \in {"found", "closing", "end"} =>
       /\ peers = (UNION {answer[a] : a \in Announces}) \cup (UNION {Values[n] : n \in answered})
       /\ trackerErr <=> \A a \in Announces : answer[a] = {}

\* Discovery comes to its end though no tracker and no node may answer, and Close
\* does not wait for the listener for good.
DiscoveryEnds ==
    /\ <>(stage \in {"found", "closing", "end"})
    /\ stage = "closing" ~> stage = "end"
=============================================================================
