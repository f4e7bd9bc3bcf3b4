--------------------------------- MODULE DHT ---------------------------------
(***************************************************************************)
(* internal/dht: the routing table of kademlia.go, and the node of dht.go, *)
(* whose listener serves incoming messages while SearchPeers asks other    *)
(* nodes for peers, one after the other, in three rounds.  A reply may be  *)
(* lost (never received), late, out of order or duplicated.                *)
(*                                                                         *)
(* The node answers queries, too, from the same table; what it answers is  *)
(* read by nobody here and left out.  Nothing ever fills peersMap.         *)
(***************************************************************************)
EXTENDS Naturals, Sequences, FiniteSets

CONSTANTS Bits,         \* length of identifiers: 160 in the code
          ID,           \* the node's own identifier
          Hosts,        \* addresses
          K,            \* size of a bucket, and of the start of a search
          Rounds,       \* rounds of a search: 3 in the code
          infoHash,
          Routers,      \* contacts of the bootstrap routers
          Strangers,    \* contacts that may send us queries
          MaxIncoming,  \* bound: queries we get
          Values,       \* the peers each node returns
          Knows,        \* the closer nodes each node returns
          Broken,       \* nodes whose replies lack the dictionary
          Nothing       \* no message

IDs      == [1 .. Bits -> {0, 1}]
Contacts == [id : IDs, host : Hosts]

ASSUME DHTAssumption ==
    /\ Bits \in Nat \ {0} /\ K \in Nat \ {0} /\ Rounds \in Nat \ {0}
    /\ MaxIncoming \in Nat /\ Hosts # {}
    /\ ID \in IDs /\ infoHash \in IDs
    /\ Routers \subseteq Contacts /\ Strangers \subseteq Contacts
    /\ Knows \in [IDs -> Seq(Contacts)]
    /\ Broken \subseteq IDs
    /\ Nothing \notin [tx : Nat, from : Contacts]

VARIABLES buckets,     \* the routing table
          lastHost,    \* history: where each node was last heard, as a set of at most one
          net,         \* replies that were sent to us; never removed
          incoming,    \* queries received
          listener,    \* "read", "deliver" or "done"
          held,        \* the reply the listener delivers
          waiters,     \* identifiers with a waiting channel
          ch,          \* the channel of the query under way
          search,      \* "idle", "loop", "wait" or "done"
          round,       \* i
          closest,     \* contacts of this round still to come
          next,        \* contacts of the next round
          visited,
          discovered,
          txCounter,
          contact,     \* the one being asked
          start,       \* history: where the search started
          answered,    \* history: nodes whose answer was taken
          closed       \* Close was called

tableVars  == <<buckets, lastHost>>
listenVars == <<incoming, listener, held>>
searchVars == <<search, round, closest, next, visited, discovered, txCounter, contact,
                start, answered>>
dhtVars    == <<tableVars, net, listenVars, waiters, ch, searchVars, closed>>

Replies == [tx : Nat, from : Contacts]

\* The identifier of the bootstrap queries, which nobody waits for.  A search
\* makes fewer than 2^16 queries (a datagram of 2048 bytes has room for 78 nodes,
\* and there are three rounds), so identifiers of two bytes do not repeat.
Bootstrapping == 0

-----------------------------------------------------------------------------
(* kademlia.go *)

Distance(id1, id2) == [i \in 1 .. Bits |-> (id1[i] + id2[i]) % 2]

\* The first bit that differs; the last bucket for equal identifiers.
BucketIndex(id1, id2) ==
    IF id1 = id2 THEN Bits
    ELSE CHOOSE i \in 1 .. Bits : id1[i] # id2[i] /\ \A j \in 1 .. i - 1 : id1[j] = id2[j]

Closer(c, d, target) ==
    \E i \in 1 .. Bits :
       /\ Distance(c.id, target)[i] < Distance(d.id, target)[i]
       /\ \A j \in 1 .. i - 1 : Distance(c.id, target)[j] = Distance(d.id, target)[j]

Without(kb, i) == [j \in 1 .. Len(kb) - 1 |-> IF j < i THEN kb[j] ELSE kb[j + 1]]

\* Mutant of AddToBucket: a contact that is known keeps its place and address.
AddIfNew(kb, c) ==
    IF \E i \in DOMAIN kb : kb[i].id = c.id THEN kb
    ELSE IF Len(kb) < K THEN Append(kb, c)
    ELSE kb

\* KBucket.Add: a known contact moves to the end, a new one needs room.
AddToBucket(kb, c) ==
    IF \E i \in DOMAIN kb : kb[i].id = c.id
    THEN Append(Without(kb, CHOOSE i \in DOMAIN kb : kb[i].id = c.id), c)
    ELSE IF Len(kb) < K THEN Append(kb, c)
    ELSE kb

\* RoutingTable.Add
Add(c) ==
    /\ lastHost' = [lastHost EXCEPT ![c.id] = {c.host}]
    /\ IF c.id = ID THEN UNCHANGED buckets
       ELSE buckets' = [buckets EXCEPT ![BucketIndex(ID, c.id)] = AddToBucket(@, c)]

InTable == UNION {{buckets[b][i] : i \in DOMAIN buckets[b]} : b \in 1 .. Bits}

\* The size of what ClosestNodes(target, K) returns.
Count == IF Cardinality(InTable) > K THEN K ELSE Cardinality(InTable)

\* s is ClosestNodes(target, K): the nearest contacts in the order of their distance.
ClosestNodes(s, target) ==
    /\ \A i, j \in 1 .. Count : i < j => Closer(s[i], s[j], target)
    /\ \A c \in InTable : (\E i \in 1 .. Count : s[i] = c)
                           \/ \A i \in 1 .. Count : Closer(s[i], c, target)

-----------------------------------------------------------------------------
InitDHT ==
    /\ buckets = [b \in 1 .. Bits |-> <<>>]
    /\ lastHost = [n \in IDs |-> {}]
    /\ net = {}
    /\ incoming = 0 /\ listener = "read" /\ held = Nothing
    /\ waiters = {} /\ ch = Nothing
    /\ search = "idle" /\ round = 1 /\ closest = <<>> /\ next = <<>>
    /\ visited = {} /\ discovered = {} /\ txCounter = 0
    /\ contact = CHOOSE c \in Contacts : TRUE   \* no query yet
    /\ start = {} /\ answered = {}
    /\ closed = FALSE

\* Every router is sent a query.
Bootstrap ==
    /\ net' = net \cup {[tx |-> Bootstrapping, from |-> r] : r \in Routers}
    /\ UNCHANGED <<tableVars, listenVars, waiters, ch, searchVars, closed>>

-----------------------------------------------------------------------------
(* listenLoop, handleMessage, handleResponse, handleQuery *)

\* A reply some query waits for: its waiter is taken away.
Intercept(m) ==
    /\ listener = "read" /\ ~closed /\ m \in net /\ m.tx \in waiters
    /\ waiters' = waiters \ {m.tx}
    /\ held' = m
    /\ listener' = "deliver"
    /\ UNCHANGED <<tableVars, net, incoming, ch, searchVars, closed>>

\* handleResponse: the sender of a reply is added, unless the reply is broken.
handleResponse(m) ==
    IF m.from.id \in Broken THEN UNCHANGED tableVars ELSE Add(m.from)

\* The reply goes to the channel it was taken for: that of the query under way,
\* or one nobody reads any more.
Deliver ==
    /\ listener = "deliver"
    /\ ch' = IF search = "wait" /\ held.tx = txCounter THEN held ELSE ch
    /\ handleResponse(held)
    /\ listener' = "read" /\ held' = Nothing
    /\ UNCHANGED <<net, incoming, waiters, searchVars, closed>>

\* A reply nobody waits for (any more).
Unexpected(m) ==
    /\ listener = "read" /\ ~closed /\ m \in net /\ m.tx \notin waiters
    /\ handleResponse(m)
    /\ UNCHANGED <<net, listenVars, waiters, ch, searchVars, closed>>

handleQuery(c) ==
    /\ listener = "read" /\ ~closed /\ incoming < MaxIncoming
    /\ incoming' = incoming + 1
    /\ Add(c)
    /\ UNCHANGED <<net, listener, held, waiters, ch, searchVars, closed>>

\* The loop sees that the node was closed, after one second at most.
ListenerReturns ==
    /\ listener = "read" /\ closed
    /\ listener' = "done"
    /\ UNCHANGED <<tableVars, net, incoming, held, waiters, ch, searchVars, closed>>

Close ==
    /\ ~closed
    /\ closed' = TRUE
    /\ UNCHANGED <<tableVars, net, listenVars, waiters, ch, searchVars>>

-----------------------------------------------------------------------------
(* SearchPeers and queryGetPeers *)

SearchPeers ==
    /\ search = "idle"
    /\ \E s \in [1 .. Count -> InTable] : ClosestNodes(s, infoHash) /\ closest' = s
    /\ start' = {closest'[i].id : i \in DOMAIN closest'}
    /\ search' = IF closest' = <<>> THEN "done" ELSE "loop"
    /\ UNCHANGED <<tableVars, net, listenVars, waiters, ch, round, next, visited,
                   discovered, txCounter, contact, answered, closed>>

Visited ==
    /\ search = "loop" /\ closest # <<>> /\ Head(closest).id \in visited
    /\ closest' = Tail(closest)
    /\ UNCHANGED <<tableVars, net, listenVars, waiters, ch, search, round, next, visited,
                   discovered, txCounter, contact, start, answered, closed>>

\* Mutant of NextTx: the counter is not advanced.
SameTx == 1

NextTx == txCounter + 1

\* The next contact is sent a query, with a channel for its answer.
Query ==
    /\ search = "loop" /\ closest # <<>> /\ Head(closest).id \notin visited
    /\ contact' = Head(closest) /\ closest' = Tail(closest)
    /\ visited' = visited \cup {contact'.id}
    /\ txCounter' = NextTx
    /\ waiters' = waiters \cup {txCounter'} /\ ch' = Nothing
    /\ net' = net \cup {[tx |-> txCounter', from |-> contact']}
    /\ search' = "wait"
    /\ UNCHANGED <<tableVars, listenVars, round, next, discovered, start, answered, closed>>

\* The query cannot be sent.
QueryFails ==
    /\ search = "loop" /\ closest # <<>> /\ Head(closest).id \notin visited
    /\ contact' = Head(closest) /\ closest' = Tail(closest)
    /\ visited' = visited \cup {contact'.id}
    /\ txCounter' = NextTx
    /\ waiters' = waiters \ {txCounter'} /\ ch' = Nothing
    /\ UNCHANGED <<tableVars, net, listenVars, search, round, next, discovered, start,
                   answered, closed>>

\* queryGetPeers returns, and its deferred function removes the waiter.
Returns ==
    /\ search = "wait"
    /\ search' = "loop"
    /\ waiters' = waiters \ {txCounter} /\ ch' = Nothing
    /\ UNCHANGED <<tableVars, net, listenVars, round, closest, visited, txCounter, contact,
                   start, closed>>

\* Mutant of Answer: the nodes of this answer replace those of the others.
AnswerReplacing ==
    /\ ch # Nothing /\ ch.from.id \notin Broken
    /\ Returns
    /\ discovered' = discovered \cup Values[ch.from.id]
    /\ next' = Knows[ch.from.id]
    /\ answered' = answered \cup {ch.from.id}

Answer ==
    /\ ch # Nothing /\ ch.from.id \notin Broken
    /\ Returns
    /\ discovered' = discovered \cup Values[ch.from.id]
    /\ next' = next \o Knows[ch.from.id]
    /\ answered' = answered \cup {ch.from.id}

\* "missing dict"
BrokenAnswer ==
    /\ ch # Nothing /\ ch.from.id \in Broken
    /\ Returns
    /\ UNCHANGED <<discovered, next, answered>>

\* Mutant of Expires: a query waits for its answer.
ExpiresAnswered ==
    /\ ch # Nothing
    /\ Returns
    /\ UNCHANGED <<discovered, next, answered>>

\* Two seconds passed; select may choose so even if the answer has come.
Expires ==
    /\ Returns
    /\ UNCHANGED <<discovered, next, answered>>

NextRound ==
    /\ search = "loop" /\ closest = <<>>
    /\ IF round < Rounds /\ next # <<>>
       THEN round' = round + 1 /\ closest' = next /\ next' = <<>> /\ UNCHANGED search
       ELSE search' = "done" /\ UNCHANGED <<round, closest, next>>
    /\ UNCHANGED <<tableVars, net, listenVars, waiters, ch, visited, discovered, txCounter,
                   contact, start, answered, closed>>

-----------------------------------------------------------------------------
SearchStep ==
    Visited \/ Query \/ QueryFails \/ Answer \/ BrokenAnswer \/ Expires \/ NextRound

Serve == Deliver \/ ListenerReturns

Listen ==
    \/ \E m \in net : Intercept(m) \/ Unexpected(m)
    \/ \E c \in Strangers : handleQuery(c)
    \/ Serve

-----------------------------------------------------------------------------
(* Safety. *)

\* The table against what was heard: a node is in it once, in the bucket of its
\* distance, under the address it was last heard from; never the node itself; and
\* a node that was heard is missing only where the bucket is full.
TableSound ==
    \A b \in 1 .. Bits :
       /\ Len(buckets[b]) <= K
       /\ \A i \in DOMAIN buckets[b] :
             /\ BucketIndex(ID, buckets[b][i].id) = b /\ buckets[b][i].id # ID
             /\ lastHost[buckets[b][i].id] = {buckets[b][i].host}
             /\ \A j \in DOMAIN buckets[b] : buckets[b][i].id = buckets[b][j].id => i = j
       /\ Len(buckets[b]) < K =>
             \A n \in IDs \ {ID} : BucketIndex(ID, n) = b /\ lastHost[n] # {} =>
                \E i \in DOMAIN buckets[b] : buckets[b][i].id = n

\* The answer a query gets is that of the contact it asked, not a late one of a
\* contact asked before; and the node remembers no query that is over.
AnswersItsQuery ==
    /\ ch # Nothing => ch.from = contact
    /\ waiters \subseteq (IF search = "wait" THEN {txCounter} ELSE {})

\* The nodes a search has to ask: those it started from, and what answering nodes
\* told of, over the rounds.
Reach[k \in 1 .. Rounds] ==
    IF k = 1 THEN start
    ELSE Reach[k - 1] \cup
         UNION {{Knows[n][i].id : i \in DOMAIN Knows[n]} : n \in Reach[k - 1] \cap answered}

\* A search asks all of them, whatever is lost on the way: a missing answer costs
\* what only that node would have told.
SearchIsThorough ==
    search = "done" =>
       /\ visited = Reach[Rounds]
       /\ discovered = UNION {Values[n] : n \in answered}
=============================================================================
