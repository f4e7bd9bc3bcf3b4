-------------------------- MODULE Downloader_proof --------------------------
(***************************************************************************)
(* Proofs about Downloader, for pieces of any sizes, any window, any       *)
(* conduct of the peer and any number of chokes.                           *)
(***************************************************************************)
EXTENDS Downloader, TLAPS, FiniteSetTheorems

Messages == Control \cup BlockMsgs

-----------------------------------------------------------------------------
(* Types *)

States == {"idle", "interest", "unchoke", "queue", "read", "verify", "done", "banned", "gone"}
Between == {"idle", "done", "banned", "gone"}   \* no call is running

\* TypeOK without its Boolean flags.
Types ==
    /\ pc \in States
    /\ pieceIndex \in IF pc \in Between THEN {NoPiece} ELSE Pieces
    /\ Requested \subseteq AllBlocks /\ Received \subseteq AllBlocks
    /\ Data \in [AllBlocks -> Pieces \cup {NoData, Junk}]
    /\ failures \in Nat /\ CorruptCount \in Nat /\ Finished \subseteq Pieces
    /\ toPeer \in Seq(Requests) /\ toClient \in Seq(Messages)
    /\ conduct \in Conducts /\ whims \in Nat

Flags == choked \in BOOLEAN /\ peerChoking \in BOOLEAN
         /\ interested \in BOOLEAN /\ present \in BOOLEAN

\* The two parts make up the type invariant.
LEMMA TypeParts == TypeOK <=> Types /\ Flags
  BY DEF TypeOK, Types, Flags, States, Between, Messages

\* The messages the peer sends are messages.
LEMMA ControlType ==
    /\ \A k \in {"choke", "unchoke", "keepAlive", "badHave", "badBlock"} :
          [kind |-> k] \in Messages
    /\ \A p \in Pieces : \A b \in AllBlocks : \A g \in BOOLEAN : Piece(p, b, g) \in Messages
  BY DEF Messages, Control, BlockMsgs, Piece

\* The blocks of a piece are blocks.
LEMMA BlocksType == \A p \in Pieces : Blocks(p) \subseteq AllBlocks
  BY DEF AllBlocks

\* The end of a call leaves an empty assembler.
LEMMA EndCallTypes ==
    ASSUME Types, NEW next \in Between, EndCall(next)
    PROVE  /\ pc' \in States
           /\ pieceIndex' \in IF pc' \in Between THEN {NoPiece} ELSE Pieces
           /\ Requested' \subseteq AllBlocks /\ Received' \subseteq AllBlocks
           /\ Data' \in [AllBlocks -> Pieces \cup {NoData, Junk}]
  BY DEF Types, EndCall, NoBlocks, States, Between

\* A failed call keeps the types.
LEMMA FailTypes ==
    ASSUME Types, NEW next \in Between, Fail(next), toClient' \in Seq(Messages)
    PROVE  Types'
  BY EndCallTypes DEF Types, Fail, peerVars

\* Reading a message leaves a sequence of messages.
LEMMA ReadTypes ==
    ASSUME toClient \in Seq(Messages), NEW m, Read(m)
    PROVE  m \in Messages /\ toClient' \in Seq(Messages)
  BY DEF Read

\* Sending one, too.
LEMMA SendTypes ==
    ASSUME toClient \in Seq(Messages), NEW m \in Messages, PeerSends(m)
    PROVE  toClient' \in Seq(Messages)
  BY DEF PeerSends

\* A step of the client keeps the types.
LEMMA ClientTypes == Types /\ Client => Types'
<1> SUFFICES ASSUME Types, Client PROVE Types'
  OBVIOUS
<1> USE DEF callVars, peerVars
<1>1. ASSUME NEW p \in Pieces, Start(p) PROVE Types'
  BY <1>1 DEF Types, Start, States, Between
<1>2. CASE SendInterested
  BY <1>2 DEF Types, SendInterested, States, Between
<1>3. CASE Request
  <2>1. PICK b \in Missing :
           /\ Requested' = Requested \cup {b}
           /\ toPeer' = IF present THEN Append(toPeer, <<pieceIndex, b>>) ELSE toPeer
    BY <1>3 DEF Request
  <2>2. pieceIndex \in Pieces /\ b \in AllBlocks
    BY <1>3, BlocksType DEF Types, Request, Between, Missing
  <2>3. <<pieceIndex, b>> \in Requests
    BY <2>2 DEF Requests
  <2>4. toPeer' \in Seq(Requests)
    BY <2>1, <2>3 DEF Types
  <2> QED
    BY <1>3, <2>1, <2>2, <2>4 DEF Types, Request
<1>4. CASE Queued
  BY <1>4 DEF Types, Queued, States, Between
<1>5. CASE WriteFails
  BY <1>5, FailTypes DEF WriteFails, Types, Between
<1>6. CASE Unchoked
  BY <1>6, ReadTypes DEF Unchoked, Types, States, Between
<1>7. CASE StillChoked
  BY <1>7, ReadTypes DEF StillChoked, Types
<1>8. CASE ReadChoke
  BY <1>8, ReadTypes, FailTypes DEF ReadChoke, Types, Between
<1>9. CASE ReadOther
  BY <1>9, ReadTypes DEF ReadOther, Types, States, Between
<1>10. CASE AddBlock
  <2>1. PICK m \in BlockMsgs :
           /\ Read(m)
           /\ Received' = Received \cup {m.block}
           /\ Data' = [Data EXCEPT ![m.block] = IF m.good THEN m.piece ELSE Junk]
    BY <1>10 DEF AddBlock
  <2>2. m.block \in AllBlocks /\ m.piece \in Pieces
    BY DEF BlockMsgs
  <2>3. toClient' \in Seq(Messages)
    BY <2>1, ReadTypes DEF Types
  <2>4. (IF m.good THEN m.piece ELSE Junk) \in Pieces \cup {NoData, Junk}
    BY <2>2
  <2>5. Data' \in [AllBlocks -> Pieces \cup {NoData, Junk}]
    BY <2>1, <2>4 DEF Types
  <2> QED
    BY <1>10, <2>1, <2>2, <2>3, <2>5 DEF AddBlock, Types, States, Between
<1>11. CASE ReadInvalid
  BY <1>11, ReadTypes, FailTypes DEF ReadInvalid, Types, Between
<1>12. CASE ReadFails
  BY <1>12, FailTypes DEF ReadFails, Types, Between
<1>13. CASE VerifyPasses
  <2>1. EndCall(pc') /\ pc' \in Between /\ pieceIndex \in Pieces
    BY <1>13 DEF VerifyPasses, EndCall, Between, Types
  <2> QED
    BY <1>13, <2>1, EndCallTypes DEF VerifyPasses, Types
<1>14. CASE VerifyFails
  <2>1. EndCall(pc') /\ pc' \in Between
    BY <1>14 DEF VerifyFails, EndCall, Between
  <2> QED
    BY <1>14, <2>1, EndCallTypes DEF VerifyFails, Types
<1> QED
  BY <1>1, <1>2, <1>3, <1>4, <1>5, <1>6, <1>7, <1>8, <1>9, <1>10, <1>11, <1>12, <1>13, <1>14
     DEF Client

\* A step of the peer keeps the types.
LEMMA PeerTypes == Types /\ Peer => Types'
<1> SUFFICES ASSUME Types, Peer PROVE Types'
  OBVIOUS
<1> USE ControlType DEF callVars, peerVars, clientVars
<1>1. CASE Serve
  <2>1. toPeer' \in Seq(Requests) /\ Head(toPeer) \in Requests
    BY <1>1 DEF Serve, Types
  <2>2. Head(toPeer)[1] \in Pieces /\ Head(toPeer)[2] \in AllBlocks
    BY <2>1 DEF Requests
  <2>3. Answer(Head(toPeer)[1], Head(toPeer)[2]) \subseteq Messages
    BY <2>2 DEF Answer
  <2>4. toClient' \in Seq(Messages)
    BY <1>1, <2>3, SendTypes DEF Serve, Types
  <2> QED
    BY <1>1, <2>1, <2>4 DEF Serve, Types
<1>2. CASE Unchoke
  BY <1>2, SendTypes DEF Unchoke, Types
<1>3. CASE Choke
  BY <1>3, SendTypes DEF Choke, Types
<1>4. CASE SendUnasked
  <2>1. toClient' \in Seq(Messages)
    BY <1>4, SendTypes, BlocksType DEF SendUnasked, Types
  <2> QED
    BY <1>4, <2>1 DEF SendUnasked, Types
<1>5. CASE KeepAlive
  BY <1>5, SendTypes DEF KeepAlive, Types
<1>6. CASE Leave
  BY <1>6 DEF Leave, Types
<1> QED
  BY <1>1, <1>2, <1>3, <1>4, <1>5, <1>6 DEF Peer

\* The flags stay Boolean.
LEMMA FlagsStep == Flags /\ [Next]_vars => Flags'
  BY Zenon DEF Flags, Next, Client, Peer, Start, SendInterested, Request, Queued, WriteFails,
     Unchoked, StillChoked, ReadChoke, ReadOther, AddBlock, ReadInvalid, ReadFails, VerifyPasses,
     VerifyFails, Fail, Serve, Unchoke, Choke, SendUnasked, KeepAlive, Leave,
     peerVars, clientVars, callVars, vars

\* The initial state is well typed.
LEMMA TypeInit == Init => TypeOK
<1> SUFFICES ASSUME Init PROVE TypeOK
  OBVIOUS
<1>1. Flags
  BY DEF Init, Flags
<1>2. Types
  BY DEF Init, Types, States, Between, NoBlocks
<1> QED
  BY <1>1, <1>2, TypeParts

\* A step keeps the type invariant.
LEMMA TypeStep == TypeOK /\ [Next]_vars => TypeOK'
<1> SUFFICES ASSUME TypeOK, [Next]_vars PROVE TypeOK'
  OBVIOUS
<1>1. Types /\ Flags
  BY TypeParts
<1>2. Flags'
  BY <1>1, FlagsStep
<1>3. Next => Types'
  BY <1>1, ClientTypes, PeerTypes DEF Next
<1>4. UNCHANGED vars => Types'
  BY <1>1 DEF Types, vars, callVars, peerVars
<1>5. TypeOK' <=> Types' /\ Flags'
  BY DEF TypeOK, Types, Flags, States, Between, Messages
<1> QED
  BY <1>2, <1>3, <1>4, <1>5

\* Type correctness of the download over one connection (downloader.go:16-178).
THEOREM DownloaderTypes == Spec => []TypeOK
<1>1. Init => TypeOK
  BY TypeInit
<1>2. TypeOK /\ [Next]_vars => TypeOK'
  BY TypeStep
<1> QED
  BY <1>1, <1>2, PTL DEF Spec

-----------------------------------------------------------------------------
(* The client never waits in vain for an honest peer. *)

\* The client's view of the choke, once it has read what is on the way, is the
\* peer's: message k is the last that changes it, or none does and k is 0.
Agreed ==
    \E k \in 0 .. Len(toClient) :
       /\ \A j \in k + 1 .. Len(toClient) : toClient[j].kind \notin {"choke", "unchoke"}
       /\ k = 0 => (choked <=> peerChoking)
       /\ k # 0 => toClient[k].kind = IF peerChoking THEN "choke" ELSE "unchoke"

AskedFor(b) == \E i \in 1 .. Len(toPeer) : toPeer[i][2] = b
OnItsWay(b) == \E i \in 1 .. Len(toClient) : toClient[i].kind = "piece" /\ toClient[i].block = b

\* Where the client is in a call, and what is outstanding there.
Stage ==
    /\ pc \in {"interest", "unchoke"} => choked
    /\ pc \in {"queue", "read"} => ~choked
    /\ pc = "unchoke" => interested
    /\ pc \notin {"queue", "read", "verify"} => Requested = {}
    /\ pc = "read" => Outstanding # {}

\* An honest peer stays, and has or was sent every outstanding request.
Answered ==
    Honest => /\ present
              /\ pc \in {"queue", "read"} =>
                    \A b \in Outstanding : ChokeComing \/ AskedFor(b) \/ OnItsWay(b)

WaitInv == Stage /\ Agreed /\ Answered

\* Positions after a read.
LEMMA TailIndex ==
    ASSUME NEW S, NEW s \in Seq(S), s # <<>>
    PROVE  /\ Len(s) \in Nat \ {0} /\ Len(Tail(s)) = Len(s) - 1
           /\ Head(s) = s[1]
           /\ \A i \in 1 .. Len(s) - 1 : Tail(s)[i] = s[i + 1]
  OBVIOUS

\* Positions after a send.
LEMMA AppendIndex ==
    ASSUME NEW S, NEW s \in Seq(S), NEW m \in S
    PROVE  /\ Len(s) \in Nat /\ Len(Append(s, m)) = Len(s) + 1
           /\ Append(s, m)[Len(s) + 1] = m
           /\ \A i \in 1 .. Len(s) : Append(s, m)[i] = s[i]
  OBVIOUS

\* Reading keeps the views in agreement, if the client takes over what it reads.
LEMMA ReadAgreed ==
    ASSUME Types, Agreed, NEW m, Read(m), peerChoking' = peerChoking,
           m.kind = "choke" => choked', m.kind = "unchoke" => ~choked',
           m.kind \notin {"choke", "unchoke"} => choked' = choked
    PROVE  Agreed'
<1>1. PICK k \in 0 .. Len(toClient) :
         /\ \A j \in k + 1 .. Len(toClient) : toClient[j].kind \notin {"choke", "unchoke"}
         /\ k = 0 => (choked <=> peerChoking)
         /\ k # 0 => toClient[k].kind = IF peerChoking THEN "choke" ELSE "unchoke"
  BY DEF Agreed
<1>2. /\ toClient' = Tail(toClient) /\ m = toClient[1] /\ Len(toClient) \in Nat \ {0}
      /\ Len(toClient') = Len(toClient) - 1
      /\ \A i \in 1 .. Len(toClient) - 1 : toClient'[i] = toClient[i + 1]
  BY TailIndex DEF Types, Read
<1>3. CASE k = 0
  <2>1. m.kind \notin {"choke", "unchoke"}
    BY <1>1, <1>2, <1>3
  <2>2. \A j \in 1 .. Len(toClient') : toClient'[j].kind \notin {"choke", "unchoke"}
    BY <1>1, <1>2, <1>3
  <2>3. choked' <=> peerChoking'
    BY <1>1, <1>3, <2>1
  <2>4. 0 \in 0 .. Len(toClient')
    BY <1>2
  <2> QED
    BY <2>2, <2>3, <2>4 DEF Agreed
<1>4. CASE k = 1
  <2>1. \A j \in 1 .. Len(toClient') : toClient'[j].kind \notin {"choke", "unchoke"}
    BY <1>1, <1>2, <1>4
  <2>2. m.kind = IF peerChoking THEN "choke" ELSE "unchoke"
    BY <1>1, <1>2, <1>4
  <2>3. choked' <=> peerChoking'
    BY <2>2
  <2>4. 0 \in 0 .. Len(toClient')
    BY <1>2
  <2> QED
    BY <2>1, <2>3, <2>4 DEF Agreed
<1>5. CASE k > 1
  <2>1. k - 1 \in 0 .. Len(toClient') /\ k - 1 # 0
    BY <1>2, <1>5
  <2>2. \A j \in (k - 1) + 1 .. Len(toClient') : toClient'[j].kind \notin {"choke", "unchoke"}
    BY <1>1, <1>2, <1>5
  <2>3. toClient'[k - 1].kind = IF peerChoking' THEN "choke" ELSE "unchoke"
    BY <1>1, <1>2, <1>5
  <2> QED
    BY <2>1, <2>2, <2>3 DEF Agreed
<1> QED
  BY <1>3, <1>4, <1>5

\* Sending keeps them in agreement, if the peer says what it does.
LEMMA SendAgreed ==
    ASSUME Types, Agreed, NEW m \in Messages, PeerSends(m), choked' = choked,
           m.kind = "choke" => peerChoking', m.kind = "unchoke" => ~peerChoking',
           m.kind \notin {"choke", "unchoke"} => peerChoking' = peerChoking
    PROVE  Agreed'
<1>1. PICK k \in 0 .. Len(toClient) :
         /\ \A j \in k + 1 .. Len(toClient) : toClient[j].kind \notin {"choke", "unchoke"}
         /\ k = 0 => (choked <=> peerChoking)
         /\ k # 0 => toClient[k].kind = IF peerChoking THEN "choke" ELSE "unchoke"
  BY DEF Agreed
<1>2. /\ toClient' = Append(toClient, m) /\ Len(toClient) \in Nat
      /\ Len(toClient') = Len(toClient) + 1
      /\ toClient'[Len(toClient) + 1] = m
      /\ \A i \in 1 .. Len(toClient) : toClient'[i] = toClient[i]
  BY AppendIndex DEF Types, PeerSends
<1>3. CASE m.kind \in {"choke", "unchoke"}
  <2> DEFINE l == Len(toClient) + 1
  <2>1. l \in 0 .. Len(toClient') /\ l # 0
    BY <1>2
  <2>2. toClient'[l].kind = IF peerChoking' THEN "choke" ELSE "unchoke"
    BY <1>2, <1>3
  <2>3. \A j \in l + 1 .. Len(toClient') : toClient'[j].kind \notin {"choke", "unchoke"}
    BY <1>2
  <2> HIDE DEF l
  <2> QED
    BY <2>1, <2>2, <2>3 DEF Agreed
<1>4. CASE m.kind \notin {"choke", "unchoke"}
  <2>1. k \in 0 .. Len(toClient')
    BY <1>2
  <2>2. \A j \in k + 1 .. Len(toClient') : toClient'[j].kind \notin {"choke", "unchoke"}
    BY <1>1, <1>2, <1>4
  <2>3. k = 0 => (choked' <=> peerChoking')
    BY <1>1, <1>4
  <2>4. k # 0 => toClient'[k].kind = IF peerChoking' THEN "choke" ELSE "unchoke"
    BY <1>1, <1>2, <1>4
  <2> QED
    BY <2>1, <2>2, <2>3, <2>4 DEF Agreed
<1> QED
  BY <1>3, <1>4

\* What is on its way stays so until it is read.
LEMMA ReadKeeps ==
    ASSUME Types, NEW m, Read(m)
    PROVE  /\ ChokeComing => ChokeComing' \/ m.kind = "choke"
           /\ \A b : OnItsWay(b) => OnItsWay(b)' \/ (m.kind = "piece" /\ m.block = b)
<1>1. /\ m = toClient[1] /\ Len(toClient) \in Nat \ {0}
      /\ Len(toClient') = Len(toClient) - 1
      /\ \A i \in 1 .. Len(toClient) - 1 : toClient'[i] = toClient[i + 1]
  BY TailIndex DEF Types, Read
<1>2. \A i \in 1 .. Len(toClient) :
         i = 1 \/ (i - 1 \in 1 .. Len(toClient') /\ toClient'[i - 1] = toClient[i])
  BY <1>1
<1>3. ChokeComing => ChokeComing' \/ m.kind = "choke"
  BY <1>1, <1>2 DEF ChokeComing
<1>4. ASSUME NEW b, OnItsWay(b) PROVE OnItsWay(b)' \/ (m.kind = "piece" /\ m.block = b)
  BY <1>1, <1>2, <1>4 DEF OnItsWay
<1> QED
  BY <1>3, <1>4

\* What is on its way stays so when more is sent.
LEMMA SendKeeps ==
    ASSUME Types, NEW m \in Messages, PeerSends(m)
    PROVE  /\ ChokeComing => ChokeComing'
           /\ \A b : OnItsWay(b) => OnItsWay(b)'
           /\ m.kind = "piece" => OnItsWay(m.block)'
<1>1. /\ Len(toClient) \in Nat
      /\ Len(toClient') = Len(toClient) + 1
      /\ toClient'[Len(toClient) + 1] = m
      /\ \A i \in 1 .. Len(toClient) : toClient'[i] = toClient[i]
  BY AppendIndex DEF Types, PeerSends
<1>2. ChokeComing => ChokeComing'
  BY <1>1 DEF ChokeComing
<1>3. ASSUME NEW b, OnItsWay(b) PROVE OnItsWay(b)'
  BY <1>1, <1>3 DEF OnItsWay
<1>4. m.kind = "piece" => OnItsWay(m.block)'
  BY <1>1 DEF OnItsWay
<1> QED
  BY <1>2, <1>3, <1>4

\* A peer that chokes a client that does not know it has told it so.
LEMMA ChokeIsComing == Types /\ Agreed /\ peerChoking /\ ~choked => ChokeComing
  BY DEF Types, Agreed, ChokeComing

\* A client that goes on to read has something outstanding: the window is not
\* empty, or every block was asked for and one has not come.
LEMMA ReadsWhenOutstanding ==
    ASSUME Types, Queued, pc' = "read" PROVE Outstanding # {}
<1> SUFFICES ASSUME Outstanding = {} PROVE FALSE
  OBVIOUS
<1>1. Missing = {}
  BY FS_EmptySet, DownloaderAssumption DEF Queued, MayRequest
<1>2. Blocks(pieceIndex) \subseteq Received
  BY <1>1 DEF Missing, Outstanding
<1> QED
  BY <1>2 DEF Queued, IsComplete

\* The client knows where it is in a call.
LEMMA StageStep == Types /\ Flags /\ Stage /\ [Next]_vars => Stage'
<1> SUFFICES ASSUME Types, Flags, Stage, [Next]_vars PROVE Stage'
  OBVIOUS
<1> USE DEF callVars, peerVars
<1>1. ASSUME NEW p \in Pieces, Start(p) PROVE Stage'
  BY <1>1 DEF Stage, Start, Outstanding, Flags
<1>2. CASE SendInterested
  BY <1>2 DEF Stage, SendInterested, Outstanding
<1>3. CASE Request
  BY <1>3 DEF Stage, Request, Outstanding
<1>4. CASE Queued
  <2>1. pc' = "read" => Outstanding' # {}
    BY <1>4, ReadsWhenOutstanding DEF Queued, Outstanding
  <2> QED
    BY <1>4, <2>1 DEF Stage, Queued
<1>5. CASE WriteFails \/ ReadChoke \/ ReadInvalid \/ ReadFails \/ VerifyPasses \/ VerifyFails
  <2>1. Requested' = {} /\ pc' \in Between
    BY <1>5 DEF WriteFails, ReadChoke, ReadInvalid, ReadFails, VerifyPasses, VerifyFails,
       Fail, EndCall, Between
  <2> QED
    BY <2>1 DEF Stage, Between
<1>6. CASE Unchoked \/ StillChoked
  BY <1>6 DEF Stage, Unchoked, StillChoked, Outstanding
<1>7. CASE ReadOther
  BY <1>7 DEF Stage, ReadOther, Outstanding
<1>8. CASE AddBlock
  BY <1>8 DEF Stage, AddBlock
<1>9. CASE Peer
  <2>1. /\ pc' = pc /\ choked' = choked /\ Requested' = Requested /\ Received' = Received
        /\ interested' = interested
    BY <1>9 DEF Peer, Serve, Unchoke, Choke, SendUnasked, KeepAlive, Leave, clientVars
  <2> QED
    BY <2>1 DEF Stage, Outstanding
<1>10. CASE UNCHANGED vars
  BY <1>10 DEF Stage, vars, Outstanding
<1> QED
  BY <1>1, <1>2, <1>3, <1>4, <1>5, <1>6, <1>7, <1>8, <1>9, <1>10 DEF Next, Client

\* Both sides keep their view of the choke.
LEMMA AgreedStep == Types /\ Flags /\ Stage /\ Agreed /\ [Next]_vars => Agreed'
<1> SUFFICES ASSUME Types, Flags, Stage, Agreed, [Next]_vars PROVE Agreed'
  OBVIOUS
<1> USE DEF callVars, peerVars, clientVars
<1>1. UNCHANGED <<choked, peerChoking, toClient>> => Agreed'
  BY DEF Agreed
<1>2. CASE Client
  <2>1. CASE \E p \in Pieces : Start(p)
    BY <1>1, <2>1 DEF Start
  <2>2. CASE SendInterested \/ Request \/ Queued \/ WriteFails \/ ReadFails
             \/ VerifyPasses \/ VerifyFails
    BY <1>1, <2>2 DEF SendInterested, Request, Queued, WriteFails, ReadFails, VerifyPasses,
       VerifyFails, Fail
  <2>3. CASE Unchoked
    BY <2>3, ReadAgreed DEF Unchoked
  <2>4. CASE StillChoked
    BY <2>4, ReadAgreed DEF StillChoked, Stage
  <2>5. CASE ReadChoke
    BY <2>5, ReadAgreed DEF ReadChoke, Fail
  <2>6. CASE ReadOther
    BY <2>6, ReadAgreed DEF ReadOther
  <2>7. CASE AddBlock
    BY <2>7, ReadAgreed DEF AddBlock, BlockMsgs
  <2>8. CASE ReadInvalid
    BY <2>8, ReadAgreed DEF ReadInvalid, Fail, BlockMsgs
  <2> QED
    BY <1>2, <2>1, <2>2, <2>3, <2>4, <2>5, <2>6, <2>7, <2>8 DEF Client
<1>3. CASE Peer
  <2> USE ControlType
  <2>1. CASE Serve
    <3>1. CASE UNCHANGED toClient
      BY <1>1, <2>1, <3>1 DEF Serve
    <3>2. CASE toClient' # toClient
      <4>1. Head(toPeer)[1] \in Pieces /\ Head(toPeer)[2] \in AllBlocks
        BY <2>1 DEF Serve, Types, Requests
      <4>2. PICK m \in Answer(Head(toPeer)[1], Head(toPeer)[2]) : PeerSends(m)
        BY <2>1, <3>2 DEF Serve
      <4>3. m \in Messages
        BY <4>1, <4>2 DEF Answer
      <4>4. m.kind \in {"piece", "badBlock"}
        BY <4>2 DEF Answer, Piece
      <4> QED
        BY <2>1, <4>2, <4>3, <4>4, SendAgreed DEF Serve
    <3> QED
      BY <3>1, <3>2
  <2>2. CASE Unchoke
    BY <2>2, SendAgreed DEF Unchoke
  <2>3. CASE Choke
    BY <2>3, SendAgreed DEF Choke
  <2>4. CASE SendUnasked
    <3>1. PICK m \in Messages : PeerSends(m) /\ m.kind \notin {"choke", "unchoke"}
      BY <2>4, BlocksType DEF SendUnasked, Piece
    <3> QED
      BY <2>4, <3>1, SendAgreed DEF SendUnasked
  <2>5. CASE KeepAlive
    BY <2>5, SendAgreed DEF KeepAlive
  <2>6. CASE Leave
    BY <1>1, <2>6 DEF Leave
  <2> QED
    BY <1>3, <2>1, <2>2, <2>3, <2>4, <2>5, <2>6 DEF Peer
<1>4. CASE UNCHANGED vars
  BY <1>1, <1>4 DEF vars
<1> QED
  BY <1>2, <1>3, <1>4 DEF Next

\* A step of the client leaves every outstanding request answered for.
LEMMA ClientAnswered ==
    ASSUME Types, Stage, Answered, Honest, Client
    PROVE  Answered'
<1> DEFINE Fine(b) == ChokeComing \/ AskedFor(b) \/ OnItsWay(b)
<1> USE DEF callVars, peerVars
<1>1. conduct' = {} /\ present' /\ present
  BY DEF Answered, Honest, Client, Start, SendInterested, Request, Queued, WriteFails, Unchoked,
     StillChoked, ReadChoke, ReadOther, AddBlock, ReadInvalid, ReadFails, VerifyPasses,
     VerifyFails, Fail
<1>2. SUFFICES ASSUME pc' \in {"queue", "read"}, NEW b \in Outstanding' PROVE Fine(b)'
  BY <1>1 DEF Answered, Honest
<1>3. pc \in {"queue", "read"} /\ b \in Outstanding => Fine(b)
  BY DEF Answered
<1>4. CASE \E p \in Pieces : Start(p)
  BY <1>4 DEF Start, Stage, Outstanding
<1>5. CASE Request
  <2>1. PICK c \in Missing :
           /\ Requested' = Requested \cup {c}
           /\ toPeer' = Append(toPeer, <<pieceIndex, c>>)
    BY <1>1, <1>5 DEF Request
  <2>2. pieceIndex \in Pieces /\ c \in AllBlocks
    BY <1>5, BlocksType DEF Types, Request, Between, Missing
  <2>3. <<pieceIndex, c>> \in Requests
    BY <2>2 DEF Requests
  <2>4. AskedFor(c)' /\ \A d : AskedFor(d) => AskedFor(d)'
    BY <2>1, <2>3, AppendIndex DEF Types, AskedFor
  <2>5. b \in Outstanding \/ b = c
    BY <1>5, <2>1 DEF Request, Outstanding
  <2>6. toClient' = toClient /\ pc = "queue"
    BY <1>5 DEF Request
  <2> QED
    BY <1>3, <2>4, <2>5, <2>6 DEF ChokeComing, OnItsWay
<1>6. CASE Queued
  <2>1. UNCHANGED <<toClient, toPeer, Requested, Received>> /\ pc = "queue"
    BY <1>6 DEF Queued
  <2> QED
    BY <1>3, <2>1 DEF Outstanding, ChokeComing, AskedFor, OnItsWay
<1>7. CASE Unchoked
  BY <1>7 DEF Unchoked, Stage, Outstanding
<1>8. CASE ReadOther
  <2>1. PICK m : Read(m) /\ m.kind \in {"unchoke", "keepAlive"}
    BY <1>8 DEF ReadOther
  <2>2. UNCHANGED <<toPeer, Requested, Received>> /\ pc = "read"
    BY <1>8 DEF ReadOther
  <2>3. Fine(b)
    BY <1>3, <2>2 DEF Outstanding
  <2> QED
    BY <2>1, <2>2, <2>3, ReadKeeps DEF AskedFor
<1>9. CASE AddBlock
  <2>1. PICK m \in BlockMsgs : Read(m) /\ Received' = Received \cup {m.block}
    BY <1>9 DEF AddBlock
  <2>2. UNCHANGED <<toPeer, Requested>> /\ pc = "read" /\ m.kind = "piece"
    BY <1>9 DEF AddBlock, BlockMsgs
  <2>3. b \in Outstanding /\ b # m.block
    BY <2>1, <2>2 DEF Outstanding
  <2> QED
    BY <1>3, <2>1, <2>2, <2>3, ReadKeeps DEF AskedFor
<1>10. CASE SendInterested \/ StillChoked
  BY <1>2, <1>10 DEF SendInterested, StillChoked
<1>11. CASE WriteFails \/ ReadChoke \/ ReadInvalid \/ ReadFails \/ VerifyPasses \/ VerifyFails
  <2>1. pc' \in Between
    BY <1>11 DEF WriteFails, ReadChoke, ReadInvalid, ReadFails, VerifyPasses, VerifyFails,
       Fail, EndCall, Between
  <2> QED
    BY <1>2, <2>1 DEF Between
<1> QED
  BY <1>4, <1>5, <1>6, <1>7, <1>8, <1>9, <1>10, <1>11 DEF Client

\* So does a step of the peer: it drops a request only after it sent a choke.
LEMMA PeerAnswered ==
    ASSUME Types, Stage, Agreed, Answered, Honest, Peer
    PROVE  Answered'
<1> DEFINE Fine(b) == ChokeComing \/ AskedFor(b) \/ OnItsWay(b)
<1> USE ControlType DEF callVars, peerVars, clientVars
<1>1. /\ conduct' = {} /\ present' /\ present
      /\ UNCHANGED <<pc, choked, Requested, Received>>
  BY DEF Answered, Honest, Peer, Serve, Unchoke, Choke, SendUnasked, KeepAlive, Leave
<1>2. SUFFICES ASSUME pc \in {"queue", "read"}, NEW b \in Outstanding PROVE Fine(b)'
  BY <1>1 DEF Answered, Honest, Outstanding
<1>3. Fine(b)
  BY <1>2 DEF Answered
<1>4. CASE Serve
  <2>1. PICK r \in Requests : r = Head(toPeer) /\ toPeer' = Tail(toPeer) /\ toPeer # <<>>
    BY <1>4 DEF Serve, Types
  <2>2. r[1] \in Pieces /\ r[2] \in AllBlocks
    BY DEF Requests
  <2>3. AskedFor(b) => AskedFor(b)' \/ r[2] = b
    <3>1. \A i \in 1 .. Len(toPeer) :
             i = 1 \/ (i - 1 \in 1 .. Len(toPeer') /\ toPeer'[i - 1] = toPeer[i])
      BY <2>1, TailIndex DEF Types
    <3>2. r = toPeer[1]
      BY <2>1, TailIndex DEF Types
    <3> QED
      BY <3>1, <3>2 DEF AskedFor
  <2>4. CASE peerChoking /\ UNCHANGED toClient
    <3>1. ChokeComing
      BY <1>2, <2>4, ChokeIsComing DEF Stage
    <3> QED
      BY <2>4, <3>1 DEF ChokeComing
  <2>5. CASE ~peerChoking /\ \E m \in Answer(r[1], r[2]) : PeerSends(m)
    <3>1. PeerSends(Piece(r[1], r[2], TRUE))
      BY <2>5 DEF Answer, Honest
    <3>2. Piece(r[1], r[2], TRUE) \in Messages
      BY <2>2
    <3>3. Piece(r[1], r[2], TRUE).kind = "piece" /\ Piece(r[1], r[2], TRUE).block = r[2]
      BY DEF Piece
    <3>4. /\ ChokeComing => ChokeComing'
          /\ OnItsWay(b) => OnItsWay(b)'
          /\ OnItsWay(r[2])'
      BY <3>1, <3>2, <3>3, SendKeeps
    <3> QED
      BY <1>3, <2>3, <3>4
  <2> QED
    BY <1>4, <2>1, <2>4, <2>5 DEF Serve
<1>5. CASE Unchoke \/ Choke
  <2>1. PICK m \in Messages : PeerSends(m)
    BY <1>5 DEF Unchoke, Choke
  <2>2. toPeer' = toPeer
    BY <1>5 DEF Unchoke, Choke
  <2> QED
    BY <1>3, <2>1, <2>2, SendKeeps DEF AskedFor
<1>6. CASE SendUnasked \/ KeepAlive \/ Leave
  BY <1>6 DEF Honest, SendUnasked, KeepAlive, Leave
<1> QED
  BY <1>4, <1>5, <1>6 DEF Peer

\* All parts hold initially and are kept by every step.
LEMMA WaitInit == Init => WaitInv
<1> SUFFICES ASSUME Init PROVE WaitInv
  OBVIOUS
<1>1. Agreed
  <2>1. Len(toClient) = 0 /\ choked /\ peerChoking
    BY DEF Init
  <2> QED
    BY <2>1 DEF Agreed
<1> QED
  BY <1>1 DEF Init, WaitInv, Stage, Answered, Outstanding

LEMMA WaitStep == TypeOK /\ WaitInv /\ [Next]_vars => WaitInv'
<1> SUFFICES ASSUME TypeOK, WaitInv, [Next]_vars PROVE WaitInv'
  OBVIOUS
<1>1. Types /\ Flags
  BY TypeParts
<1>2. Stage' /\ Agreed'
  BY <1>1, StageStep, AgreedStep DEF WaitInv
<1>3. Honest' => Honest
  BY DEF Honest, Next, Client, Peer, Start, SendInterested, Request, Queued, WriteFails,
     Unchoked, StillChoked, ReadChoke, ReadOther, AddBlock, ReadInvalid, ReadFails, VerifyPasses,
     VerifyFails, Fail, Serve, Unchoke, Choke, SendUnasked, KeepAlive, Leave,
     peerVars, clientVars, callVars, vars
<1>4. CASE ~Honest
  BY <1>2, <1>3, <1>4 DEF WaitInv, Answered
<1>5. CASE Honest /\ Next
  BY <1>1, <1>2, <1>5, ClientAnswered, PeerAnswered DEF WaitInv, Next
<1>6. CASE UNCHANGED vars
  BY <1>2, <1>6 DEF WaitInv, Answered, vars, callVars, peerVars, Honest, Outstanding,
     ChokeComing, AskedFor, OnItsWay
<1> QED
  BY <1>4, <1>5, <1>6

\* An honest peer that has nothing on the way owes something to a client that
\* waits: an unchoke, or an answer to what is outstanding.
LEMMA WaitsForSomething == TypeOK /\ WaitInv => NeverWaitsInVain
<1> SUFFICES ASSUME Types, WaitInv, Honest, pc \in {"read", "unchoke"}, toClient = <<>>
             PROVE  PeerOwes
  BY TypeParts DEF NeverWaitsInVain
<1>1. present
  BY DEF WaitInv, Answered
<1>2. CASE pc = "unchoke"
  <2>1. choked /\ interested
    BY <1>2 DEF WaitInv, Stage
  <2>2. choked <=> peerChoking
    BY DEF WaitInv, Agreed
  <2> QED
    BY <1>1, <2>1, <2>2 DEF PeerOwes
<1>3. CASE pc = "read"
  <2>1. PICK b \in Outstanding : TRUE
    BY <1>3 DEF WaitInv, Stage
  <2>2. ChokeComing \/ AskedFor(b) \/ OnItsWay(b)
    BY <1>3 DEF WaitInv, Answered
  <2>3. toPeer # <<>>
    BY <2>2 DEF ChokeComing, AskedFor, OnItsWay
  <2> QED
    BY <1>1, <2>3 DEF PeerOwes
<1> QED
  BY <1>2, <1>3

\* The read deadline never expires on a peer that follows the protocol: it is
\* only met by peers that are gone or silent (downloader.go:82, :186).
THEOREM HonestPeersAreHeard == Spec => []NeverWaitsInVain
<1>1. Init => TypeOK /\ WaitInv
  BY TypeInit, WaitInit
<1>2. TypeOK /\ WaitInv /\ [Next]_vars => (TypeOK /\ WaitInv)'
  BY TypeStep, WaitStep
<1>3. TypeOK /\ WaitInv => NeverWaitsInVain
  BY WaitsForSomething
<1> QED
  BY <1>1, <1>2, <1>3, PTL DEF Spec

-----------------------------------------------------------------------------
(* Until a call fails, blocks arrive where they belong. *)

\* Everything in flight was asked for by this call and has not arrived, ...
OfThisCall ==
    /\ \A i \in 1 .. Len(toPeer) : toPeer[i][1] = pieceIndex /\ toPeer[i][2] \in Outstanding
    /\ \A i \in 1 .. Len(toClient) : toClient[i].kind = "piece" =>
          /\ toClient[i].piece = pieceIndex /\ toClient[i].good
          /\ toClient[i].block \in Outstanding

\* ... and is there once.
Once ==
    /\ \A i, j \in 1 .. Len(toPeer) : i # j => toPeer[i][2] # toPeer[j][2]
    /\ \A i, j \in 1 .. Len(toClient) :
          i # j /\ toClient[i].kind = "piece" /\ toClient[j].kind = "piece"
             => toClient[i].block # toClient[j].block
    /\ \A i \in 1 .. Len(toPeer) : \A j \in 1 .. Len(toClient) :
          toClient[j].kind = "piece" => toPeer[i][2] # toClient[j].block

\* What the assembler has is from this piece, and verifies once it is complete.
Assembled ==
    /\ CorruptCount = 0
    /\ Received \subseteq Requested
    /\ \A b \in Received : Data[b] = pieceIndex
    /\ pc \in {"queue", "read", "verify"} => Requested \subseteq Blocks(pieceIndex)
    /\ pc \notin {"queue", "read", "verify"} => Requested = {}
    /\ pc = "verify" => IsComplete

CleanInv == Honest /\ failures = 0 => OfThisCall /\ Once /\ Assembled

\* A message less in flight.
LEMMA ReadClean ==
    ASSUME Types, OfThisCall, Once, NEW m, Read(m), toPeer' = toPeer
    PROVE  /\ Once'
           /\ \A i \in 1 .. Len(toClient') : \E j \in 2 .. Len(toClient) : toClient'[i] = toClient[j]
           /\ m.kind = "piece" =>
                /\ m.piece = pieceIndex /\ m.good /\ m.block \in Outstanding
                /\ \A i \in 1 .. Len(toPeer') : toPeer'[i][2] # m.block
                /\ \A i \in 1 .. Len(toClient') :
                      toClient'[i].kind = "piece" => toClient'[i].block # m.block
<1>1. /\ m = toClient[1] /\ Len(toClient) \in Nat \ {0}
      /\ Len(toClient') = Len(toClient) - 1
      /\ \A i \in 1 .. Len(toClient) - 1 : toClient'[i] = toClient[i + 1]
  BY TailIndex DEF Types, Read
<1>2. \A i \in 1 .. Len(toClient') :
         i + 1 \in 2 .. Len(toClient) /\ i + 1 # 1 /\ toClient'[i] = toClient[i + 1]
  BY <1>1
<1>3. 1 \in 1 .. Len(toClient) /\ 2 .. Len(toClient) \subseteq 1 .. Len(toClient)
  BY <1>1
<1>4. Once'
  <2>1. \A i, j \in 1 .. Len(toPeer') : i # j => toPeer'[i][2] # toPeer'[j][2]
    BY DEF Once
  <2>2. ASSUME NEW i \in 1 .. Len(toClient'), NEW j \in 1 .. Len(toClient'), i # j,
               toClient'[i].kind = "piece", toClient'[j].kind = "piece"
        PROVE  toClient'[i].block # toClient'[j].block
    <3>1. i + 1 # j + 1
      BY <2>2
    <3> QED
      BY <1>2, <1>3, <2>2, <3>1 DEF Once
  <2>3. \A i \in 1 .. Len(toPeer') : \A j \in 1 .. Len(toClient') :
           toClient'[j].kind = "piece" => toPeer'[i][2] # toClient'[j].block
    BY <1>2, <1>3 DEF Once
  <2> QED
    BY <2>1, <2>2, <2>3 DEF Once
<1>5. ASSUME m.kind = "piece"
      PROVE  /\ m.piece = pieceIndex /\ m.good /\ m.block \in Outstanding
             /\ \A i \in 1 .. Len(toPeer') : toPeer'[i][2] # m.block
             /\ \A i \in 1 .. Len(toClient') :
                   toClient'[i].kind = "piece" => toClient'[i].block # m.block
  <2>1. m.piece = pieceIndex /\ m.good /\ m.block \in Outstanding
    BY <1>1, <1>3, <1>5 DEF OfThisCall
  <2>2. \A i \in 1 .. Len(toPeer') : toPeer'[i][2] # m.block
    BY <1>1, <1>3, <1>5 DEF Once
  <2>3. \A i \in 1 .. Len(toClient') :
           toClient'[i].kind = "piece" => toClient'[i].block # m.block
    BY <1>1, <1>2, <1>3, <1>5 DEF Once
  <2> QED
    BY <2>1, <2>2, <2>3
<1> QED
  BY <1>2, <1>4, <1>5

\* A message more that is not a block, or nothing new.
LEMMA SendClean ==
    ASSUME Types, OfThisCall, Once, NEW m \in Messages, PeerSends(m), m.kind # "piece",
           UNCHANGED <<toPeer, pieceIndex, Requested, Received>>
    PROVE  OfThisCall' /\ Once'
<1>1. /\ Len(toClient) \in Nat
      /\ Len(toClient') = Len(toClient) + 1
      /\ toClient'[Len(toClient) + 1] = m
      /\ \A i \in 1 .. Len(toClient) : toClient'[i] = toClient[i]
  BY AppendIndex DEF Types, PeerSends
<1>2. \A i \in 1 .. Len(toClient') : toClient'[i].kind = "piece" =>
         i \in 1 .. Len(toClient) /\ toClient'[i] = toClient[i]
  BY <1>1
<1>3. OfThisCall'
  BY <1>2 DEF OfThisCall, Outstanding
<1>4. Once'
  BY <1>2 DEF Once
<1> QED
  BY <1>3, <1>4

\* A request dropped, or turned into its block.
LEMMA ServeClean ==
    ASSUME Types, Honest, OfThisCall, Once, Serve
    PROVE  OfThisCall' /\ Once'
<1>1. PICK r \in Requests : r = Head(toPeer) /\ toPeer' = Tail(toPeer) /\ toPeer # <<>>
  BY DEF Serve, Types
<1>2. /\ r = toPeer[1] /\ Len(toPeer) \in Nat \ {0}
      /\ Len(toPeer') = Len(toPeer) - 1
      /\ \A i \in 1 .. Len(toPeer) - 1 : toPeer'[i] = toPeer[i + 1]
  BY <1>1, TailIndex DEF Types
<1>3. \A i \in 1 .. Len(toPeer') :
         i + 1 \in 2 .. Len(toPeer) /\ i + 1 # 1 /\ toPeer'[i] = toPeer[i + 1]
  BY <1>2
<1>4. 1 \in 1 .. Len(toPeer) /\ 2 .. Len(toPeer) \subseteq 1 .. Len(toPeer)
  BY <1>2
<1>5. UNCHANGED <<pieceIndex, Requested, Received>>
  BY DEF Serve, clientVars, callVars
<1>6. \A i \in 1 .. Len(toPeer') : toPeer'[i][1] = pieceIndex' /\ toPeer'[i][2] \in Outstanding'
  BY <1>3, <1>4, <1>5 DEF OfThisCall, Outstanding
<1>7. \A i, j \in 1 .. Len(toPeer') : i # j => toPeer'[i][2] # toPeer'[j][2]
  <2> SUFFICES ASSUME NEW i \in 1 .. Len(toPeer'), NEW j \in 1 .. Len(toPeer'), i # j
               PROVE  toPeer'[i][2] # toPeer'[j][2]
    OBVIOUS
  <2>1. i + 1 # j + 1
    OBVIOUS
  <2>2. PICK k \in 1 .. Len(toPeer) : k = i + 1 /\ toPeer'[i] = toPeer[k]
    BY <1>3, <1>4
  <2>3. PICK l \in 1 .. Len(toPeer) : l = j + 1 /\ toPeer'[j] = toPeer[l]
    BY <1>3, <1>4
  <2>4. toPeer[k][2] # toPeer[l][2]
    BY <2>1, <2>2, <2>3 DEF Once
  <2> QED
    BY <2>2, <2>3, <2>4
<1>8. r[1] = pieceIndex /\ r[2] \in Outstanding
      /\ \A i \in 1 .. Len(toPeer') : toPeer'[i][2] # r[2]
  BY <1>2, <1>3, <1>4 DEF OfThisCall, Once
<1>9. CASE UNCHANGED toClient
  <2>1. OfThisCall'
    BY <1>5, <1>6, <1>9 DEF OfThisCall, Outstanding
  <2>2. Once'
    BY <1>3, <1>4, <1>7, <1>9 DEF Once
  <2> QED
    BY <2>1, <2>2
<1>10. CASE \E m \in Answer(r[1], r[2]) : PeerSends(m)
  <2>1. PeerSends(Piece(r[1], r[2], TRUE))
    BY <1>10 DEF Answer, Honest
  <2>2. r[1] \in Pieces /\ r[2] \in AllBlocks
    BY DEF Requests
  <2>3. PICK m \in Messages : m = Piece(r[1], r[2], TRUE)
    BY <2>2, ControlType
  <2>4. m.kind = "piece" /\ m.piece = r[1] /\ m.block = r[2] /\ m.good
    BY <2>3 DEF Piece
  <2>5. /\ Len(toClient) \in Nat
        /\ Len(toClient') = Len(toClient) + 1
        /\ toClient'[Len(toClient) + 1] = m
        /\ \A i \in 1 .. Len(toClient) : toClient'[i] = toClient[i]
    <3>1. toClient' = Append(toClient, m)
      BY <2>1, <2>3 DEF PeerSends
    <3> QED
      BY <3>1, AppendIndex DEF Types
  <2>6. \A i \in 1 .. Len(toClient') :
           \/ i = Len(toClient) + 1 /\ toClient'[i] = m
           \/ i \in 1 .. Len(toClient) /\ toClient'[i] = toClient[i]
    BY <2>5
  <2>7. OfThisCall'
    BY <1>5, <1>6, <1>8, <2>4, <2>6 DEF OfThisCall, Outstanding
  <2>8. \A j \in 1 .. Len(toClient) : toClient[j].kind = "piece" => r[2] # toClient[j].block
    BY <1>2, <1>4 DEF Once
  <2>9. \A i, j \in 1 .. Len(toClient') :
           i # j /\ toClient'[i].kind = "piece" /\ toClient'[j].kind = "piece"
              => toClient'[i].block # toClient'[j].block
    BY <2>4, <2>6, <2>8 DEF Once
  <2>10. \A i \in 1 .. Len(toPeer') : \A j \in 1 .. Len(toClient') :
            toClient'[j].kind = "piece" => toPeer'[i][2] # toClient'[j].block
    BY <1>3, <1>4, <1>8, <2>4, <2>6 DEF Once
  <2> QED
    BY <1>7, <2>7, <2>9, <2>10 DEF Once
<1> QED
  BY <1>1, <1>9, <1>10 DEF Serve

\* A step of an honest peer puts nothing else in flight.
LEMMA PeerClean ==
    ASSUME Types, Honest, failures = 0, OfThisCall, Once, Assembled, Peer
    PROVE  OfThisCall' /\ Once' /\ Assembled'
<1>1. OfThisCall' /\ Once'
  <2>1. CASE Serve
    BY <2>1, ServeClean
  <2>2. CASE Unchoke \/ Choke
    <3>1. PICK m \in Messages : PeerSends(m) /\ m.kind # "piece"
      BY <2>2, ControlType DEF Unchoke, Choke
    <3> QED
      BY <2>2, <3>1, SendClean DEF Unchoke, Choke, clientVars, callVars
  <2>3. CASE SendUnasked \/ KeepAlive \/ Leave
    BY <2>3 DEF Honest, SendUnasked, KeepAlive, Leave
  <2> QED
    BY <2>1, <2>2, <2>3 DEF Peer
<1>2. UNCHANGED <<pc, pieceIndex, Requested, Received, Data, CorruptCount>>
  BY DEF Peer, Serve, Unchoke, Choke, SendUnasked, KeepAlive, Leave, clientVars, callVars
<1>3. Assembled'
  BY <1>2 DEF Assembled, IsComplete
<1> QED
  BY <1>1, <1>3

\* Nothing outstanding means nothing in flight.
LEMMA NothingInFlight ==
    ASSUME OfThisCall, Outstanding = {}
    PROVE  /\ \A i \in 1 .. Len(toPeer) : FALSE
           /\ \A i \in 1 .. Len(toClient) : toClient[i].kind # "piece"
  BY DEF OfThisCall

\* A step of the client, unless it makes the call fail.
LEMMA ClientClean ==
    ASSUME Types, failures = 0, OfThisCall, Once, Assembled, Client, failures' = 0
    PROVE  OfThisCall' /\ Once' /\ Assembled'
<1> USE DEF callVars, peerVars
<1>1. CASE \E p \in Pieces : Start(p)
  <2>1. UNCHANGED <<Requested, Received, Data, CorruptCount, toPeer, toClient>>
    BY <1>1 DEF Start
  <2>2. Requested = {} /\ Received = {} /\ Outstanding = {}
    BY <1>1 DEF Start, Assembled, Outstanding
  <2>3. OfThisCall' /\ Once'
    BY <2>1, <2>2, NothingInFlight DEF OfThisCall, Once
  <2>4. Assembled'
    BY <1>1, <2>1, <2>2 DEF Assembled, Start
  <2> QED
    BY <2>3, <2>4
<1>2. CASE Request
  <2>1. PICK c \in Missing :
           /\ Requested' = Requested \cup {c}
           /\ toPeer' = IF present THEN Append(toPeer, <<pieceIndex, c>>) ELSE toPeer
    BY <1>2 DEF Request
  <2>2. UNCHANGED <<pc, pieceIndex, Received, Data, CorruptCount, toClient>> /\ pc = "queue"
    BY <1>2 DEF Request
  <2>3. pieceIndex \in Pieces /\ c \in AllBlocks /\ c \in Blocks(pieceIndex)
        /\ c \notin Received /\ c \notin Requested
    BY <1>2, BlocksType DEF Types, Request, Between, Missing
  <2>4. <<pieceIndex, c>> \in Requests
    BY <2>3 DEF Requests
  <2>5. /\ Len(toPeer) \in Nat
        /\ \A i \in 1 .. Len(toPeer') :
              \/ i = Len(toPeer) + 1 /\ toPeer'[i] = <<pieceIndex, c>>
              \/ i \in 1 .. Len(toPeer) /\ toPeer'[i] = toPeer[i]
    BY <2>1, <2>4, AppendIndex DEF Types
  <2>6. c \in Outstanding' /\ c \notin Outstanding /\ Outstanding \subseteq Outstanding'
    BY <2>1, <2>2, <2>3 DEF Outstanding
  <2>7. OfThisCall'
    BY <2>2, <2>5, <2>6 DEF OfThisCall
  <2>8. \A i \in 1 .. Len(toPeer) : toPeer[i][2] # c
    BY <2>6 DEF OfThisCall
  <2>9. \A i \in 1 .. Len(toClient) : toClient[i].kind = "piece" => toClient[i].block # c
    BY <2>6 DEF OfThisCall
  <2>10. \A i, j \in 1 .. Len(toPeer') : i # j => toPeer'[i][2] # toPeer'[j][2]
    BY <2>5, <2>8 DEF Once
  <2>11. \A i \in 1 .. Len(toPeer') : \A j \in 1 .. Len(toClient') :
            toClient'[j].kind = "piece" => toPeer'[i][2] # toClient'[j].block
    BY <2>2, <2>5, <2>9 DEF Once
  <2>12. Once'
    BY <2>2, <2>10, <2>11 DEF Once
  <2>13. Assembled'
    BY <2>1, <2>2, <2>3 DEF Assembled
  <2> QED
    BY <2>7, <2>12, <2>13
<1>3. CASE SendInterested \/ Queued
  <2>1. UNCHANGED <<pieceIndex, Requested, Received, Data, CorruptCount, toPeer, toClient>>
    BY <1>3 DEF SendInterested, Queued
  <2>2. OfThisCall' /\ Once'
    BY <2>1 DEF OfThisCall, Once, Outstanding
  <2>3. Assembled'
    BY <1>3, <2>1 DEF Assembled, SendInterested, Queued, IsComplete
  <2> QED
    BY <2>2, <2>3
<1>4. CASE Unchoked \/ StillChoked \/ ReadOther
  <2>1. PICK m : Read(m)
    BY <1>4 DEF Unchoked, StillChoked, ReadOther
  <2>2. UNCHANGED <<pieceIndex, Requested, Received, Data, CorruptCount, toPeer>>
    BY <1>4 DEF Unchoked, StillChoked, ReadOther
  <2>3. Once' /\ \A i \in 1 .. Len(toClient') :
                    \E j \in 2 .. Len(toClient) : toClient'[i] = toClient[j]
    BY <2>1, <2>2, ReadClean
  <2>4. OfThisCall'
    BY <2>2, <2>3 DEF OfThisCall, Outstanding
  <2>5. Assembled'
    BY <1>4, <2>2 DEF Assembled, Unchoked, StillChoked, ReadOther
  <2> QED
    BY <2>3, <2>4, <2>5
<1>5. CASE AddBlock
  <2>1. PICK m \in BlockMsgs :
           /\ Read(m)
           /\ Received' = Received \cup {m.block}
           /\ Data' = [Data EXCEPT ![m.block] = IF m.good THEN m.piece ELSE Junk]
    BY <1>5 DEF AddBlock
  <2>2. UNCHANGED <<pieceIndex, Requested, CorruptCount, toPeer>> /\ m.kind = "piece"
        /\ pc = "read" /\ pc' = "queue"
    BY <1>5 DEF AddBlock, BlockMsgs
  <2>3. /\ Once'
        /\ \A i \in 1 .. Len(toClient') : \E j \in 2 .. Len(toClient) : toClient'[i] = toClient[j]
        /\ m.piece = pieceIndex /\ m.good /\ m.block \in Outstanding
        /\ \A i \in 1 .. Len(toPeer') : toPeer'[i][2] # m.block
        /\ \A i \in 1 .. Len(toClient') :
              toClient'[i].kind = "piece" => toClient'[i].block # m.block
    BY <2>1, <2>2, ReadClean
  <2>4. Outstanding' = Outstanding \ {m.block}
    BY <2>1, <2>2 DEF Outstanding
  <2>5. OfThisCall'
    BY <2>2, <2>3, <2>4 DEF OfThisCall
  <2>6. Data' = [Data EXCEPT ![m.block] = pieceIndex]
    BY <2>1, <2>3
  <2>7. \A b \in Received' : Data'[b] = pieceIndex
    <3>1. m.block \in AllBlocks /\ Received \subseteq AllBlocks
      BY DEF BlockMsgs, Types
    <3>2. \A b \in Received : Data[b] = pieceIndex
      BY DEF Assembled
    <3> QED
      BY <2>1, <2>6, <3>1, <3>2 DEF Types
  <2>8. Received' \subseteq Requested
    BY <2>1, <2>3 DEF Outstanding, Assembled
  <2>9. Assembled'
    BY <2>2, <2>7, <2>8 DEF Assembled
  <2> QED
    BY <2>3, <2>5, <2>9
<1>6. CASE WriteFails \/ ReadChoke \/ ReadInvalid \/ ReadFails
  BY <1>6 DEF WriteFails, ReadChoke, ReadInvalid, ReadFails, Fail
<1>7. CASE VerifyFails
  <2>1. Blocks(pieceIndex) \subseteq Received
    BY <1>7 DEF VerifyFails, Assembled, IsComplete
  <2> QED
    BY <1>7, <2>1 DEF VerifyFails, Verified, Assembled
<1>8. CASE VerifyPasses
  <2>1. UNCHANGED <<CorruptCount, toPeer, toClient>> /\ pc' \in Between
        /\ Requested' = {} /\ Received' = {}
    BY <1>8 DEF VerifyPasses, EndCall, Between
  <2>2. Outstanding = {}
    BY <1>8 DEF VerifyPasses, Assembled, IsComplete, Outstanding
  <2>3. OfThisCall' /\ Once'
    BY <2>1, <2>2, NothingInFlight DEF OfThisCall, Once
  <2>4. Assembled'
    BY <2>1 DEF Assembled, Between
  <2> QED
    BY <2>3, <2>4
<1> QED
  BY <1>1, <1>2, <1>3, <1>4, <1>5, <1>6, <1>7, <1>8 DEF Client

\* Until a call fails, the invariant holds in every step.
LEMMA CleanStep == TypeOK /\ CleanInv /\ [Next]_vars => CleanInv'
<1> SUFFICES ASSUME Types, CleanInv, [Next]_vars, Honest', failures' = 0
             PROVE  OfThisCall' /\ Once' /\ Assembled'
  BY TypeParts DEF CleanInv
<1>1. conduct' = conduct /\ (failures' = failures \/ failures' = failures + 1)
  BY DEF Next, Client, Peer, Start, SendInterested, Request, Queued, WriteFails,
     Unchoked, StillChoked, ReadChoke, ReadOther, AddBlock, ReadInvalid, ReadFails, VerifyPasses,
     VerifyFails, Fail, Serve, Unchoke, Choke, SendUnasked, KeepAlive, Leave,
     peerVars, clientVars, callVars, vars
<1>2. Honest /\ failures = 0
  BY <1>1 DEF Honest, Types
<1>3. OfThisCall /\ Once /\ Assembled
  BY <1>2 DEF CleanInv
<1>4. CASE Client
  BY <1>2, <1>3, <1>4, ClientClean
<1>5. CASE Peer
  BY <1>2, <1>3, <1>5, PeerClean
<1>6. CASE UNCHANGED vars
  BY <1>3, <1>6 DEF vars, callVars, OfThisCall, Once, Assembled, Outstanding, IsComplete
<1> QED
  BY <1>4, <1>5, <1>6 DEF Next

\* An honest peer's blocks land in the piece they are of, and all its pieces
\* verify, until a choke makes a call fail (downloader.go:132-160).
THEOREM BlocksLandWhereAsked == Spec => []DeliveredAsAsked
<1>1. Init => TypeOK /\ CleanInv
  <2>1. Init => CleanInv
    BY DEF Init, CleanInv, OfThisCall, Once, Assembled, Outstanding
  <2> QED
    BY <2>1, TypeInit
<1>2. TypeOK /\ CleanInv /\ [Next]_vars => (TypeOK /\ CleanInv)'
  BY TypeStep, CleanStep
<1>3. CleanInv => DeliveredAsAsked
  BY DEF CleanInv, DeliveredAsAsked, Assembled
<1> QED
  BY <1>1, <1>2, <1>3, PTL DEF Spec

-----------------------------------------------------------------------------
(* A peer that does not choke is never failed, nor banned. *)

\* It follows the protocol and has not used its right to choke.
Faithful == Honest /\ whims = 0

\* Only unchokes and blocks are on their way from it.
PlainWire == \A i \in 1 .. Len(toClient) : toClient[i].kind \in {"unchoke", "piece"}

NeverFailed == Faithful => failures = 0 /\ PlainWire /\ pc \notin {"banned", "gone"}

\* The blocks of a piece end where it ends: the bounds of AddBlock refuse none.
LEMMA BlocksFit ==
    ASSUME NEW p \in Pieces, NEW b \in Blocks(p)
    PROVE  b * BlockSize < PieceSize[p] /\ b * BlockSize + BlockLength(p, b) <= PieceSize[p]
<1> DEFINE total == TotalBlocks(p)
<1>1. PieceSize[p] \in Nat \ {0} /\ BlockSize \in Nat \ {0}
  BY DownloaderAssumption
<1>2. total \in Int /\ total * BlockSize <= PieceSize[p] + BlockSize - 1
  BY <1>1 DEF TotalBlocks
<1>3. b \in Nat /\ b + 1 <= total
  BY <1>2 DEF Blocks
<1>4. (b + 1) * BlockSize <= total * BlockSize
  BY <1>1, <1>2, <1>3
<1>5. (b + 1) * BlockSize = b * BlockSize + BlockSize /\ b * BlockSize \in Nat
  BY <1>1, <1>3
<1> HIDE DEF total
<1>6. b * BlockSize < PieceSize[p]
  <2>1. total * BlockSize \in Int
    BY <1>1, <1>2
  <2> QED
    BY <1>1, <1>2, <1>4, <1>5, <2>1
<1>7. b * BlockSize + BlockLength(p, b) <= PieceSize[p]
  BY <1>1, <1>5 DEF BlockLength
<1> QED
  BY <1>6, <1>7

\* A call on a faithful peer has no way to fail: the peer is there and answers,
\* and what it sends is an unchoke or a block of the piece.
LEMMA NothingFails ==
    ASSUME Types, WaitInv, NeverWaitsInVain, OfThisCall, Assembled, PlainWire, Honest
    PROVE  ~(WriteFails \/ ReadChoke \/ ReadInvalid \/ ReadFails \/ VerifyFails)
<1>1. present /\ "silent" \notin conduct
  BY DEF WaitInv, Answered, Honest
<1>2. ~WriteFails
  BY <1>1 DEF WriteFails
<1>3. ~ReadFails
  BY <1>1 DEF ReadFails, NeverWaitsInVain
<1>4. \A m : Read(m) => /\ m.kind \in {"unchoke", "piece"}
                        /\ m.kind = "piece" => m.piece = pieceIndex /\ m.block \in Outstanding
  <2> SUFFICES ASSUME NEW m, Read(m)
               PROVE  /\ m.kind \in {"unchoke", "piece"}
                      /\ m.kind = "piece" => m.piece = pieceIndex /\ m.block \in Outstanding
    OBVIOUS
  <2>1. m = toClient[1] /\ 1 \in 1 .. Len(toClient)
    BY TailIndex DEF Types, Read
  <2> QED
    BY <2>1 DEF PlainWire, OfThisCall
<1>5. ~ReadChoke
  <2>1. [kind |-> "choke"].kind = "choke"
    OBVIOUS
  <2> QED
    BY <1>4, <2>1 DEF ReadChoke
<1>6. ~ReadInvalid
  <2>1. [kind |-> "badHave"].kind = "badHave" /\ [kind |-> "badBlock"].kind = "badBlock"
    OBVIOUS
  <2>2. ~Read([kind |-> "badHave"]) /\ ~Read([kind |-> "badBlock"])
    BY <1>4, <2>1
  <2>3. ASSUME NEW m \in BlockMsgs, Read(m), pc = "read" PROVE Fits(m)
    <3>1. m.kind = "piece"
      BY DEF BlockMsgs
    <3>2. m.piece = pieceIndex /\ m.block \in Requested
      BY <1>4, <2>3, <3>1 DEF Outstanding
    <3>3. pieceIndex \in Pieces /\ m.block \in Blocks(pieceIndex)
      BY <2>3, <3>2 DEF Types, Between, Assembled
    <3> QED
      BY <3>2, <3>3, BlocksFit DEF Fits
  <2> QED
    BY <2>2, <2>3 DEF ReadInvalid
<1>7. ~VerifyFails
  BY DEF VerifyFails, Verified, Assembled, IsComplete
<1> QED
  BY <1>2, <1>3, <1>5, <1>6, <1>7

\* Nothing but unchokes and blocks is sent, or left, by a step of both.
LEMMA PlainStep ==
    ASSUME Types, PlainWire, Honest, [Next]_vars, whims' = 0
    PROVE  PlainWire'
<1>1. CASE UNCHANGED toClient
  BY <1>1 DEF PlainWire
<1>2. ASSUME NEW m, Read(m) PROVE PlainWire'
  <2>1. /\ Len(toClient) \in Nat \ {0} /\ Len(toClient') = Len(toClient) - 1
        /\ \A i \in 1 .. Len(toClient) - 1 : toClient'[i] = toClient[i + 1]
    BY <1>2, TailIndex DEF Types, Read
  <2>2. \A i \in 1 .. Len(toClient') :
           i + 1 \in 1 .. Len(toClient) /\ toClient'[i] = toClient[i + 1]
    BY <2>1
  <2> QED
    BY <2>2 DEF PlainWire
<1>3. ASSUME NEW m \in Messages, PeerSends(m), m.kind \in {"unchoke", "piece"}
      PROVE  PlainWire'
  <2>1. /\ Len(toClient) \in Nat /\ Len(toClient') = Len(toClient) + 1
        /\ toClient'[Len(toClient) + 1] = m
        /\ \A i \in 1 .. Len(toClient) : toClient'[i] = toClient[i]
    BY <1>3, AppendIndex DEF Types, PeerSends
  <2>2. \A i \in 1 .. Len(toClient') :
           toClient'[i] = m \/ (i \in 1 .. Len(toClient) /\ toClient'[i] = toClient[i])
    BY <2>1
  <2> QED
    BY <1>3, <2>2 DEF PlainWire
<1>4. CASE Client
  <2>1. UNCHANGED toClient \/ \E m : Read(m)
    BY <1>4 DEF Client, Start, SendInterested, Request, Queued, WriteFails, Unchoked,
       StillChoked, ReadChoke, ReadOther, AddBlock, ReadInvalid, ReadFails, VerifyPasses,
       VerifyFails
  <2> QED
    BY <1>1, <1>2, <2>1
<1>5. CASE Serve
  <2>1. CASE UNCHANGED toClient
    BY <1>1, <2>1
  <2>2. CASE ~peerChoking /\ \E m \in Answer(Head(toPeer)[1], Head(toPeer)[2]) : PeerSends(m)
    <3>1. PICK r \in Requests : r = Head(toPeer)
      BY <1>5 DEF Serve, Types
    <3>2. PeerSends(Piece(r[1], r[2], TRUE))
      BY <2>2, <3>1 DEF Answer, Honest
    <3>3. Piece(r[1], r[2], TRUE) \in Messages /\ Piece(r[1], r[2], TRUE).kind = "piece"
      BY <3>1, ControlType DEF Requests, Piece
    <3> QED
      BY <1>3, <3>2, <3>3
  <2> QED
    BY <1>5, <2>1, <2>2 DEF Serve
<1>6. CASE Unchoke
  <2>1. PeerSends([kind |-> "unchoke"]) /\ [kind |-> "unchoke"] \in Messages
    BY <1>6, ControlType DEF Unchoke
  <2> QED
    BY <1>3, <2>1
<1>7. CASE Choke \/ SendUnasked \/ KeepAlive \/ Leave
  <2>1. ~Choke
    BY DEF Choke, Types
  <2> QED
    BY <1>7, <2>1 DEF SendUnasked, KeepAlive, Leave, Honest
<1>8. CASE UNCHANGED vars
  BY <1>1, <1>8 DEF vars
<1> QED
  BY <1>4, <1>5, <1>6, <1>7, <1>8 DEF Next, Peer

\* A faithful peer stays unfailed.
LEMMA NeverFailedStep ==
    TypeOK /\ WaitInv /\ CleanInv /\ NeverFailed /\ [Next]_vars => NeverFailed'
<1> SUFFICES ASSUME Types, WaitInv, NeverWaitsInVain, CleanInv, NeverFailed, [Next]_vars,
                    Faithful'
             PROVE  failures' = 0 /\ PlainWire' /\ pc' \notin {"banned", "gone"}
  BY TypeParts, WaitsForSomething DEF NeverFailed
<1>1. conduct' = conduct /\ (whims' = whims \/ whims' = whims + 1)
  BY DEF Next, Client, Peer, Start, SendInterested, Request, Queued, WriteFails,
     Unchoked, StillChoked, ReadChoke, ReadOther, AddBlock, ReadInvalid, ReadFails, VerifyPasses,
     VerifyFails, Fail, Serve, Unchoke, Choke, SendUnasked, KeepAlive, Leave,
     peerVars, clientVars, callVars, vars
<1>2. Honest /\ whims = 0 /\ whims' = 0
  BY <1>1 DEF Faithful, Honest, Types
<1>3. failures = 0 /\ PlainWire /\ pc \notin {"banned", "gone"}
  BY <1>2 DEF NeverFailed, Faithful
<1>4. OfThisCall /\ Once /\ Assembled
  BY <1>2, <1>3 DEF CleanInv
<1>5. ~(WriteFails \/ ReadChoke \/ ReadInvalid \/ ReadFails \/ VerifyFails)
  BY <1>2, <1>3, <1>4, NothingFails
<1>6. failures' = 0 /\ pc' \notin {"banned", "gone"}
  <2>1. CASE Client
    BY <1>3, <1>5, <2>1
       DEF Client, Start, SendInterested, Request, Queued, Unchoked, StillChoked, ReadOther,
           AddBlock, VerifyPasses, EndCall
  <2>2. CASE Peer
    BY <1>3, <2>2 DEF Peer, Serve, Unchoke, Choke, SendUnasked, KeepAlive, Leave, clientVars
  <2>3. CASE UNCHANGED vars
    BY <1>3, <2>3 DEF vars
  <2> QED
    BY <2>1, <2>2, <2>3 DEF Next
<1>7. PlainWire'
  BY <1>2, <1>3, PlainStep
<1> QED
  BY <1>6, <1>7

\* No call on a peer that follows the protocol and never chokes fails, and the
\* peer is never banned: what OnlyLiarsBanned says is true of it, and a choke is
\* what the counterexample of the run stale needs (worker.go:98).
THEOREM OnlyChokesSpoil ==
    Spec => [](Honest /\ whims = 0 => /\ failures = 0 /\ CorruptCount = 0
                                      /\ pc \notin {"banned", "gone"})
<1> DEFINE IInv == TypeOK /\ WaitInv /\ CleanInv /\ NeverFailed
<1>1. Init => IInv
  <2>1. Init => CleanInv /\ NeverFailed
    BY DEF Init, CleanInv, OfThisCall, Once, Assembled, Outstanding, NeverFailed, PlainWire
  <2> QED
    BY <2>1, TypeInit, WaitInit
<1>2. IInv /\ [Next]_vars => IInv'
  BY TypeStep, WaitStep, CleanStep, NeverFailedStep
<1>3. IInv => (Honest /\ whims = 0 => /\ failures = 0 /\ CorruptCount = 0
                                      /\ pc \notin {"banned", "gone"})
  BY DEF NeverFailed, Faithful, CleanInv, Assembled
<1> QED
  BY <1>1, <1>2, <1>3, PTL DEF Spec
=============================================================================
