------------------------------- MODULE Tracker -------------------------------
(***************************************************************************)
(* internal/tracker/tracker.go: GetPeers asks every tracker of the torrent *)
(* at once, one goroutine each, and waits for all of them.  A UDP tracker  *)
(* is tried one IP after the other, with one socket for each: a connect    *)
(* request, then an announce, both with retries.  A datagram may be lost   *)
(* (it is never read) or late (a later attempt reads it).                  *)
(*                                                                         *)
(* The connection identifier is carried along unread; the deadline of an   *)
(* attempt may pass at any time.                                           *)
(***************************************************************************)
EXTENDS Naturals, FiniteSets

CONSTANTS Announces,   \* announce addresses of the torrent
          Http,        \* those that are http or https; the others are udp
          Addresses,   \* how many IPs the host of each has
          MaxRetries,  \* attempts at a connect and at an announce
          Peers,       \* addresses of peers
          Unusable,    \* unspecified, multicast or unparsable ones
          PeersOf      \* what each tracker knows

ASSUME TrackerAssumption ==
    /\ Announces # {} /\ IsFiniteSet(Announces)
    /\ Http \subseteq Announces
    /\ Addresses \in [Announces -> Nat]
    /\ MaxRetries \in Nat \ {0}
    /\ PeersOf \in [Announces -> SUBSET Peers]

VARIABLES tracker,   \* control state of each goroutine
          ip,        \* the IP tried
          attempt,   \* attempts made at this request
          tx,        \* transaction identifier of the last request of the socket
          replies,   \* replies on their way to the socket
          timeouts,  \* history: attempts of this request that timed out
          late,      \* history: the socket got a reply to an earlier attempt
          refused,   \* history: the socket got an error or a short reply
          answer,    \* history: what each tracker returned
          allPeers   \* the peers collected, under mu

socketVars  == <<ip, attempt, tx, replies, timeouts, late, refused>>
trackerVars == <<tracker, socketVars, answer, allPeers>>

Reply == [action : {"connect", "announce", "error"}, tx : Nat]

InitTracker ==
    /\ tracker = [a \in Announces |-> "start"]
    /\ ip = [a \in Announces |-> 0]
    /\ attempt = [a \in Announces |-> 0]
    /\ tx = [a \in Announces |-> 0]
    /\ replies = [a \in Announces |-> {}]
    /\ timeouts = [a \in Announces |-> 0]
    /\ late = [a \in Announces |-> FALSE]
    /\ refused = [a \in Announces |-> FALSE]
    /\ answer = [a \in Announces |-> {}]
    /\ allPeers = {}

-----------------------------------------------------------------------------
(* The end of a goroutine. *)

\* parseCompactPeers, or the list of dictionaries.
parsePeers(list) == list \ Unusable

\* The peers found are merged into the result.
Merge(a, found) ==
    /\ tracker' = [tracker EXCEPT ![a] = "answered"]
    /\ answer' = [answer EXCEPT ![a] = found]
    /\ allPeers' = allPeers \cup found

Fail(a) ==
    /\ tracker' = [tracker EXCEPT ![a] = "failed"]
    /\ UNCHANGED <<answer, allPeers>>

\* An address that is no URL or has another scheme, a request or a lookup that
\* fails.
Rejected(a) ==
    /\ tracker[a] = "start"
    /\ Fail(a)
    /\ UNCHANGED socketVars

\* A reply without peers is an error over HTTP.
getHTTPPeers(a) ==
    /\ tracker[a] = "start" /\ a \in Http
    /\ LET found == parsePeers(PeersOf[a])
       IN  IF found = {} THEN Fail(a) ELSE Merge(a, found)
    /\ UNCHANGED socketVars

-----------------------------------------------------------------------------
(* A UDP tracker. *)

\* A request with a fresh identifier: it is answered, or refused; left are the
\* other replies on their way.
Request(a, action, left) ==
    /\ tracker' = [tracker EXCEPT ![a] = action]
    /\ tx' = [tx EXCEPT ![a] = @ + 1]
    /\ \E kind \in {action, "error"} :
          replies' = [replies EXCEPT ![a] = left \cup {[action |-> kind, tx |-> tx[a] + 1]}]

\* The next IP, if any, is tried with a new socket.
LookupIP(a) ==
    /\ tracker[a] = "start" /\ a \notin Http
    /\ tracker' = [tracker EXCEPT ![a] = "dial"]
    /\ ip' = [ip EXCEPT ![a] = 1]
    /\ UNCHANGED <<attempt, tx, replies, timeouts, late, refused, answer, allPeers>>

Dial(a) ==
    /\ tracker[a] = "dial" /\ ip[a] <= Addresses[a]
    /\ Request(a, "connect", {})
    /\ attempt' = [attempt EXCEPT ![a] = 1]
    /\ timeouts' = [timeouts EXCEPT ![a] = 0]
    /\ late' = [late EXCEPT ![a] = FALSE]
    /\ refused' = [refused EXCEPT ![a] = FALSE]
    /\ UNCHANGED <<ip, answer, allPeers>>

DialFails(a) ==
    /\ tracker[a] = "dial" /\ ip[a] <= Addresses[a]
    /\ ip' = [ip EXCEPT ![a] = @ + 1]
    /\ UNCHANGED <<tracker, attempt, tx, replies, timeouts, late, refused, answer, allPeers>>

AllIPsFailed(a) ==
    /\ tracker[a] = "dial" /\ ip[a] > Addresses[a]
    /\ Fail(a)
    /\ UNCHANGED socketVars

Asking(a) == tracker[a] \in {"connect", "announce"}

\* The reply an attempt waits for.
Awaited(a) == [action |-> tracker[a], tx |-> tx[a]]

\* Mutant of Retry: the last attempt is not made.
RetryTooFew(a, left) ==
    \/ /\ attempt[a] + 1 < MaxRetries
       /\ attempt' = [attempt EXCEPT ![a] = @ + 1]
       /\ Request(a, tracker[a], left)
       /\ UNCHANGED ip
    \/ /\ attempt[a] + 1 >= MaxRetries
       /\ tracker' = [tracker EXCEPT ![a] = "dial"]
       /\ ip' = [ip EXCEPT ![a] = @ + 1]
       /\ replies' = [replies EXCEPT ![a] = {}]
       /\ tx' = [tx EXCEPT ![a] = 0]
       /\ attempt' = [attempt EXCEPT ![a] = 0]

\* The attempt failed: the next one, with the replies left on the same socket, or
\* the next IP.
Retry(a, left) ==
    \/ /\ attempt[a] < MaxRetries
       /\ attempt' = [attempt EXCEPT ![a] = @ + 1]
       /\ Request(a, tracker[a], left)
       /\ UNCHANGED ip
    \/ /\ attempt[a] >= MaxRetries
       /\ tracker' = [tracker EXCEPT ![a] = "dial"]
       /\ ip' = [ip EXCEPT ![a] = @ + 1]
       /\ replies' = [replies EXCEPT ![a] = {}]
       /\ tx' = [tx EXCEPT ![a] = 0]
       /\ attempt' = [attempt EXCEPT ![a] = 0]

\* The deadline of the attempt passes.
TimesOut(a) ==
    /\ Asking(a)
    /\ timeouts' = [timeouts EXCEPT ![a] = @ + 1]
    /\ Retry(a, replies[a])
    /\ UNCHANGED <<late, refused, answer, allPeers>>

\* Any other datagram ends the attempt too.
Misread(a) ==
    /\ Asking(a)
    /\ \E m \in replies[a] :
          /\ m # Awaited(a)
          /\ late' = [late EXCEPT ![a] = @ \/ m.tx < tx[a]]
          /\ refused' = [refused EXCEPT ![a] = @ \/ m.action = "error"]
          /\ Retry(a, replies[a] \ {m})
    /\ UNCHANGED <<timeouts, answer, allPeers>>

Connected(a) ==
    /\ tracker[a] = "connect" /\ Awaited(a) \in replies[a]
    /\ Request(a, "announce", replies[a] \ {Awaited(a)})
    /\ attempt' = [attempt EXCEPT ![a] = 1]
    /\ timeouts' = [timeouts EXCEPT ![a] = 0]
    /\ UNCHANGED <<ip, late, refused, answer, allPeers>>

\* A UDP tracker may answer without peers.
Announced(a) ==
    /\ tracker[a] = "announce" /\ Awaited(a) \in replies[a]
    /\ Merge(a, parsePeers(PeersOf[a]))
    /\ replies' = [replies EXCEPT ![a] = {}]
    /\ UNCHANGED <<ip, attempt, tx, timeouts, late, refused>>

-----------------------------------------------------------------------------
Ended(a) == tracker[a] \in {"answered", "failed"}

\* What the goroutine of a tracker does once its deadlines pass.
GetPeersFrom(a) ==
    \/ Rejected(a) \/ getHTTPPeers(a) \/ LookupIP(a)
    \/ Dial(a) \/ DialFails(a) \/ AllIPsFailed(a)
    \/ TimesOut(a) \/ Misread(a) \/ Connected(a) \/ Announced(a)

-----------------------------------------------------------------------------
\* An IP is given up for a reason: it refused, or all the attempts at a request
\* timed out, or a reply came late.  One late reply may indeed be enough: each
\* attempt may then read the reply to the one before.
GivesUpForAReason ==
    [][\A a \in Announces : Asking(a) /\ tracker'[a] = "dial" =>
          timeouts'[a] = MaxRetries \/ late'[a] \/ refused'[a]]_trackerVars
=============================================================================
