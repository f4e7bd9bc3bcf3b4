----------------------------- MODULE MCDiscovery -----------------------------
(* The instance of Discovery for TLC: a tracker over HTTP and one over UDP, and
   five nodes, three of them in one bucket for two; n4 is told of under its old
   address, and n5 is too far away to be asked. *)
EXTENDS Discovery, TLC

CONSTANTS h, u, x, y, z, bad

Self == <<0, 0, 0>>
Target == <<1, 1, 1>>
n1 == [id |-> <<1, 0, 0>>, host |-> 1]
n2 == [id |-> <<1, 0, 1>>, host |-> 1]
n3 == [id |-> <<1, 1, 0>>, host |-> 1]
n4 == [id |-> <<0, 1, 0>>, host |-> 1]
n5 == [id |-> <<0, 0, 1>>, host |-> 1]

TrackerPeers == h :> {x, bad} @@ u :> {y}
TwoAddresses == h :> 0 @@ u :> 2

RouterContacts == {n1}
StrangerContacts == {[n4 EXCEPT !.host = 2], n3}
BrokenNodes == {n3.id}
PeersAt == [n \in IDs |-> IF n = n2.id THEN {x} ELSE IF n = n4.id THEN {z} ELSE {}]
Contact == [n \in IDs |->
    CASE n = n1.id -> <<n2, n3>>
      [] n = n2.id -> <<n1, n4>>
      [] n = n4.id -> <<n5>>
      [] OTHER     -> <<>>]
=============================================================================
