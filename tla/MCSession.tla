----------------------------- MODULE MCSession -----------------------------
(* The instance of Session for TLC: two dialers that compete for one place, *)
(* with more peers than places.                                             *)
EXTENDS Session

ASSUME InstanceIsTight ==
    Cardinality(Peers) > MaxActiveConnections /\ Cardinality(Dialers) > MaxActiveConnections
=============================================================================
