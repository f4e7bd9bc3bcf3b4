---------------------------- MODULE DurableStore ----------------------------
(***************************************************************************)
(* What an asynchronous piece writer promises: a write it accepted is on   *)
(* disk when it has shut down without an error, in the last version        *)
(* accepted; nothing is accepted or written after that; an error stays.    *)
(***************************************************************************)
CONSTANTS Pieces, Versions, Absent

VARIABLES latest,   \* the last version of each piece that was accepted
          durable,  \* the version of each piece on disk
          failed,   \* a write to the disk has failed
          sealed    \* the writer has shut down

storeVars == <<latest, durable, failed, sealed>>

Init ==
    /\ latest = [p \in Pieces |-> Absent]
    /\ durable = [p \in Pieces |-> Absent]
    /\ failed = FALSE
    /\ sealed = FALSE

Accept(p, v) ==
    /\ ~sealed
    /\ latest' = [latest EXCEPT ![p] = v]
    /\ UNCHANGED <<durable, failed, sealed>>

\* Only what was accepted for a piece reaches the disk, and never past a failure.
Persist(p, v) ==
    /\ ~sealed /\ ~failed /\ latest[p] # Absent
    /\ durable' = [durable EXCEPT ![p] = v]
    /\ UNCHANGED <<latest, failed, sealed>>

Fail ==
    /\ ~sealed
    /\ failed' = TRUE
    /\ UNCHANGED <<latest, durable, sealed>>

Seal ==
    /\ failed \/ durable = latest
    /\ sealed' = TRUE
    /\ UNCHANGED <<latest, durable, failed>>

Next ==
    \/ Fail \/ Seal
    \/ \E p \in Pieces, v \in Versions : Accept(p, v) \/ Persist(p, v)

Spec == Init /\ [][Next]_storeVars
=============================================================================
