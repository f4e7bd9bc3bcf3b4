--------------------------- MODULE DownloadLedger ---------------------------
(***************************************************************************)
(* What a download promises, whoever carries it out: a piece is done only  *)
(* once its data is stored, what is done stays done, a piece given up      *)
(* stays given up, and the end is announced only when every piece is done  *)
(* and none was given up.                                                  *)
(***************************************************************************)
CONSTANT Pieces

VARIABLES stored,  \* pieces whose verified data was handed to storage
          done,    \* pieces the download counts as completed
          lost,    \* pieces it has given up
          told     \* it has announced the end

ledgerVars == <<stored, done, lost, told>>

Init ==
    /\ stored \in SUBSET Pieces
    /\ done = stored
    /\ lost = {}
    /\ told = FALSE

Store(p) ==
    /\ stored' = stored \cup {p}
    /\ UNCHANGED <<done, lost, told>>

Finish(p) ==
    /\ p \in stored
    /\ done' = done \cup {p}
    /\ UNCHANGED <<stored, lost, told>>

GiveUp(p) ==
    /\ lost' = lost \cup {p}
    /\ UNCHANGED <<stored, done, told>>

Announce ==
    /\ done = Pieces /\ lost = {}
    /\ told' = TRUE
    /\ UNCHANGED <<stored, done, lost>>

Next == Announce \/ \E p \in Pieces : Store(p) \/ Finish(p) \/ GiveUp(p)

Spec == Init /\ [][Next]_ledgerVars
=============================================================================
