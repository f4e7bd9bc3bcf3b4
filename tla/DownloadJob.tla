----------------------------- MODULE DownloadJob -----------------------------
(***************************************************************************)
(* What a download service promises about a job, across crashes: a job     *)
(* settles once, as complete only when every piece is done, as failed only *)
(* when nobody asked for its end; by then what is done is durable, unless  *)
(* a write failed; afterwards only a late cancellation or a crash changes  *)
(* its state, and a piece counted then is durable already; a crash loses   *)
(* the job but nothing durable, and the next one counts only durable       *)
(* pieces as done from the start.                                          *)
(***************************************************************************)
CONSTANT Pieces

VARIABLES state,    \* "none", "active", "complete", "failed" or "cancelled"
          settled,  \* the work on the job has ended
          asked,    \* its end was asked for
          done,     \* pieces the job counts as downloaded
          durable,  \* pieces that outlive a crash
          broken    \* a write has failed

jobVars == <<state, settled, asked, done, durable, broken>>

Init ==
    /\ state = "none" /\ settled = FALSE /\ asked = FALSE
    /\ done = {} /\ durable = {} /\ broken = FALSE

Submit ==
    /\ state = "none" /\ state' = "active"
    /\ UNCHANGED <<settled, asked, done, durable, broken>>

\* The work begins, even on a job that was cancelled before.
Begin ==
    /\ ~settled /\ state \in {"active", "cancelled"} /\ state' = "active"
    /\ UNCHANGED <<settled, asked, done, durable, broken>>

\* What an earlier life of the job left is found again.
Resume ==
    /\ ~settled /\ state # "none" /\ done = {}
    /\ done' \in SUBSET durable
    /\ UNCHANGED <<state, settled, asked, durable, broken>>

\* A piece that is counted after the job settled is durable like the others.
Finish(p) ==
    /\ state # "none"
    /\ settled => p \in durable \/ broken
    /\ done' = done \cup {p}
    /\ UNCHANGED <<state, settled, asked, durable, broken>>

Persist(p) ==
    /\ ~settled /\ state # "none" /\ ~broken
    /\ durable' = durable \cup {p}
    /\ UNCHANGED <<state, settled, asked, done, broken>>

Break ==
    /\ ~settled /\ state # "none"
    /\ broken' = TRUE
    /\ UNCHANGED <<state, settled, asked, done, durable>>

Settle ==
    /\ ~settled /\ state # "none"
    /\ settled' = TRUE
    /\ done \subseteq durable \/ broken
    /\ \/ state' = "complete" /\ done = Pieces
       \/ state' = "cancelled" /\ asked
       \/ state' = "failed" /\ ~asked
    /\ UNCHANGED <<asked, done, durable, broken>>

Cancel ==
    /\ state # "none"
    /\ state' = "cancelled" /\ asked' = TRUE
    /\ UNCHANGED <<settled, done, durable, broken>>

Crash ==
    /\ state # "none"
    /\ state' = "none" /\ settled' = FALSE /\ asked' = FALSE
    /\ done' = {} /\ broken' = FALSE
    /\ UNCHANGED durable

Next ==
    \/ Submit \/ Begin \/ Resume \/ Break \/ Settle \/ Cancel \/ Crash
    \/ \E p \in Pieces : Finish(p) \/ Persist(p)

Spec == Init /\ [][Next]_jobVars
=============================================================================
