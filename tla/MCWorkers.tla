------------------------------ MODULE MCWorkers ------------------------------
(* Instances of Workers for TLC: which peers connect and how they behave. *)
EXTENDS Workers, TLC

CONSTANTS c1, c2, h1, h2

\* c1 is there from the start; c2 joins it, is dialled by PEX, or dials in.
TwoConns == {c1, c2}
OnlyFirst == {c1}
PexSecond == {c2}
NoConn == {}
TwoHosts == c1 :> h1 @@ c2 :> h2
SameHost == [c \in TwoConns |-> h1]

\* What they answer: anything; anything, but only one of them corrupts; a seed
\* and a peer that corrupts or leaves.
AnyAnswer == [c \in TwoConns |-> Outcome]
MixedAnswer == c1 :> {"data", "error", "lost"} @@ c2 :> {"data", "corrupt", "lost"}
SeedAnswer == c1 :> {"data"} @@ c2 :> {"data", "corrupt", "lost"}

\* The bitfields they open with.
AllPieces2 == [c \in TwoConns |-> {Pieces}]
AllOrLast == c1 :> {Pieces} @@ c2 :> {Pieces, {TotalPieces - 1}}

\* What verifies on disk at the start, and what the video stream asks for.
NoResume == {{}}
FirstOrNone == {{}, {0}}
NoSeek == {}
SeekLast == {{}, {TotalPieces - 1}}
=============================================================================
