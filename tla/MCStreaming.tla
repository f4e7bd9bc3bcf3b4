----------------------------- MODULE MCStreaming -----------------------------
(* The instance of Streaming for TLC: the first piece lies in three files, one of
   them empty; the video is the last of them, and has both pieces. *)
EXTENDS Streaming

CONSTANTS w1, w2, k1

Files == <<1, 0, 2>>
Video == <<FALSE, FALSE, TRUE>>
=============================================================================
