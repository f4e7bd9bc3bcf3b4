---------------------------- MODULE MCDownloader ----------------------------
(* Instances of Downloader for TLC: piece sizes and the conducts of peers. *)
EXTENDS Downloader, TLC

\* Three blocks, and two of which the last is a short one.
ThreeAndTwo == 0 :> 6 @@ 1 :> 3

\* A peer without fault, one for each fault, and some that combine them.
EveryConduct == {{}, {"unasked", "corrupt"}, {"malformed", "leaves"}, {"silent"},
                 {"chatter"}, {"leaves"}, {"silent", "unasked"}}
HonestOnly   == {{}}
=============================================================================
