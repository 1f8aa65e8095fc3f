--------------------------- MODULE MCCarPlayVideo ---------------------------
(* Two sessions that send a frame each, through a socket that holds less.   *)
EXTENDS CarPlayVideo, TLC
CONSTANTS s, t
MCThreads == {s, t}
MCOneFrame == s :> 1 @@ t :> 1
=============================================================================
