----------------------------- MODULE MCControl -----------------------------
\* Control on a small instance: three connections for two places in the table, two
\* that send two lines each and one that only comes and goes, over two runs of the
\* compositor.
\*
\* The LEDs (IrLed) share no variable with it, so the two are checked side by side and
\* not interleaved: either part moves while the other is as it was at the start.
EXTENDS Control, IrLed

MCScripts ==
  [remote |-> <<[op |-> "mode", arg |-> "full_camera"], [op |-> "mode", arg |-> "split_aa_cam"]>>,
   web    |-> <<[op |-> "other", arg |-> "STATUS"], [op |-> "mode", arg |-> "full_aa"]>>,
   button |-> <<>>]

MCInit == Init /\ LedInit
MCNext ==
  \/ LedInit /\ Next /\ UNCHANGED ledVars
  \/ Init /\ LedNext /\ UNCHANGED vars
MCSpec == MCInit /\ [][MCNext]_<<vars, ledVars>>
=============================================================================
