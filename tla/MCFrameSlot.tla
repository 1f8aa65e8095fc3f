---------------------------- MODULE MCFrameSlot ----------------------------
\* FrameSlot on a small instance: six frames fill each buffer three times.
EXTENDS FrameSlot
=============================================================================
