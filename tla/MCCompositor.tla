---------------------------- MODULE MCCompositor ----------------------------
\* Compositor on a small instance: two camera buffers, as many as are ever worked on
\* at a time, and enough frames for one worker's output to be overwritten by
\* another's.  Nothing tells the buffers apart, so they are taken up to renaming.
EXTENDS Compositor, TLC

Renamings == Permutations(Buffers)
=============================================================================
