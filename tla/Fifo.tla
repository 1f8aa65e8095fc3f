------------------------------- MODULE Fifo -------------------------------
(***************************************************************************)
(* What a stream parser promises of the link it reads: the packets that    *)
(* were sent are taken one by one in the order they were sent, each once,  *)
(* and only the end of the connection takes away those that are left.      *)
(***************************************************************************)
EXTENDS Naturals, Sequences

VARIABLES
  queue,  \* the packets sent and not yet taken
  taken,  \* how many have been taken
  open    \* there is a connection

vars == <<queue, taken, open>>

Init == queue = <<>> /\ taken = 0 /\ open = FALSE

Open  == ~open /\ open' = TRUE /\ UNCHANGED <<queue, taken>>
Send  == open /\ (\E m \in {queue'[i] : i \in DOMAIN queue'} : queue' = Append(queue, m))
              /\ UNCHANGED <<taken, open>>
Take  == queue # <<>> /\ queue' = Tail(queue) /\ taken' = taken + 1 /\ UNCHANGED open
Close == open' = FALSE /\ queue' = <<>> /\ taken' = 0

Spec == Init /\ [][Open \/ Send \/ Take \/ Close]_vars
===========================================================================
