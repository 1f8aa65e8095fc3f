------------------------------- MODULE Relay -------------------------------
(***************************************************************************)
(* A proxied session of aa-proxy: the select! loop of proxy.rs with the    *)
(* AapFrameReader of each side, over byte streams that an encoder like     *)
(* AapFrame::encode_frames produced (aap.rs).                              *)
(*                                                                         *)
(* A stream is a sequence of cells, the parts a physical frame can arrive  *)
(* in: its header, then its payload if there is one.  The loop polls both  *)
(* readers; when one has a whole message, the future of the other is       *)
(* dropped with whatever it had read of an unfinished physical frame,      *)
(* while its reassembly, a field of the reader, stays.  Ordinary TCP       *)
(* segmentation makes this happen: frames arrive in parts at any time.     *)
(***************************************************************************)
EXTENDS Naturals, Sequences

CONSTANT
  Chunks      \* per side: the chunks of the payload of each message it sends

Sides == {"car", "phone"}

ASSUME ChunksAssumption == Chunks \in [Sides -> Seq(Nat)]

Other(d) == CHOOSE e \in Sides : e # d

-----------------------------------------------------------------------------
(* encode_frames: what each side's stream is.                              *)

\* Flags of chunk i of n.
Fragment(i, n) == [first |-> i = 1, last |-> i = n]

\* Mutation of Flags: the last fragment of several is not marked.
FlagsNoLast(i, n) == [first |-> i = 1, last |-> i = n /\ n = 1]

Flags(i, n) == Fragment(i, n)

Header(m, i, n, len) ==
  [part |-> "header", m |-> m, i |-> i,
   first |-> Flags(i, n).first, last |-> Flags(i, n).last, len |-> len]

Body(m, i) == [part |-> "body", m |-> m, i |-> i]

\* Message m of n chunks; an empty payload still takes one frame.
EncodeFrames(m, n) ==
  IF n = 0
    THEN << Header(m, 1, 1, 0) >>
    ELSE [k \in 1 .. 2 * n |->
           IF k % 2 = 1 THEN Header(m, (k + 1) \div 2, n, 1) ELSE Body(m, k \div 2)]

\* The messages d sends, and the stream they make, up to each.
Message(d, m) == [m |-> m, data |-> [i \in 1 .. Chunks[d][m] |-> Body(m, i)]]

StreamTo == [d \in Sides |->
  LET to[m \in 0 .. Len(Chunks[d])] ==
        IF m = 0 THEN <<>> ELSE to[m - 1] \o EncodeFrames(m, Chunks[d][m])
  IN to]
Stream == [d \in Sides |-> StreamTo[d][Len(Chunks[d])]]

\* Cells of d's stream up to the end of message m.
MessageEnd(d, m) == Len(StreamTo[d][m])

-----------------------------------------------------------------------------

VARIABLES
  arrived,     \* per side: the cells of its stream that have arrived
  closed,      \* per side: the peer has closed its connection
  pos,         \* per side: the cells its reader has consumed
  pending,     \* per side: the header whose payload read_frame awaits, or NoHeader
  reassembly,  \* per side: the message being reassembled, or NoMessage
  dropped,     \* per side: select! has dropped a half-read frame of it (history)
  out,         \* per side: the messages read from it and forwarded to the other
  end          \* why the session ended, or "running"

relayVars == <<arrived, closed, pos, pending, reassembly, dropped, out, end>>

NoHeader == [part |-> "none"]
NoMessage == [m |-> 0, data |-> <<>>]

Headers  == [part : {"header"}, m : Nat, i : Nat, first : BOOLEAN, last : BOOLEAN, len : 0 .. 1]
Bodies   == [part : {"body"}, m : Nat, i : Nat]
Messages == [m : Nat, data : Seq(Headers \cup Bodies)]

RelayTypeOK ==
  /\ arrived \in [Sides -> Nat] /\ pos \in [Sides -> Nat]
  /\ \A d \in Sides : pos[d] <= arrived[d] /\ arrived[d] <= Len(Stream[d])
  /\ pending \in [Sides -> {NoHeader} \cup {h \in Headers : h.len > 0}]
  /\ reassembly \in [Sides -> Messages]
  /\ out \in [Sides -> Seq(Messages)]
  /\ closed \in [Sides -> BOOLEAN] /\ dropped \in [Sides -> BOOLEAN]
  /\ end \in {"running", "disconnected", "io_error", "invalid_data"}

RelayInit ==
  /\ arrived = [d \in Sides |-> 0] /\ closed = [d \in Sides |-> FALSE]
  /\ pos = [d \in Sides |-> 0]
  /\ pending = [d \in Sides |-> NoHeader]
  /\ reassembly = [d \in Sides |-> NoMessage]
  /\ dropped = [d \in Sides |-> FALSE]
  /\ out = [d \in Sides |-> <<>>]
  /\ end = "running"

-----------------------------------------------------------------------------
(* The peers.                                                              *)

\* Where the physical frames of d's stream end.
FrameEnds(d) ==
  {n \in DOMAIN Stream[d] : n < Len(Stream[d]) => Stream[d][n + 1].part = "header"}

\* The rest of a physical frame arrives, or the whole of one.
FrameArrives(d) ==
  /\ ~closed[d]
  /\ \E n \in FrameEnds(d) :
       /\ n > arrived[d]
       /\ \A k \in FrameEnds(d) : k > arrived[d] => n <= k
       /\ arrived' = [arrived EXCEPT ![d] = n]
  /\ UNCHANGED <<closed, pos, pending, reassembly, dropped, out, end>>

\* The header of a frame arrives before its payload.
PartArrives(d) ==
  /\ ~closed[d]
  /\ arrived[d] + 1 < Len(Stream[d])
  /\ Stream[d][arrived[d] + 2].part = "body"
  /\ arrived' = [arrived EXCEPT ![d] = @ + 1]
  /\ UNCHANGED <<closed, pos, pending, reassembly, dropped, out, end>>

Close(d) ==
  /\ ~closed[d]
  /\ closed' = [closed EXCEPT ![d] = TRUE]
  /\ UNCHANGED <<arrived, pos, pending, reassembly, dropped, out, end>>

-----------------------------------------------------------------------------
(* read_frame of side d, polled by the loop.                               *)

\* A cell that is not a header, read where one is expected, is taken for one: its
\* bytes can mean any flags, any length, and the channel and type of the message it
\* is part of or others.
HeaderRead(cell) ==
  IF cell.part = "header" THEN {cell}
  ELSE [part : {"header"}, m : {cell.m, cell.m + 1}, i : {0},
        first : BOOLEAN, last : BOOLEAN, len : 0 .. 1]

\* The fragment violates the reassembly protocol.
Rejected(r, h) ==
  \/ h.first /\ r # NoMessage
  \/ ~h.first /\ ~h.last /\ (r = NoMessage \/ r.m # h.m)

\* Mutation of Assembled: the payload of a last fragment is appended without
\* asking whether the same fragment is the first.
AssembledTwice(r, h, p) ==
  IF h.first THEN [m |-> h.m, data |-> IF h.last THEN p \o p ELSE p]
  ELSE [r EXCEPT !.data = @ \o p]

\* The message after fragment h with payload p.  A last fragment that was never
\* begun is taken as a message of its own, its payload appended twice.
Assembled(r, h, p) ==
  IF h.first THEN [m |-> h.m, data |-> p]
  ELSE IF r = NoMessage THEN [m |-> h.m, data |-> p \o p]
  ELSE [r EXCEPT !.data = @ \o p]

\* A whole message: forward it.  The select! drops the other side's future, and the
\* header it may have read; its next one starts with a header.
Forward(d, msg) ==
  /\ \/ out' = [out EXCEPT ![d] = Append(@, msg)] /\ end' = "running"
     \/ closed[Other(d)] /\ out' = out /\ end' = "io_error"
  /\ reassembly' = [reassembly EXCEPT ![d] = NoMessage]
  /\ pending' = [e \in Sides |-> NoHeader]
  /\ dropped' = [e \in Sides |-> dropped[e] \/ (e # d /\ pending[e] # NoHeader)]

\* Fragment h with payload p has been read, up to position n.
Fragmented(d, h, p, n) ==
  /\ pos' = [pos EXCEPT ![d] = n]
  /\ \/ /\ Rejected(reassembly[d], h)
        /\ end' = "invalid_data"
        /\ pending' = [pending EXCEPT ![d] = NoHeader]
        /\ UNCHANGED <<reassembly, dropped, out>>
     \/ /\ ~Rejected(reassembly[d], h) /\ ~h.last
        /\ reassembly' = [reassembly EXCEPT ![d] = Assembled(@, h, p)]
        /\ pending' = [pending EXCEPT ![d] = NoHeader]
        /\ UNCHANGED <<dropped, out, end>>
     \/ /\ ~Rejected(reassembly[d], h) /\ h.last
        /\ Forward(d, Assembled(reassembly[d], h, p))
  /\ UNCHANGED <<arrived, closed>>

\* The header and all of its payload are there.
ReadFrame(d) ==
  /\ end = "running" /\ pending[d] = NoHeader /\ pos[d] < arrived[d]
  /\ \E h \in HeaderRead(Stream[d][pos[d] + 1]) :
       /\ pos[d] + 1 + h.len <= arrived[d]
       /\ Fragmented(d, h, SubSeq(Stream[d], pos[d] + 2, pos[d] + 1 + h.len), pos[d] + 1 + h.len)

\* The header is there and the payload is not: the header is consumed.
ReadHeader(d) ==
  /\ end = "running" /\ pending[d] = NoHeader /\ pos[d] < arrived[d]
  /\ \E h \in HeaderRead(Stream[d][pos[d] + 1]) :
       /\ pos[d] + 1 + h.len > arrived[d]
       /\ pending' = [pending EXCEPT ![d] = h]
  /\ pos' = [pos EXCEPT ![d] = @ + 1]
  /\ UNCHANGED <<arrived, closed, reassembly, dropped, out, end>>

ReadPayload(d) ==
  /\ end = "running" /\ pending[d] # NoHeader /\ pos[d] < arrived[d]
  /\ Fragmented(d, pending[d], << Stream[d][pos[d] + 1] >>, pos[d] + 1)

\* End of stream: clean where a header is expected, an error in a payload.
ReadEof(d) ==
  /\ end = "running" /\ closed[d] /\ pos[d] = arrived[d]
  /\ end' = IF pending[d] = NoHeader THEN "disconnected" ELSE "io_error"
  /\ UNCHANGED <<arrived, closed, pos, pending, reassembly, dropped, out>>

Read(d) == ReadFrame(d) \/ ReadHeader(d) \/ ReadPayload(d) \/ ReadEof(d)

RelayNext ==
  \E d \in Sides : FrameArrives(d) \/ PartArrives(d) \/ Close(d) \/ Read(d)

\* select! polls its branches in random order, so neither side is starved.
RelaySpec == RelayInit /\ [][RelayNext]_relayVars /\ \A d \in Sides : WF_relayVars(Read(d))

-----------------------------------------------------------------------------
(* Properties.                                                             *)

\* Every message forwarded from d is the next one d sent, whole and unaltered, with
\* its fragments put together in order.
InOrder(d) ==
  /\ Len(out[d]) <= Len(Chunks[d])
  /\ \A n \in DOMAIN out[d] : out[d][n] = Message(d, n)

\* A direction carries what its side sends, however frames are cut by TCP, fragmented
\* and interleaved with the other direction's, and whatever has become of that one,
\* until select! drops a frame half-read (proxy.rs:115).  And what an encoder produced
\* is never rejected (aap.rs: InvalidData) before such a drop: nothing else in the
\* reader or the loop loses, doubles or mixes up data.
Faithful ==
  /\ \A d \in Sides : ~dropped[d] => InOrder(d)
  /\ end = "invalid_data" => \E d \in Sides : dropped[d]

\* A message that has arrived is forwarded, even if the other side never falls
\* silent, unless the session ends or select! dropped a half-read frame of its side.
ArrivedIsForwarded ==
  \A d \in Sides : \A m \in DOMAIN Chunks[d] :
    (arrived[d] >= MessageEnd(d, m)) ~>
      (Len(out[d]) >= m \/ end # "running" \/ dropped[d])

\* proxy.rs:7-8 ("Each frame passes through the MitmLayer before being forwarded"): a
\* session forwards every frame.  With a frame dropped half-read it does not.
ForwardedAsSent == \A d \in Sides : InOrder(d)
=============================================================================
