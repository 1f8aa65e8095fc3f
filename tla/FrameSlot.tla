----------------------------- MODULE FrameSlot -----------------------------
(***************************************************************************)
(* The double-buffered frame slot of aa_video_input.c and of               *)
(* carplay_input.c (the same code, twice).  A receiver thread reads        *)
(* length-prefixed frames from one connection at a time into the buffer of *)
(* g_write_idx and swaps the indices under g_mutex; get_frame hands the    *)
(* worker thread a POINTER into the buffer of g_read_idx; main's destroy   *)
(* stops the thread and frees both buffers.                                *)
(*                                                                         *)
(* A frame is its number in the order of publication; a buffer is the      *)
(* frame its bytes belong to and whether all of them have arrived.  The    *)
(* module starts from a successful ..._init.                               *)
(***************************************************************************)
EXTENDS Naturals

CONSTANT MaxFrames  \* bound on the number of frames published

ASSUME MaxFramesAssumption == MaxFrames \in Nat

VARIABLES
  running,    \* g_running
  pc,         \* where the receiver thread is
  wi,         \* the receiver's local copy of g_write_idx
  writeIdx,   \* g_write_idx
  readIdx,    \* g_read_idx
  newFrame,   \* g_new_frame
  buf,        \* g_buf: the bytes in each buffer
  meta,       \* g_buf_len and g_codec: the frame each describes
  published,  \* number of swaps
  held,       \* what the consumer got from get_frame and has not finished with
  taken,      \* the last frame handed out
  life        \* where main is in ..._destroy

vars == <<running, pc, wi, writeIdx, readIdx, newFrame, buf, meta, published,
          held, taken, life>>

receiver == <<pc, wi, writeIdx, readIdx, newFrame, buf, meta, published>>
consumer == <<held, taken>>
shutdown == <<running, life>>

Idx == {0, 1}
Other(i) == 1 - i
Whole(n) == [frame |-> n, whole |-> TRUE]
Torn(n)  == [frame |-> n, whole |-> FALSE]
Content  == [frame: 0 .. MaxFrames, whole: BOOLEAN]

\* No pointer is out.
Nothing == [idx |-> 0, frame |-> 0]

TypeOK ==
  /\ running \in BOOLEAN
  /\ pc \in {"loop", "accept", "header", "body", "partial", "filled", "closing", "exited"}
  /\ wi \in Idx /\ writeIdx \in Idx /\ readIdx \in Idx
  /\ newFrame \in BOOLEAN
  /\ buf \in [Idx -> Content]
  /\ meta \in [Idx -> 0 .. MaxFrames]
  /\ published \in 0 .. MaxFrames
  /\ held \in [idx: Idx, frame: 0 .. MaxFrames]
  /\ taken \in 0 .. MaxFrames
  /\ life \in {"up", "stopping", "joining", "freed"}

Init ==
  /\ running = TRUE /\ life = "up"
  /\ pc = "loop" /\ wi = 0
  /\ writeIdx = 0 /\ readIdx = 1 /\ newFrame = FALSE
  /\ buf = [i \in Idx |-> Torn(0)] /\ meta = [i \in Idx |-> 0]
  /\ published = 0
  /\ held = Nothing /\ taken = 0

-----------------------------------------------------------------------------
(* The receiver thread.                                                    *)

\* The outer while (g_running): call accept, or leave the thread.
Loop ==
  /\ pc = "loop"
  /\ pc' = IF running THEN "accept" ELSE "exited"
  /\ UNCHANGED <<wi, writeIdx, readIdx, newFrame, buf, meta, published, consumer, shutdown>>

\* accept returns a connection, or an error.
Accept ==
  /\ pc = "accept"
  /\ pc' \in {"header", "loop"}
  /\ UNCHANGED <<wi, writeIdx, readIdx, newFrame, buf, meta, published, consumer, shutdown>>

\* The inner while (g_running): a length prefix that passes the check arrives
\* and the write index is copied, without the mutex.
GoodHeader ==
  /\ pc = "header"
  /\ published < MaxFrames
  /\ wi' = writeIdx
  /\ pc' = "body"
  /\ UNCHANGED <<writeIdx, readIdx, newFrame, buf, meta, published, consumer, shutdown>>

\* g_running was cleared, the sender has gone, or the length is 0 or too big.
DropConnection ==
  /\ pc \in {"header", "body", "partial"}
  /\ pc' = "closing"
  /\ UNCHANGED <<wi, writeIdx, readIdx, newFrame, buf, meta, published, consumer, shutdown>>

\* Some, not all, bytes of the frame land in the write buffer.
BodyPart ==
  /\ pc = "body"
  /\ buf' = [buf EXCEPT ![wi] = Torn(published + 1)]
  /\ pc' = "partial"
  /\ UNCHANGED <<wi, writeIdx, readIdx, newFrame, meta, published, consumer, shutdown>>

\* The last bytes land; the length and the detected codec are stored.
BodyDone ==
  /\ pc = "partial"
  /\ buf'  = [buf EXCEPT ![wi] = Whole(published + 1)]
  /\ meta' = [meta EXCEPT ![wi] = published + 1]
  /\ pc' = "filled"
  /\ UNCHANGED <<wi, writeIdx, readIdx, newFrame, published, consumer, shutdown>>

\* Under g_mutex: read buffer r next, write buffer w next, signal the frame.
Swap(r, w) ==
  /\ pc = "filled"
  /\ readIdx' = r
  /\ writeIdx' = w
  /\ newFrame' = TRUE
  /\ published' = published + 1
  /\ pc' = "header"
  /\ UNCHANGED <<wi, buf, meta, consumer, shutdown>>

\* Mutation of Publish: the toggle is forgotten.
PublishNoToggle == Swap(wi, wi)

\* Publish the filled buffer and go back to the inner loop.
Publish == Swap(wi, Other(wi))

\* Mutation of CloseConnection: the thread ends with its first connection.
CloseAndExit ==
  /\ pc = "closing"
  /\ pc' = "exited"
  /\ UNCHANGED <<wi, writeIdx, readIdx, newFrame, buf, meta, published, consumer, shutdown>>

\* Forget the client, close it and wait for the next one.
CloseConnection ==
  /\ pc = "closing"
  /\ pc' = "loop"
  /\ UNCHANGED <<wi, writeIdx, readIdx, newFrame, buf, meta, published, consumer, shutdown>>

-----------------------------------------------------------------------------
(* The worker thread that consumes the frames.                             *)

\* get_frame under g_mutex: copy pointer, length and codec, if a frame is unread.
Get(clear) ==
  /\ held = Nothing
  /\ newFrame
  /\ held' = [idx |-> readIdx, frame |-> meta[readIdx]]
  /\ taken' = meta[readIdx]
  /\ newFrame' = ~clear
  /\ UNCHANGED <<pc, wi, writeIdx, readIdx, buf, meta, published, shutdown>>

\* Mutation of GetFrame: g_new_frame is not cleared.
GetFrameKeep == Get(FALSE)

GetFrame == Get(TRUE)

\* The decoder has read the buffer; the pointer is not used again.
Finish ==
  /\ held # Nothing
  /\ held' = Nothing
  /\ UNCHANGED <<receiver, taken, shutdown>>

-----------------------------------------------------------------------------
(* ..._destroy, called by main.                                            *)

\* g_running = 0.
Stop ==
  /\ life = "up"
  /\ running' = FALSE
  /\ life' = "stopping"
  /\ UNCHANGED <<receiver, consumer>>

\* Close the server and the client socket, then wait in pthread_join.
CloseSockets ==
  /\ life = "stopping"
  /\ life' = "joining"
  /\ UNCHANGED <<running, receiver, consumer>>

\* The thread has exited: free both buffers and remove the socket.
JoinAndFree ==
  /\ life = "joining"
  /\ pc = "exited"
  /\ life' = "freed"
  /\ buf' = [i \in Idx |-> Torn(0)]
  /\ UNCHANGED <<running, pc, wi, writeIdx, readIdx, newFrame, meta, published, consumer>>

-----------------------------------------------------------------------------
Receiver == Loop \/ Accept \/ GoodHeader \/ DropConnection \/ BodyPart \/ BodyDone
            \/ Publish \/ CloseConnection
Consumer == GetFrame \/ Finish
Shutdown == Stop \/ CloseSockets \/ JoinAndFree

Next == Receiver \/ Consumer \/ Shutdown

\* The receiver's steps that need nothing from the sender always happen; the
\* sender's do not have to, and nothing makes main shut down.
Fairness ==
  /\ WF_vars(Loop)
  /\ WF_vars(Publish)
  /\ WF_vars(CloseConnection)

Spec == Init /\ [][Next]_vars /\ Fairness

-----------------------------------------------------------------------------
(* Properties.                                                             *)

\* The unread frame is the newest one, its bytes are all there and its length
\* and codec are its own: neither a frame cut off by a disconnect nor the one
\* being received is ever offered (recv thread lines 108-125, get_frame).
PublishedWhole ==
  newFrame /\ life # "freed" =>
    /\ buf[readIdx] = Whole(published)
    /\ meta[readIdx] = published

\* What a consumer that still reads through its pointer can count on: the bytes are
\* those of its frame until a newer frame has been published, when the receiver may
\* start to overwrite them, or until ..._destroy, begun by main, has freed them.
\* Both ends are real: main destroys the inputs before it joins the workers
\* (main.c), so neither the mutex nor the join protects a pointer in use.
HeldUntilOverrunOrFreed ==
  held # Nothing /\ buf[held.idx] # Whole(held.frame) =>
    published > held.frame \/ (life = "freed" /\ ~running)

\* The receiver never writes into a freed buffer: destroy joins it before it frees.
NoWriteAfterFree == life = "freed" => pc = "exited"

\* What the slot promises in every interleaving of receiver, consumer and destroy:
\* until the buffers are freed a frame offered is whole, a frame held is lost to
\* nothing but a newer frame or that free, and the receiver is gone by then.
SafeUntilFreed == PublishedWhole /\ HeldUntilOverrunOrFreed /\ NoWriteAfterFree

\* What the header says of the pointer: it is valid until the next call of get_frame
\* (aa_video_input.h).  Not so: a newer frame is received into it, and main frees it
\* while a worker decodes (FrameSlot_pointer.cfg).
PointerValid == held # Nothing => life # "freed" /\ buf[held.idx] = Whole(held.frame)

\* The slot implements the mailbox of the header files.
Box == IF newFrame THEN meta[readIdx] ELSE 0
Promise == INSTANCE Mailbox WITH delivered <- published, box <- Box
ImplementsMailbox == Promise!MailboxSpec

\* After a disconnect the receiver waits for the next sender, unless it is being
\* shut down ("On aa-proxy reconnect we accept again and continue").
AcceptsAgain == pc = "closing" ~> (pc = "accept" \/ ~running)
=============================================================================
