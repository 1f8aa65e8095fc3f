-------------------------- MODULE FrameSlot_proofs --------------------------
(***************************************************************************)
(* What FrameSlot guarantees for any number of frames: the type invariant, *)
(* the three safety properties, and that the slot implements the mailbox   *)
(* its header promises.                                                    *)
(***************************************************************************)
EXTENDS FrameSlot, TLAPS

USE MaxFramesAssumption

\* The inductive invariant.  The safety properties need four facts they do not
\* state: the two indices always differ, the receiver's local copy of the write
\* index is not stale while it receives, length and codec of the read buffer are
\* always those of the last frame, and a pointer handed out is to the last frame
\* or older than it.
IndexInv ==
  /\ readIdx # writeIdx
  /\ pc \in {"body", "partial", "filled"} => wi = writeIdx /\ published < MaxFrames
  /\ life = "freed" => pc = "exited"
  /\ life # "up" => ~running

BufferInv ==
  /\ newFrame => published > 0
  /\ meta[readIdx] = published
  /\ published > 0 /\ life # "freed" => buf[readIdx] = Whole(published)
  /\ pc = "filled" => buf[wi] = Whole(published + 1) /\ meta[wi] = published + 1

HeldInv ==
  held # Nothing => /\ held.frame > 0
                    /\ held.frame < published \/ (held.frame = published /\ held.idx = readIdx)

IInv == TypeOK /\ IndexInv /\ BufferInv /\ HeldInv

-----------------------------------------------------------------------------
LEMMA InitIInv == Init => IInv
<1> SUFFICES ASSUME Init PROVE IInv
  OBVIOUS
<1>1. TypeOK
  <2>1. Torn(0) \in Content /\ Nothing \in [idx: Idx, frame: 0 .. MaxFrames]
    BY DEF Content, Torn, Nothing, Idx
  <2>2. buf \in [Idx -> Content]
    BY <2>1 DEF Init
  <2>3. meta \in [Idx -> 0 .. MaxFrames]
    BY DEF Init
  <2> QED BY <2>1, <2>2, <2>3 DEF Init, TypeOK, Idx
<1>2. IndexInv BY DEF Init, IndexInv
<1>3. BufferInv BY DEF Init, BufferInv, Idx
<1>4. HeldInv BY DEF Init, HeldInv
<1> QED BY <1>1, <1>2, <1>3, <1>4 DEF IInv

LEMMA NextTypeOK == TypeOK /\ IndexInv /\ [Next]_vars => TypeOK'
<1> SUFFICES ASSUME TypeOK, IndexInv, [Next]_vars PROVE TypeOK'
  OBVIOUS
<1> USE DEF TypeOK, IndexInv, Idx, Content, Torn, Whole, receiver, consumer, shutdown
<1>1. CASE Loop BY <1>1 DEF Loop
<1>2. CASE Accept BY <1>2 DEF Accept
<1>3. CASE GoodHeader BY <1>3 DEF GoodHeader
<1>4. CASE DropConnection BY <1>4 DEF DropConnection
<1>5. CASE BodyPart BY <1>5 DEF BodyPart
<1>6. CASE BodyDone BY <1>6 DEF BodyDone
<1>7. CASE Publish BY <1>7 DEF Publish, Swap, Other
<1>8. CASE CloseConnection BY <1>8 DEF CloseConnection
<1>9. CASE GetFrame BY <1>9 DEF GetFrame, Get
<1>10. CASE Finish BY <1>10 DEF Finish, Nothing
<1>11. CASE Stop BY <1>11 DEF Stop
<1>12. CASE CloseSockets BY <1>12 DEF CloseSockets
<1>13. CASE JoinAndFree BY <1>13 DEF JoinAndFree
<1>14. CASE UNCHANGED vars BY <1>14 DEF vars
<1> QED
  BY <1>1, <1>2, <1>3, <1>4, <1>5, <1>6, <1>7, <1>8, <1>9, <1>10, <1>11, <1>12,
     <1>13, <1>14 DEF Next, Receiver, Consumer, Shutdown

LEMMA NextIndexInv == TypeOK /\ IndexInv /\ [Next]_vars => IndexInv'
<1> SUFFICES ASSUME TypeOK, IndexInv, [Next]_vars PROVE IndexInv'
  OBVIOUS
<1> USE DEF TypeOK, IndexInv, Idx, receiver, consumer, shutdown
<1>1. CASE Receiver
  <2>1. CASE Publish BY <2>1 DEF Publish, Swap, Other
  <2>2. CASE GoodHeader BY <2>2 DEF GoodHeader
  <2>3. CASE Loop \/ Accept \/ DropConnection \/ BodyPart \/ BodyDone \/ CloseConnection
    BY <2>3 DEF Loop, Accept, DropConnection, BodyPart, BodyDone, CloseConnection
  <2> QED BY <1>1, <2>1, <2>2, <2>3 DEF Receiver
<1>2. CASE Consumer BY <1>2 DEF Consumer, GetFrame, Get, Finish
<1>3. CASE Shutdown BY <1>3 DEF Shutdown, Stop, CloseSockets, JoinAndFree
<1>4. CASE UNCHANGED vars BY <1>4 DEF vars
<1> QED BY <1>1, <1>2, <1>3, <1>4 DEF Next

LEMMA NextBufferInv == TypeOK /\ IndexInv /\ BufferInv /\ [Next]_vars => BufferInv'
<1> SUFFICES ASSUME TypeOK, IndexInv, BufferInv, [Next]_vars PROVE BufferInv'
  OBVIOUS
<1> USE DEF TypeOK, IndexInv, BufferInv, Idx, receiver, consumer, shutdown
<1>1. CASE BodyPart BY <1>1 DEF BodyPart
<1>2. CASE BodyDone BY <1>2 DEF BodyDone
<1>3. CASE Publish BY <1>3 DEF Publish, Swap
<1>4. CASE Loop \/ Accept \/ GoodHeader \/ DropConnection \/ CloseConnection
  BY <1>4 DEF Loop, Accept, GoodHeader, DropConnection, CloseConnection
<1>5. CASE Consumer BY <1>5 DEF Consumer, GetFrame, Get, Finish
<1>6. CASE JoinAndFree BY <1>6 DEF JoinAndFree
<1>7. CASE Stop \/ CloseSockets BY <1>7 DEF Stop, CloseSockets
<1>8. CASE UNCHANGED vars BY <1>8 DEF vars
<1> QED
  BY <1>1, <1>2, <1>3, <1>4, <1>5, <1>6, <1>7, <1>8 DEF Next, Receiver, Shutdown

LEMMA NextHeldInv ==
  TypeOK /\ IndexInv /\ BufferInv /\ HeldInv /\ [Next]_vars => HeldInv'
<1> SUFFICES ASSUME TypeOK, IndexInv, BufferInv, HeldInv, [Next]_vars PROVE HeldInv'
  OBVIOUS
<1> USE DEF TypeOK, HeldInv, Idx, receiver, consumer, shutdown
<1>1. CASE Publish BY <1>1 DEF Publish, Swap
<1>2. CASE GetFrame BY <1>2 DEF GetFrame, Get, BufferInv
<1>3. CASE Finish BY <1>3 DEF Finish
<1>4. CASE Loop \/ Accept \/ GoodHeader \/ DropConnection \/ BodyPart \/ BodyDone
           \/ CloseConnection
  BY <1>4 DEF Loop, Accept, GoodHeader, DropConnection, BodyPart, BodyDone, CloseConnection
<1>5. CASE Shutdown BY <1>5 DEF Shutdown, Stop, CloseSockets, JoinAndFree
<1>6. CASE UNCHANGED vars BY <1>6 DEF vars
<1> QED BY <1>1, <1>2, <1>3, <1>4, <1>5, <1>6 DEF Next, Receiver, Consumer

\* The receiver, the consumer and the shutdown preserve the inductive invariant.
THEOREM Inductive == Spec => []IInv
<1>1. IInv /\ [Next]_vars => IInv'
  BY NextTypeOK, NextIndexInv, NextBufferInv, NextHeldInv DEF IInv
<1> QED BY <1>1, InitIInv, PTL DEF Spec

\* Every variable keeps the values the code gives it: in particular both indices
\* stay inside the two-element buffer array.
THEOREM TypeCorrect == Spec => []TypeOK
<1>1. IInv => TypeOK BY DEF IInv
<1> QED BY <1>1, Inductive, PTL

\* get_frame only ever offers the newest frame, complete, with its own length.
THEOREM OnlyWholeFramesOffered == Spec => []PublishedWhole
<1>1. IInv => PublishedWhole BY DEF IInv, BufferInv, PublishedWhole
<1> QED BY <1>1, Inductive, PTL

\* A pointer stays good until a newer frame has been published, or until main, having
\* stopped the receiver, has freed the buffers under it.
THEOREM PointerGoodUntilReplacedOrFreed == Spec => []HeldUntilOverrunOrFreed
<1>1. IInv => HeldUntilOverrunOrFreed
  <2> SUFFICES ASSUME IInv, held # Nothing, buf[held.idx] # Whole(held.frame),
                      ~(published > held.frame)
               PROVE  life = "freed" /\ ~running
    BY DEF HeldUntilOverrunOrFreed
  <2>1. held.frame \in Nat /\ held.idx \in Idx /\ published \in Nat
    BY DEF IInv, TypeOK
  <2>2. held.frame = published /\ held.idx = readIdx
    BY <2>1 DEF IInv, HeldInv
  <2>3. published # 0
    BY <2>2 DEF IInv, HeldInv, BufferInv, TypeOK, Nothing
  <2>4. life = "freed"
    BY <2>1, <2>2, <2>3 DEF IInv, BufferInv
  <2> QED BY <2>4 DEF IInv, IndexInv
<1> QED BY <1>1, Inductive, PTL

\* destroy frees the buffers only when the receiver can no longer write to them.
THEOREM ReceiverOutlivedByBuffers == Spec => []NoWriteAfterFree
<1>1. IInv => NoWriteAfterFree BY DEF IInv, IndexInv, NoWriteAfterFree
<1> QED BY <1>1, Inductive, PTL

\* The slot is a mailbox: a step of the receiver or of the consumer is a delivery,
\* a collection or invisible, so no frame is invented, offered twice or offered
\* out of order.
THEOREM SlotImplementsMailbox == Spec => ImplementsMailbox
<1> DEFINE AbstractStep == [Promise!MailboxNext]_(Promise!mailboxVars)
<1> USE DEF Promise!mailboxVars, Box
<1>1. Init => Promise!MailboxInit
  BY DEF Init, Promise!MailboxInit
<1>2. IInv /\ [Next]_vars => AbstractStep
  <2> SUFFICES ASSUME IInv, [Next]_vars PROVE AbstractStep
    OBVIOUS
  <2> USE DEF IInv, TypeOK, IndexInv, BufferInv, Idx, receiver, consumer, shutdown
  <2>1. CASE Publish
    BY <2>1 DEF Publish, Swap, Promise!MailboxNext, Promise!Deliver
  <2>2. CASE GetFrame
    <3>1. newFrame /\ ~newFrame' /\ taken' = meta[readIdx] /\ UNCHANGED published
      BY <2>2 DEF GetFrame, Get
    <3>2. Box = published /\ published > 0 /\ taken' = Box
      BY <3>1
    <3>3. Box' = 0
      BY <3>1
    <3> QED BY <3>1, <3>2, <3>3 DEF Promise!MailboxNext, Promise!Collect
  <2>3. CASE BodyDone
    <3>1. UNCHANGED <<published, newFrame, readIdx, taken>>
      BY <2>3 DEF BodyDone
    <3>2. meta'[readIdx] = meta[readIdx]
      BY <2>3 DEF BodyDone
    <3> QED BY <3>1, <3>2
  <2>4. CASE Loop \/ Accept \/ GoodHeader \/ DropConnection \/ BodyPart \/ CloseConnection
    <3>1. UNCHANGED <<published, newFrame, meta, readIdx, taken>>
      BY <2>4 DEF Loop, Accept, GoodHeader, DropConnection, BodyPart, CloseConnection
    <3> QED BY <3>1
  <2>5. CASE Finish \/ Shutdown \/ UNCHANGED vars
    <3>1. UNCHANGED <<published, newFrame, meta, readIdx, taken>>
      BY <2>5 DEF Finish, Shutdown, Stop, CloseSockets, JoinAndFree, vars
    <3> QED BY <3>1
  <2> QED
    BY <2>1, <2>2, <2>3, <2>4, <2>5 DEF Next, Receiver, Consumer
<1> QED
  BY <1>1, <1>2, Inductive, PTL DEF Spec, ImplementsMailbox, Promise!MailboxSpec

\* What the slot promises, in one: whole frames, pointers that nothing takes but a newer
\* frame or main's free, and buffers that outlive the receiver.
THEOREM SlotIsSafe == Spec => []SafeUntilFreed
<1>1. PublishedWhole /\ HeldUntilOverrunOrFreed /\ NoWriteAfterFree => SafeUntilFreed
  BY DEF SafeUntilFreed
<1>. QED
  BY <1>1, OnlyWholeFramesOffered, PointerGoodUntilReplacedOrFreed, ReceiverOutlivedByBuffers, PTL
=============================================================================
