-------------------------- MODULE Compositor_proofs --------------------------
(***************************************************************************)
(* The safety of the compositor's worker threads for any set of camera     *)
(* buffers and any number of frames.                                       *)
(*                                                                         *)
(* Everything rests on g_lock (LockInv): a worker is between lock and      *)
(* unlock exactly when it owns the lock, so at most one worker decodes,    *)
(* composites or encodes.  From it follow that a composition sees a new    *)
(* picture and a stable layout, who may own a camera buffer, and how long  *)
(* a worker's pointer into enc_output stays good.                          *)
(***************************************************************************)
EXTENDS Compositor, FiniteSetTheorems, TLAPS

LockInv ==
  /\ \A t \in Workers : pc[t] \in Locked <=> lock = t
  /\ pc["camera"] \notin {"decode", "dequeue"}

\* Each worker has at most one buffer, and only at these steps.
MayHold(t) ==
  {"encode", "copy", "release"} \cup (IF t = "camera" THEN {"want"} ELSE {})

BufferInv ==
  /\ \A b \in Buffers : owner[b] \in Workers => pc[owner[b]] \in MayHold(owner[b])
  /\ \A a, b \in Buffers : owner[a] = owner[b] /\ owner[a] \in Workers => a = b

\* What t may send: its own frame where it was put, unless a later one overtook it.
Good(t) ==
  /\ result[t].frame > 0
  /\ \/ encOut.frame = result[t].frame /\ encOut.whole /\ encOut.block = result[t].block
     \/ encOut.frame > result[t].frame

Sound(t) ==
  /\ pc[t] = "copy" => encOut.frame > 0
  /\ pc[t] = "send" => result[t] # Null
  /\ result[t] # Null => pc[t] \in {"send", "release"} /\ Good(t)

ResultInv ==
  /\ encOut.frame <= pts
  /\ \A t \in Workers : Sound(t)

DownInv == phase \in {"joined", "closed"} => \A t \in Workers : pc[t] = "exited"

IInv ==
  /\ TypeOK /\ LockInv /\ BufferInv /\ ResultInv /\ DownInv
  /\ ComposesOnce /\ LayoutStable

-----------------------------------------------------------------------------
LEMMA InitIInv == Init => IInv
<1> SUFFICES ASSUME Init PROVE IInv
  OBVIOUS
<1> USE DEF Init, Workers, Phone
<1>1. TypeOK
  <2>1. 0 \in 0 .. MaxPts
    BY MaxPtsAssumption
  <2>2. encOut \in [frame: 0 .. MaxPts, whole: BOOLEAN, block: 0 .. MaxPts]
        /\ pts \in 0 .. MaxPts
    BY <2>1
  <2>3. result \in [Workers -> Pointers]
    BY <2>1 DEF Pointers, Null
  <2>4. pc \in [Workers -> Steps] /\ owner \in [Buffers -> Workers \cup {"driver", "lost"}]
    BY DEF Steps
  <2>5. waiting \in [Decoders -> [Phone -> 0 .. Delay + 1]] /\ dec \in Pictures
    BY DelayAssumption DEF Pictures, NoPicture
  <2> QED BY <2>2, <2>3, <2>4, <2>5 DEF TypeOK, Layouts, Sources
<1>2. LockInv BY DEF LockInv, Locked
<1>3. BufferInv BY DEF BufferInv
<1>4. ResultInv BY DEF ResultInv, Sound, Null
<1>5. DownInv BY DEF DownInv
<1>6. ComposesOnce /\ LayoutStable BY DEF ComposesOnce, LayoutStable
<1> QED BY <1>1, <1>2, <1>3, <1>4, <1>5, <1>6 DEF IInv

\* What a decoder may hold and bring out.
LEMMA DecodeTypeOK ==
  ASSUME TypeOK, NEW t \in Workers, Decode(t)
  PROVE  waiting' \in [Decoders -> [Phone -> 0 .. Delay + 1]] /\ dec' \in Pictures
<1> USE DelayAssumption DEF TypeOK, decoder
<1>1. CASE UNCHANGED decoder BY <1>1
<1>2. ASSUME NEW d \in Decoders, NEW now \in Fed(d, t), NEW p \in Phone, t \in Phone,
             now[p] > 0, now["aa"] + now["carplay"] <= Delay + 1,
             waiting' = [waiting EXCEPT ![d] = [now EXCEPT ![p] = @ - 1]],
             dec' = [from |-> p, fresh |-> TRUE]
      PROVE  waiting' \in [Decoders -> [Phone -> 0 .. Delay + 1]] /\ dec' \in Pictures
  <2>1. now \in [Phone -> Nat] BY <1>2 DEF Fed, Phone
  <2>2. [now EXCEPT ![p] = @ - 1] \in [Phone -> 0 .. Delay + 1]
    BY <1>2, <2>1 DEF Phone
  <2> QED BY <1>2, <2>2 DEF Pictures
<1>3. ASSUME NEW d \in Decoders, NEW now \in Fed(d, t), t \in Phone,
             now["aa"] + now["carplay"] <= Delay,
             waiting' = [waiting EXCEPT ![d] = now], dec' = NoPicture
      PROVE  waiting' \in [Decoders -> [Phone -> 0 .. Delay + 1]] /\ dec' \in Pictures
  <2>1. now \in [Phone -> Nat] BY <1>3 DEF Fed, Phone
  <2>2. now \in [Phone -> 0 .. Delay + 1]
    BY <1>3, <2>1 DEF Phone
  <2> QED BY <1>3, <2>2 DEF Pictures, NoPicture
<1> QED BY <1>1, <1>2, <1>3 DEF Decode, DecodeOr

LEMMA NextTypeOK == TypeOK /\ ResultInv /\ [Next]_vars => TypeOK'
<1> SUFFICES ASSUME TypeOK, ResultInv, [Next]_vars PROVE TypeOK'
  OBVIOUS
<1> USE MaxPtsAssumption
        DEF TypeOK, Steps, Goto, HeldBy, mainVars, display, pipeline, decoder, encoder,
            Pointers, Null, Workers, Phone
<1>1. ASSUME NEW s \in Phone, Arrive(s) PROVE TypeOK'
  BY <1>1 DEF Arrive
<1>2. CASE AaIdle BY <1>2 DEF AaIdle
<1>3. CASE AaFrame BY <1>3 DEF AaFrame
<1>4. CASE CarplayFrame BY <1>4 DEF CarplayFrame
<1>5. CASE CameraTurn BY <1>5 DEF CameraTurn
<1>6. CASE CameraGrab BY <1>6 DEF CameraGrab
<1>7. ASSUME NEW t \in Workers, Worker(t) PROVE TypeOK'
  <2>1. CASE Acquire(t) BY <2>1 DEF Acquire
  <2>2. CASE Decode(t)
    <3>1. waiting' \in [Decoders -> [Phone -> 0 .. Delay + 1]] /\ dec' \in Pictures
      BY <2>2, DecodeTypeOK
    <3>2. pc' \in [Workers -> Steps] /\ result' \in [Workers -> Pointers]
      BY <2>2 DEF Decode, DecodeOr
    <3> QED BY <2>2, <3>1, <3>2 DEF Decode, DecodeOr
  <2>3. CASE Dequeue(t) BY <2>3 DEF Dequeue
  <2>4. CASE Encode(t)
    <3>1. pts + 1 \in 0 .. MaxPts /\ pts' = pts + 1
      BY <2>4 DEF Encode, EncodeOr
    <3>2. pc' \in [Workers -> Steps] /\ result' \in [Workers -> Pointers]
      BY <2>4 DEF Encode, EncodeOr
    <3>3. encOut' \in [frame: 0 .. MaxPts, whole: BOOLEAN, block: 0 .. MaxPts]
      <4>1. \A b \in {encOut.block, pts + 1} :
              [frame |-> pts + 1, whole |-> FALSE, block |-> b]
                \in [frame: 0 .. MaxPts, whole: BOOLEAN, block: 0 .. MaxPts]
        BY <3>1
      <4>2. \/ UNCHANGED encOut
            \/ \E b \in {encOut.block, pts + 1} :
                 encOut' = [frame |-> pts + 1, whole |-> FALSE, block |-> b]
        BY <2>4 DEF Encode, EncodeOr
      <4> QED BY <4>1, <4>2
    <3>4. dec' \in Pictures
      BY <2>4 DEF Encode, EncodeOr, Pictures
    <3> QED BY <2>4, <3>1, <3>2, <3>3, <3>4 DEF Encode, EncodeOr
  <2>5. CASE Copy(t) BY <2>5 DEF Copy
  <2>6. CASE Release(t) BY <2>6 DEF Release, Leave
  <2>7. CASE Send(t) BY <2>7 DEF Send
  <2>8. CASE Exit(t) BY <2>8 DEF Exit
  <2> QED BY <1>7, <2>1, <2>2, <2>3, <2>4, <2>5, <2>6, <2>7, <2>8 DEF Worker
<1>8. CASE ModeCommand
  BY <1>8 DEF ModeCommand, ModeArguments, Cycle, Set, Layouts, Sources
<1>9. CASE Signal BY <1>9 DEF Signal
<1>10. CASE TearDown BY <1>10 DEF TearDown, Shutdown
<1>11. CASE UNCHANGED vars BY <1>11 DEF vars
<1> QED
  BY <1>1, <1>2, <1>3, <1>4, <1>5, <1>6, <1>7, <1>8, <1>9, <1>10, <1>11 DEF Next

LEMMA NextLockInv == TypeOK /\ LockInv /\ [Next]_vars => LockInv'
<1> SUFFICES ASSUME TypeOK, LockInv, [Next]_vars PROVE LockInv'
  OBVIOUS
<1> USE DEF TypeOK, LockInv, Locked, Goto, mainVars, display, pipeline, decoder, encoder,
            Workers, Phone
<1>1. ASSUME NEW t \in Workers, Worker(t) PROVE LockInv'
  <2>1. CASE Acquire(t) BY <2>1 DEF Acquire
  <2>2. CASE Decode(t) BY <2>2 DEF Decode, DecodeOr
  <2>3. CASE Dequeue(t) \/ Encode(t) \/ Copy(t)
    BY <2>3 DEF Dequeue, Encode, EncodeOr, Copy
  <2>4. CASE Release(t) BY <2>4 DEF Release, Leave
  <2>5. CASE Send(t) \/ Exit(t) BY <2>5 DEF Send, Exit
  <2> QED BY <1>1, <2>1, <2>2, <2>3, <2>4, <2>5 DEF Worker
<1>2. CASE AaFrame \/ CarplayFrame \/ CameraTurn \/ CameraGrab
  BY <1>2 DEF AaFrame, CarplayFrame, CameraTurn, CameraGrab
<1>3. CASE UNCHANGED <<pc, lock>>
  BY <1>3
<1>4. (\E s \in Phone : Arrive(s)) \/ AaIdle \/ ModeCommand \/ Signal \/ TearDown
      \/ UNCHANGED vars => UNCHANGED <<pc, lock>>
  BY DEF Arrive, AaIdle, ModeCommand, Set, Signal, TearDown, Shutdown, vars
<1> QED BY <1>1, <1>2, <1>3, <1>4 DEF Next

LEMMA NextBufferInv == TypeOK /\ LockInv /\ BufferInv /\ [Next]_vars => BufferInv'
<1> SUFFICES ASSUME TypeOK, LockInv, BufferInv, [Next]_vars PROVE BufferInv'
  OBVIOUS
<1> USE DEF TypeOK, BufferInv, MayHold, HeldBy, Goto, mainVars, display, pipeline,
            decoder, encoder, Workers, Phone
<1>1. ASSUME NEW t \in Workers, Worker(t) PROVE BufferInv'
  <2>1. CASE Acquire(t) BY <2>1 DEF Acquire
  <2>2. CASE Decode(t) BY <2>2 DEF Decode, DecodeOr
  <2>3. CASE Dequeue(t)
    <3>1. t \in Phone BY <2>3 DEF Dequeue, LockInv
    <3> QED BY <2>3, <3>1 DEF Dequeue
  <2>4. CASE Encode(t) \/ Copy(t) BY <2>4 DEF Encode, EncodeOr, Copy
  <2>5. CASE Release(t) BY <2>5 DEF Release, Leave
  <2>6. CASE Send(t) \/ Exit(t) BY <2>6 DEF Send, Exit
  <2> QED BY <1>1, <2>1, <2>2, <2>3, <2>4, <2>5, <2>6 DEF Worker
<1>2. CASE CameraGrab BY <1>2 DEF CameraGrab
<1>3. CASE AaFrame \/ CarplayFrame \/ CameraTurn
  BY <1>3 DEF AaFrame, CarplayFrame, CameraTurn
<1>4. CASE UNCHANGED <<pc, owner>>
  BY <1>4
<1>5. (\E s \in Phone : Arrive(s)) \/ AaIdle \/ ModeCommand \/ Signal \/ TearDown
      \/ UNCHANGED vars => UNCHANGED <<pc, owner>>
  BY DEF Arrive, AaIdle, ModeCommand, Set, Signal, TearDown, Shutdown, vars
<1> QED BY <1>1, <1>2, <1>3, <1>4, <1>5 DEF Next

LEMMA NextResultInv == TypeOK /\ LockInv /\ ResultInv /\ [Next]_vars => ResultInv'
<1> SUFFICES ASSUME TypeOK, LockInv, ResultInv, [Next]_vars PROVE ResultInv'
  OBVIOUS
<1>1. pts \in Nat /\ encOut.frame \in Nat /\ \A u \in Workers : result[u].frame \in Nat
  BY MaxPtsAssumption DEF TypeOK, Pointers
<1> USE DEF ResultInv, Goto
<1>2. ASSUME UNCHANGED encoder,
             \A u \in Workers : \/ UNCHANGED <<pc[u], result[u]>>
                                \/ pc'[u] \notin {"copy", "send"} /\ result'[u] = Null
                                \/ pc[u] = "release" /\ pc'[u] = "send" /\ result[u] # Null
                                   /\ UNCHANGED result[u]
      PROVE  ResultInv'
  <2>1. ASSUME NEW u \in Workers PROVE Sound(u)'
    <3>1. Sound(u) OBVIOUS
    <3>2. CASE UNCHANGED <<pc[u], result[u]>>
      BY <1>2, <3>1, <3>2 DEF Sound, Good, encoder
    <3>3. CASE pc'[u] \notin {"copy", "send"} /\ result'[u] = Null
      BY <3>3 DEF Sound
    <3>4. CASE pc[u] = "release" /\ pc'[u] = "send" /\ result[u] # Null
               /\ UNCHANGED result[u]
      BY <1>2, <3>1, <3>4 DEF Sound, Good, encoder
    <3> QED BY <1>2, <3>2, <3>3, <3>4
  <2> QED BY <1>2, <2>1 DEF encoder
<1>3. ASSUME NEW t \in Workers, Worker(t) PROVE ResultInv'
  <2>1. CASE Acquire(t) \/ Dequeue(t) \/ Exit(t) \/ Decode(t) \/ Release(t) \/ Send(t)
    <3>1. pc \in [Workers -> Steps] /\ result \in [Workers -> Pointers]
      BY DEF TypeOK
    <3>2. Sound(t) OBVIOUS
    <3>3. CASE Acquire(t) \/ Exit(t)
      BY <1>2, <3>1, <3>2, <3>3 DEF Acquire, Exit, Sound, pipeline
    <3>4. CASE Dequeue(t)
      BY <1>2, <3>1, <3>2, <3>4 DEF Dequeue, Sound, pipeline
    <3>5. CASE Decode(t)
      BY <1>2, <3>1, <3>2, <3>5 DEF Decode, DecodeOr, Sound
    <3>6. CASE Release(t)
      BY <1>2, <3>1, <3>2, <3>6 DEF Release, Leave, Sound, pipeline
    <3>7. CASE Send(t)
      BY <1>2, <3>1, <3>2, <3>7 DEF Send, Sound, pipeline
    <3> QED BY <2>1, <3>3, <3>4, <3>5, <3>6, <3>7
  <2>2. CASE Encode(t) /\ pc'[t] = "copy"
    <3>1. encOut'.frame = pts + 1 /\ pts' = pts + 1 /\ UNCHANGED result
      BY <2>2 DEF TypeOK, Encode, EncodeOr
    <3>2. ASSUME NEW u \in Workers PROVE Sound(u)'
      <4>1. Sound(u) /\ result'[u] = result[u] /\ result[u].frame \in Nat
        BY <1>1, <3>1
      <4>2. pc'[u] = IF u = t THEN "copy" ELSE pc[u]
        BY <2>2 DEF Encode, EncodeOr, TypeOK
      <4>3. pc[u] = "release" => u = t
        BY <2>2 DEF LockInv, Locked, Encode, EncodeOr
      <4>4. pc[t] = "encode"
        BY <2>2 DEF Encode, EncodeOr
      <4>5. result[u] # Null => result[u].frame > 0 /\ encOut'.frame > result[u].frame
        <5>1. result[u] # Null => encOut.frame >= result[u].frame /\ result[u].frame > 0
          BY <1>1, <4>1 DEF Sound, Good
        <5> QED BY <1>1, <3>1, <5>1
      <4> QED BY <1>1, <3>1, <4>1, <4>2, <4>3, <4>4, <4>5 DEF Sound, Good
    <3> QED BY <1>1, <3>1, <3>2
  <2>3. CASE Encode(t) /\ pc'[t] # "copy"
    <3>1. /\ UNCHANGED encOut /\ pts' = pts + 1
          /\ pc' = [pc EXCEPT ![t] = "release"] /\ result' = [result EXCEPT ![t] = Null]
      BY <2>3 DEF TypeOK, Encode, EncodeOr
    <3>2. ASSUME NEW u \in Workers PROVE Sound(u)'
      <4>1. CASE u = t
        BY <3>1, <4>1 DEF Sound, TypeOK
      <4>2. CASE u # t
        <5>1. Sound(u) /\ UNCHANGED <<pc[u], result[u]>>
          BY <3>1, <4>2 DEF TypeOK
        <5> QED BY <3>1, <5>1 DEF Sound, Good
      <4> QED BY <4>1, <4>2
    <3> QED BY <1>1, <3>1, <3>2
  <2>4. CASE Copy(t)
    <3>1. /\ encOut' = [encOut EXCEPT !.whole = TRUE] /\ UNCHANGED pts /\ pc[t] = "copy"
          /\ pc' = [pc EXCEPT ![t] = "release"]
          /\ result' = [result EXCEPT
                          ![t] = [frame |-> encOut.frame, block |-> encOut.block]]
      BY <2>4 DEF Copy
    <3>2. encOut'.frame = encOut.frame /\ encOut'.whole /\ encOut'.block = encOut.block
      BY <3>1 DEF TypeOK
    <3>3. ASSUME NEW u \in Workers PROVE Sound(u)'
      <4>1. CASE u = t
        <5>1. pc'[u] = "release" /\ encOut.frame > 0
              /\ result'[u].frame = encOut.frame /\ result'[u].block = encOut.block
          BY <3>1, <4>1 DEF Sound, TypeOK
        <5> QED BY <3>2, <5>1 DEF Sound, Good
      <4>2. CASE u # t
        <5>1. Sound(u) /\ UNCHANGED <<pc[u], result[u]>>
          BY <3>1, <4>2 DEF TypeOK
        <5> QED BY <3>2, <5>1 DEF Sound, Good
      <4> QED BY <4>1, <4>2
    <3> QED BY <3>1, <3>2, <3>3
  <2> QED BY <1>3, <2>1, <2>2, <2>3, <2>4 DEF Worker
<1>4. CASE AaFrame \/ CarplayFrame \/ CameraTurn \/ CameraGrab
  <2>1. pc \in [Workers -> Steps] /\ \A u \in Workers : Sound(u)
    BY DEF TypeOK
  <2> QED BY <1>2, <1>4, <2>1 DEF AaFrame, CarplayFrame, CameraTurn, CameraGrab, Sound,
                              pipeline, Workers, Phone
<1>5. CASE UNCHANGED <<pc, encoder, result>>
  BY <1>2, <1>5
<1>6. (\E s \in Phone : Arrive(s)) \/ AaIdle \/ ModeCommand \/ Signal \/ TearDown
      \/ UNCHANGED vars => UNCHANGED <<pc, encoder, result>>
  BY DEF Arrive, AaIdle, ModeCommand, Set, Signal, TearDown, Shutdown, vars,
     pipeline, encoder
<1> QED BY <1>3, <1>4, <1>5, <1>6 DEF Next

LEMMA NextDownInv == TypeOK /\ DownInv /\ [Next]_vars => DownInv'
<1> SUFFICES ASSUME TypeOK, DownInv, [Next]_vars PROVE DownInv'
  OBVIOUS
<1> USE DEF TypeOK, DownInv, Goto, mainVars, Workers, Phone
<1>1. CASE TearDown BY <1>1 DEF TearDown, Shutdown, JoinWorkers
<1>2. ASSUME NEW t \in Workers, Worker(t) PROVE DownInv'
  <2>1. pc[t] # "exited" /\ UNCHANGED phase
    BY <1>2 DEF Worker, Acquire, Decode, DecodeOr, Dequeue, Encode, EncodeOr, Copy,
                   Release, Leave, Send, Exit
  <2> QED BY <2>1
<1>3. CASE AaFrame \/ CarplayFrame \/ CameraTurn \/ CameraGrab
  BY <1>3 DEF AaFrame, CarplayFrame, CameraTurn, CameraGrab
<1>4. CASE UNCHANGED <<pc, phase>>
  BY <1>4
<1>5. (\E s \in Phone : Arrive(s)) \/ AaIdle \/ ModeCommand \/ Signal
      \/ UNCHANGED vars => UNCHANGED <<pc, phase>>
  BY DEF Arrive, AaIdle, ModeCommand, Set, Signal, vars
<1> QED BY <1>1, <1>2, <1>3, <1>4, <1>5 DEF Next

LEMMA NextComposes ==
  TypeOK /\ LockInv /\ ComposesOnce /\ [Next]_vars => ComposesOnce'
<1> SUFFICES ASSUME TypeOK, LockInv, ComposesOnce, [Next]_vars
             PROVE ComposesOnce'
  OBVIOUS
<1> USE DEF TypeOK, LockInv, Locked, ComposesOnce, Goto, mainVars, display,
            pipeline, decoder, encoder, Pictures, Workers, Phone
<1>1. ASSUME NEW t \in Workers, Worker(t) PROVE ComposesOnce'
  <2>1. CASE Decode(t) BY <2>1 DEF Decode, DecodeOr
  <2>2. CASE Acquire(t) \/ Dequeue(t) \/ Encode(t) \/ Copy(t)
    BY <2>2 DEF Acquire, Dequeue, Encode, EncodeOr, Copy
  <2>3. CASE Release(t) \/ Send(t) \/ Exit(t)
    BY <2>3 DEF Release, Leave, Send, Exit
  <2> QED BY <1>1, <2>1, <2>2, <2>3 DEF Worker
<1>2. CASE AaFrame \/ CarplayFrame \/ CameraTurn \/ CameraGrab
  BY <1>2 DEF AaFrame, CarplayFrame, CameraTurn, CameraGrab
<1>3. CASE UNCHANGED <<pc, dec>>
  BY <1>3
<1>4. (\E s \in Phone : Arrive(s)) \/ AaIdle \/ ModeCommand \/ Signal \/ TearDown
      \/ UNCHANGED vars => UNCHANGED <<pc, dec>>
  BY DEF Arrive, AaIdle, ModeCommand, Set, Signal, TearDown, Shutdown, vars
<1> QED BY <1>1, <1>2, <1>3, <1>4 DEF Next

LEMMA NextLayout ==
  TypeOK /\ LockInv /\ BufferInv /\ LayoutStable /\ [Next]_vars => LayoutStable'
<1> SUFFICES ASSUME TypeOK, LockInv, BufferInv, LayoutStable, [Next]_vars
             PROVE LayoutStable'
  OBVIOUS
<1> USE DEF TypeOK, LayoutStable, HeldBy, Goto, mainVars, display, pipeline, decoder,
            encoder, Workers, Phone
<1>1. CASE ModeCommand
  <2>1. UNCHANGED <<pc, owner>> /\ lock = "free"
    BY <1>1 DEF ModeCommand, Set
  <2>2. \A t \in Phone : pc'[t] # "encode"
    BY <2>1 DEF LockInv, Locked
  <2> QED BY <2>2
<1>2. ASSUME NEW t \in Workers, Worker(t) PROVE LayoutStable'
  <2>1. CASE Dequeue(t)
    <3>1. \A b \in Buffers : owner[b] # t
      BY <2>1 DEF Dequeue, BufferInv, MayHold
    <3> QED BY <2>1, <3>1 DEF Dequeue
  <2>2. CASE Acquire(t) BY <2>2 DEF Acquire
  <2>3. CASE Decode(t) \/ Encode(t) \/ Copy(t)
    BY <2>3 DEF Decode, DecodeOr, Encode, EncodeOr, Copy
  <2>4. CASE Release(t) BY <2>4 DEF Release, Leave
  <2>5. CASE Send(t) \/ Exit(t) BY <2>5 DEF Send, Exit
  <2> QED BY <1>2, <2>1, <2>2, <2>3, <2>4, <2>5 DEF Worker
<1>3. CASE AaFrame \/ CarplayFrame \/ CameraTurn \/ CameraGrab
  BY <1>3 DEF AaFrame, CarplayFrame, CameraTurn, CameraGrab
<1>4. CASE UNCHANGED <<pc, owner, layout>>
  BY <1>4
<1>5. (\E s \in Phone : Arrive(s)) \/ AaIdle \/ Signal \/ TearDown
      \/ UNCHANGED vars => UNCHANGED <<pc, owner, layout>>
  BY DEF Arrive, AaIdle, Signal, TearDown, Shutdown, vars
<1> QED BY <1>1, <1>2, <1>3, <1>4, <1>5 DEF Next

\* Every step of a worker, of the control thread and of main preserves the
\* inductive invariant.
THEOREM Inductive == Spec => []IInv
<1>1. IInv /\ [Next]_vars => IInv'
  BY NextTypeOK, NextLockInv, NextBufferInv, NextResultInv, NextDownInv, NextComposes,
     NextLayout DEF IInv
<1> QED BY <1>1, InitIInv, PTL DEF Spec

-----------------------------------------------------------------------------
\* Every variable keeps the values the code gives it.
THEOREM TypeCorrect == Spec => []TypeOK
<1>1. IInv => TypeOK BY DEF IInv
<1> QED BY <1>1, Inductive, PTL

\* Two workers are never both between lock and unlock in process_video_frame and
\* pipeline_encode_camera_only.
THEOREM MutualExclusion ==
  Spec => [](\A t, u \in Workers : pc[t] \in Locked /\ pc[u] \in Locked => t = u)
<1>1. IInv => \A t, u \in Workers : pc[t] \in Locked /\ pc[u] \in Locked => t = u
  BY DEF IInv, LockInv
<1> QED BY <1>1, Inductive, PTL

\* pipeline_composite never shows a picture again that either phone's thread has
\* already composited, nor what a rejected packet left in dec_frame.
THEOREM OncePerPicture == Spec => []ComposesOnce
<1>1. IInv => ComposesOnce BY DEF IInv
<1> QED BY <1>1, Inductive, PTL

\* A MODE command never comes between the decision to take a camera image and the
\* composition that uses it.
THEOREM LayoutAgrees == Spec => []LayoutStable
<1>1. IInv => LayoutStable BY DEF IInv
<1> QED BY <1>1, Inductive, PTL

\* What process_video_frame's comment promises: until a later encode has reached
\* enc_output, the pointer a worker sends through after the unlock gives its own frame.
THEOREM PointerLastsOneEncode == Spec => []ValidUntilNextEncode
<1>1. IInv => ValidUntilNextEncode
  <2> SUFFICES ASSUME IInv, NEW t \in Workers, pc[t] = "send"
               PROVE  \/ encOut = [frame |-> result[t].frame, whole |-> TRUE,
                                   block |-> result[t].block]
                      \/ encOut.frame > result[t].frame /\ pts > result[t].frame
    BY DEF ValidUntilNextEncode
  <2>1. Good(t)
    BY DEF IInv, ResultInv, Sound
  <2>2. CASE encOut.frame > result[t].frame
    BY <2>2 DEF IInv, TypeOK, ResultInv, Pointers
  <2>3. CASE /\ encOut.frame = result[t].frame /\ encOut.whole
             /\ encOut.block = result[t].block
    BY <2>3 DEF IInv, TypeOK
  <2> QED BY <2>1, <2>2, <2>3 DEF Good
<1> QED BY <1>1, Inductive, PTL

\* Pipeline and camera are destroyed only after the last worker is done with them.
THEOREM WorkersGoneFirst == Spec => []TeardownAfterWorkers
<1>1. IInv => TeardownAfterWorkers
  <2> SUFFICES ASSUME IInv, phase \in {"joined", "closed"}
               PROVE /\ lock = "free" /\ \A t \in Workers : pc[t] = "exited"
                     /\ HeldBy("driver") \cup HeldBy("lost") = Buffers
    BY DEF TeardownAfterWorkers
  <2>1. \A t \in Workers : pc[t] = "exited"
    BY DEF IInv, DownInv
  <2>2. lock = "free"
    BY <2>1 DEF IInv, TypeOK, LockInv, Locked
  <2>3. \A b \in Buffers : owner[b] \in {"driver", "lost"}
    BY <2>1 DEF IInv, TypeOK, BufferInv, MayHold
  <2> QED BY <2>1, <2>2, <2>3 DEF HeldBy
<1> QED BY <1>1, Inductive, PTL

\* A worker holds at most one camera buffer, none while it idles or sends, and two at
\* most are being worked on: the others are the driver's, or the driver refused them.
THEOREM BuffersConserved == Spec => []CameraConserved
<1>1. IInv => CameraConserved
  <2> SUFFICES ASSUME IInv PROVE CameraConserved
    OBVIOUS
  <2> USE DEF IInv, BufferInv
  <2>1. ASSUME NEW t \in Workers PROVE IsFiniteSet(HeldBy(t)) /\ Cardinality(HeldBy(t)) <= 1
    <3>1. CASE HeldBy(t) = {}
      BY <3>1, FS_EmptySet
    <3>2. CASE HeldBy(t) # {}
      <4>1. PICK b \in Buffers : b \in HeldBy(t)
        BY <3>2 DEF HeldBy
      <4>2. HeldBy(t) = {b}
        BY <2>1, <4>1 DEF HeldBy
      <4>3. IsFiniteSet({b}) /\ Cardinality({b}) = 1
        BY FS_Singleton
      <4> QED BY <4>2, <4>3
    <3> QED BY <3>1, <3>2
  <2>2. \A t \in Workers : Cardinality(HeldBy(t)) <= 1
    BY <2>1 DEF Workers, Phone
  <2>3. \A t \in Workers : pc[t] \in {"idle", "send", "exited"} => HeldBy(t) = {}
    BY DEF HeldBy, MayHold, Workers, Phone
  <2>4. Cardinality(Buffers \ (HeldBy("driver") \cup HeldBy("lost"))) <= 2
    <3> DEFINE l == IF lock = "free" THEN "camera" ELSE lock
    <3>1. l \in Workers /\ "camera" \in Workers
      BY DEF TypeOK, Workers, Phone
    <3>2. Buffers \ (HeldBy("driver") \cup HeldBy("lost"))
            = HeldBy("camera") \cup HeldBy(l)
      <4>1. ASSUME NEW b \in Buffers, owner[b] \notin {"driver", "lost"}
            PROVE owner[b] = "camera" \/ owner[b] = l
        BY <4>1 DEF TypeOK, LockInv, Locked, MayHold, Workers, Phone
      <4>2. \A t \in Workers : t \notin {"driver", "lost"}
        BY DEF Workers, Phone
      <4> HIDE DEF l
      <4> QED BY <3>1, <4>1, <4>2 DEF HeldBy
    <3> HIDE DEF l
    <3>3. /\ IsFiniteSet(HeldBy("camera")) /\ Cardinality(HeldBy("camera")) <= 1
          /\ IsFiniteSet(HeldBy(l)) /\ Cardinality(HeldBy(l)) <= 1
      BY <2>1, <3>1
    <3>4. /\ IsFiniteSet(HeldBy("camera") \cap HeldBy(l))
          /\ Cardinality(HeldBy("camera") \cup HeldBy(l))
               = Cardinality(HeldBy("camera")) + Cardinality(HeldBy(l))
                 - Cardinality(HeldBy("camera") \cap HeldBy(l))
      BY <3>3, FS_Union, FS_Intersection
    <3>5. /\ Cardinality(HeldBy("camera")) \in Nat /\ Cardinality(HeldBy(l)) \in Nat
          /\ Cardinality(HeldBy("camera") \cap HeldBy(l)) \in Nat
      BY <3>3, <3>4, FS_CardinalityType
    <3>6. Cardinality(HeldBy("camera") \cup HeldBy(l)) <= 2
      <4> DEFINE c == Cardinality(HeldBy("camera"))
                 k == Cardinality(HeldBy(l))
                 m == Cardinality(HeldBy("camera") \cap HeldBy(l))
      <4> HIDE DEF c, k, m
      <4>1. c \in 0 .. 1 /\ k \in 0 .. 1 /\ m \in Nat
        BY <3>3, <3>5 DEF c, k, m
      <4>2. c + k - m <= 2
        BY <4>1
      <4> QED BY <3>4, <4>2 DEF c, k, m
    <3> QED BY <3>2, <3>6
  <2> QED BY <2>2, <2>3, <2>4 DEF CameraConserved
<1> QED BY <1>1, Inductive, PTL

\* A composition has a picture not shown before, and a camera image only under a
\* layout with one.
THEOREM CompositionFits == Spec => []PictureFits
<1>1. ComposesOnce /\ LayoutStable => PictureFits
  BY DEF PictureFits
<1>. QED BY <1>1, OncePerPicture, LayoutAgrees, PTL

\* Camera buffers come back on every path, and pipeline and camera go last.
THEOREM BuffersAreSafe == Spec => []BuffersSafe
<1>1. CameraConserved /\ TeardownAfterWorkers => BuffersSafe
  BY DEF BuffersSafe
<1>. QED BY <1>1, BuffersConserved, WorkersGoneFirst, PTL
=============================================================================
