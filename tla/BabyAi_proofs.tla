---------------------------- MODULE BabyAi_proofs ----------------------------
(* Proofs about the baby detector, for any number of workers, images and    *)
(* commands: what it reads is one image, motion goes forward in time, the   *)
(* buffers are freed last, and at most one result is late.                  *)
EXTENDS BabyAi, TLAPS

\* The type invariant in three parts: the switches, the buffer, the thread.
LifeType ==
  /\ life \in {"up", "stopping", "joining", "freed", "crashed"}
  /\ began \in {"thread", "no thread", "no buffers"}
  /\ loaded \in BOOLEAN /\ running \in BOOLEAN /\ enabled \in BOOLEAN
  /\ control \in {"idle", "reset"} /\ switches \in Nat /\ late \in Nat

FeedType ==
  /\ feeder \in [Workers -> {"idle", "lock", "copy"}] /\ fed \in Nat
  /\ lock \in Workers \cup {"ai", None} /\ buf \in Image \X Image /\ ready \in BOOLEAN

ThreadType ==
  /\ ai \in [at : {"test", "poll", "convert", "motion", "run", "publish", "done"},
             y : Image \X Image, nchw : Image \X Image, motion : Image \X Image]
  /\ prev \in Image /\ npu \in [out : Image, ok : BOOLEAN]
  /\ status \in [state : {"unknown", "absent", "present"}, motion : Image \X Image, image : Image]

\* frame_lock has the holder that its users think it has.
LockInv ==
  /\ \A w \in Workers : feeder[w] = "copy" <=> lock = w
  /\ ai.at = "convert" <=> lock = "ai"

\* Outside a copy the two halves are of one image; what the thread takes is
\* what lies there.
BufferInv ==
  /\ lock \notin Workers => buf[1] = buf[2]
  /\ ready \/ lock \in Workers => buf[1] \in Nat
  /\ ai.at = "convert" => ready /\ ai.y \in {buf, NoImage}

\* No image known is newer than the last one fed, and the one that waits is
\* newer than those taken before.
OrderInv ==
  /\ \A image \in {buf[1], ai.nchw[1], prev} \ {None} : image <= fed
  /\ (ready \/ lock \in Workers) /\ prev # None => prev < buf[1]
  /\ (ready \/ lock \in Workers) /\ ai.at = "motion" => ai.nchw[1] < buf[1]
  /\ ai.at = "motion" /\ prev # None => prev < ai.nchw[1]

\* Who is gone stays away.
LifeInv ==
  /\ life \in {"joining", "freed"} => control = "idle" /\ \A w \in Workers : feeder[w] = "idle"
  /\ life = "freed" => ai.at = "done"

\* A result that is still to come is not yet counted.
LateInv ==
  ~enabled => IF ai.at \in {"test", "done"} THEN late <= 1 ELSE late = 0

Types == LifeType /\ FeedType /\ ThreadType
IInv == /\ Types /\ LockInv /\ BufferInv /\ OrderInv
        /\ OneImage /\ MotionForward /\ LifeInv /\ LateInv

-----------------------------------------------------------------------------
LEMMA TypeParts == TypeOK <=> Types
BY DEF TypeOK, Types, LifeType, FeedType, ThreadType

LEMMA ZeroOne == 0 <= 1
OBVIOUS

LEMMA InitIInv == Init => IInv
<1> SUFFICES ASSUME Init PROVE IInv
  OBVIOUS
<1> USE BoundAssumption DEF Init, Halves, NoImage, Image, setup, feeding, thread, switch
<1>1. LifeType BY DEF LifeType
<1>2. FeedType BY DEF FeedType
<1>3. ThreadType BY DEF ThreadType
<1>4. LockInv BY DEF LockInv
<1>5. BufferInv BY DEF BufferInv
<1>6. OrderInv BY DEF OrderInv
<1>7. OneImage /\ MotionForward BY DEF OneImage, MotionForward
<1>8. LifeInv BY DEF LifeInv
<1>9. LateInv
  <2>1. late = 0 BY Zenon
  <2>2. late <= 1 BY ONLY <2>1
  <2> QED BY <2>1, <2>2, Zenon DEF LateInv
<1> QED BY <1>1, <1>2, <1>3, <1>4, <1>5, <1>6, <1>7, <1>8, <1>9 DEF IInv, Types

LEMMA NextLifeType == LifeType /\ [Next]_vars => LifeType'
<1> SUFFICES ASSUME LifeType, [Next]_vars PROVE LifeType'
  OBVIOUS
<1> USE BoundAssumption DEF LifeType, setup, feeding, thread, switch
<1>1. ASSUME NEW w \in Workers, Feed(w) PROVE LifeType'
  BY <1>1 DEF Feed
<1>2. ASSUME NEW w \in Workers, FeedLock(w) PROVE LifeType'
  BY <1>2 DEF FeedLock
<1>3. ASSUME NEW w \in Workers, FeedDone(w) PROVE LifeType'
  BY <1>3 DEF FeedDone, Halves
<1>4. ASSUME NEW w \in Workers, FeedCrashes(w) PROVE LifeType'
  BY <1>4 DEF FeedCrashes
<1>5. CASE Test BY <1>5 DEF Test
<1>6. CASE TakeY BY <1>6 DEF TakeY, NoImage, Halves
<1>7. CASE Convert BY <1>7 DEF Convert
<1>8. CASE Motion BY <1>8 DEF Motion, NoImage, Halves
<1>9. CASE Run BY <1>9 DEF Run, Outputs
<1>10. CASE Publish
  <2>1. late' \in {late, late + 1} /\ late \in Nat
    BY <1>10, Zenon DEF Publish
  <2>2. late' \in Nat
    BY ONLY <2>1
  <2>3. UNCHANGED <<life, began, loaded, running, enabled, control, switches>>
    BY <1>10 DEF Publish
  <2> QED BY <2>2, <2>3
<1>11. ASSUME NEW on \in BOOLEAN, SetEnabled(on) PROVE LifeType'
  <2>1. late' \in {late, 0} /\ late \in Nat /\ switches' = switches + 1 /\ switches \in Nat
    BY <1>11, Zenon DEF SetEnabled
  <2>2. late' \in Nat /\ switches' \in Nat
    BY ONLY <2>1
  <2>3. control' \in {"idle", "reset"} /\ enabled' = on /\ UNCHANGED <<life, began, loaded, running>>
    BY <1>11 DEF SetEnabled
  <2> QED BY <1>11, <2>2, <2>3, Zenon
<1>12. CASE ResetStatus BY <1>12 DEF ResetStatus
<1>13. CASE Signal BY <1>13 DEF Signal
<1>14. CASE Stop BY <1>14 DEF Stop
<1>15. CASE Destroy BY <1>15 DEF Destroy
<1>16. CASE UNCHANGED vars BY <1>16 DEF vars
<1> QED
  BY <1>1, <1>2, <1>3, <1>4, <1>5, <1>6, <1>7, <1>8,
     <1>9, <1>10, <1>11, <1>12, <1>13, <1>14, <1>15, <1>16
  DEF Next, Worker, Inference, Control, Main

LEMMA NextFeedType == FeedType /\ [Next]_vars => FeedType'
<1> SUFFICES ASSUME FeedType, [Next]_vars PROVE FeedType'
  OBVIOUS
<1> USE BoundAssumption DEF FeedType, Image, setup, feeding, thread, switch
<1>1. ASSUME NEW w \in Workers, Feed(w) PROVE FeedType'
  BY <1>1 DEF Feed
<1>2. ASSUME NEW w \in Workers, FeedLock(w) PROVE FeedType'
  <2>1. /\ lock' = w /\ fed' = fed + 1 /\ UNCHANGED ready /\ buf' = <<fed + 1, buf[2]>>
        /\ feeder' = [feeder EXCEPT ![w] = "copy"]
    BY <1>2 DEF FeedLock
  <2>2. buf' \in Image \X Image
    BY <2>1
  <2> QED BY <2>1, <2>2
<1>3. ASSUME NEW w \in Workers, FeedDone(w) PROVE FeedType'
  BY <1>3 DEF FeedDone, Halves
<1>4. ASSUME NEW w \in Workers, FeedCrashes(w) PROVE FeedType'
  BY <1>4 DEF FeedCrashes
<1>5. CASE Test BY <1>5 DEF Test
<1>6. CASE TakeY BY <1>6 DEF TakeY, NoImage, Halves
<1>7. CASE Convert BY <1>7 DEF Convert
<1>8. CASE Motion BY <1>8 DEF Motion, NoImage, Halves
<1>9. CASE Run BY <1>9 DEF Run, Outputs
<1>10. CASE Publish BY <1>10 DEF Publish, Verdicts
<1>11. ASSUME NEW on \in BOOLEAN, SetEnabled(on) PROVE FeedType'
  BY <1>11 DEF SetEnabled
<1>12. CASE ResetStatus BY <1>12 DEF ResetStatus
<1>13. CASE Signal BY <1>13 DEF Signal
<1>14. CASE Stop BY <1>14 DEF Stop
<1>15. CASE Destroy BY <1>15 DEF Destroy
<1>16. CASE UNCHANGED vars BY <1>16 DEF vars
<1> QED
  BY <1>1, <1>2, <1>3, <1>4, <1>5, <1>6, <1>7, <1>8,
     <1>9, <1>10, <1>11, <1>12, <1>13, <1>14, <1>15, <1>16
  DEF Next, Worker, Inference, Control, Main

LEMMA NextThreadType == FeedType /\ ThreadType /\ [Next]_vars => ThreadType'
<1> SUFFICES ASSUME FeedType, ThreadType, [Next]_vars PROVE ThreadType'
  OBVIOUS
<1> USE BoundAssumption DEF FeedType, ThreadType, Image, setup, feeding, thread, switch
<1>1. ASSUME NEW w \in Workers, Feed(w) PROVE ThreadType'
  BY <1>1 DEF Feed
<1>2. ASSUME NEW w \in Workers, FeedLock(w) PROVE ThreadType'
  BY <1>2 DEF FeedLock
<1>3. ASSUME NEW w \in Workers, FeedDone(w) PROVE ThreadType'
  BY <1>3 DEF FeedDone, Halves
<1>4. ASSUME NEW w \in Workers, FeedCrashes(w) PROVE ThreadType'
  BY <1>4 DEF FeedCrashes
<1>5. CASE Test BY <1>5 DEF Test
<1>6. CASE TakeY
  <2>1. UNCHANGED <<prev, npu, status>>
    BY <1>6 DEF TakeY
  <2>2. CASE ready
    <3>1. PICK y \in {buf, NoImage} : ai' = [ai EXCEPT !.at = "convert", !.y = y]
      BY <1>6, <2>2 DEF TakeY
    <3>2. y \in Image \X Image
      BY DEF NoImage, Halves
    <3> QED BY <2>1, <3>1, <3>2
  <2>3. CASE ~ready
    <3>1. ai' = [ai EXCEPT !.at = "test"]
      BY <1>6, <2>3 DEF TakeY
    <3> QED BY <2>1, <3>1
  <2> QED BY <2>2, <2>3
<1>7. CASE Convert BY <1>7 DEF Convert
<1>8. CASE Motion
  <2>1. UNCHANGED <<npu, status>>
    BY <1>8 DEF Motion
  <2>2. prev' \in Image
    BY <1>8 DEF Motion
  <2>3. PICK m \in Image \X Image : ai' = [ai EXCEPT !.at = "run", !.motion = m]
    BY <1>8 DEF Motion, NoImage, Halves
  <2> QED BY <2>1, <2>2, <2>3
<1>9. CASE Run
  <2>1. npu' = [out |-> ai.nchw[1], ok |-> TRUE] \/ npu' = [npu EXCEPT !.ok = FALSE]
    BY <1>9 DEF Run, Outputs
  <2>2. ai.nchw[1] \in Image
    OBVIOUS
  <2>3. npu' \in [out : Image, ok : BOOLEAN]
    <3>1. CASE npu' = [out |-> ai.nchw[1], ok |-> TRUE] BY <2>2, <3>1
    <3>2. CASE npu' = [npu EXCEPT !.ok = FALSE] BY <3>2
    <3> QED BY <2>1, <3>1, <3>2
  <2> QED BY <1>9, <2>3 DEF Run
<1>10. CASE Publish BY <1>10 DEF Publish, Verdicts
<1>11. ASSUME NEW on \in BOOLEAN, SetEnabled(on) PROVE ThreadType'
  BY <1>11 DEF SetEnabled
<1>12. CASE ResetStatus BY <1>12 DEF ResetStatus
<1>13. CASE Signal BY <1>13 DEF Signal
<1>14. CASE Stop BY <1>14 DEF Stop
<1>15. CASE Destroy BY <1>15 DEF Destroy
<1>16. CASE UNCHANGED vars BY <1>16 DEF vars
<1> QED
  BY <1>1, <1>2, <1>3, <1>4, <1>5, <1>6, <1>7, <1>8,
     <1>9, <1>10, <1>11, <1>12, <1>13, <1>14, <1>15, <1>16
  DEF Next, Worker, Inference, Control, Main

LEMMA NextLockInv == FeedType /\ ThreadType /\ LockInv /\ [Next]_vars => LockInv'
<1> SUFFICES ASSUME FeedType, ThreadType, LockInv, [Next]_vars PROVE LockInv'
  OBVIOUS
<1> USE BoundAssumption DEF FeedType, ThreadType, LockInv, setup, feeding, thread, switch
<1>1. ASSUME NEW w \in Workers, Feed(w) PROVE LockInv'
  BY <1>1 DEF Feed
<1>2. ASSUME NEW w \in Workers, FeedLock(w) PROVE LockInv'
  BY <1>2 DEF FeedLock
<1>3. ASSUME NEW w \in Workers, FeedDone(w) PROVE LockInv'
  BY <1>3 DEF FeedDone, Halves
<1>4. ASSUME NEW w \in Workers, FeedCrashes(w) PROVE LockInv'
  BY <1>4 DEF FeedCrashes
<1>5. CASE Test BY <1>5 DEF Test
<1>6. CASE TakeY
  <2>1. CASE ready
    <3>1. lock' = "ai" /\ ai'.at = "convert" /\ lock = None
      BY <1>6, <2>1 DEF TakeY
    <3> QED BY <1>6, <3>1 DEF TakeY
  <2>2. CASE ~ready
    <3>1. UNCHANGED lock /\ ai'.at = "test" /\ lock = None
      BY <1>6, <2>2 DEF TakeY
    <3> QED BY <1>6, <3>1 DEF TakeY
  <2> QED BY <2>1, <2>2
<1>7. CASE Convert BY <1>7 DEF Convert
<1>8. CASE Motion BY <1>8 DEF Motion, NoImage, Halves
<1>9. CASE Run BY <1>9 DEF Run, Outputs
<1>10. CASE Publish BY <1>10 DEF Publish, Verdicts
<1>11. ASSUME NEW on \in BOOLEAN, SetEnabled(on) PROVE LockInv'
  BY <1>11 DEF SetEnabled
<1>12. CASE ResetStatus BY <1>12 DEF ResetStatus
<1>13. CASE Signal BY <1>13 DEF Signal
<1>14. CASE Stop BY <1>14 DEF Stop
<1>15. CASE Destroy BY <1>15 DEF Destroy
<1>16. CASE UNCHANGED vars BY <1>16 DEF vars
<1> QED
  BY <1>1, <1>2, <1>3, <1>4, <1>5, <1>6, <1>7, <1>8,
     <1>9, <1>10, <1>11, <1>12, <1>13, <1>14, <1>15, <1>16
  DEF Next, Worker, Inference, Control, Main

LEMMA NextBufferInv == FeedType /\ ThreadType /\ LockInv /\ BufferInv /\ [Next]_vars => BufferInv'
<1> SUFFICES ASSUME FeedType, ThreadType, LockInv, BufferInv, [Next]_vars PROVE BufferInv'
  OBVIOUS
<1> USE BoundAssumption DEF FeedType, ThreadType, LockInv, BufferInv, Image, setup, feeding, thread, switch
<1>1. ASSUME NEW w \in Workers, Feed(w) PROVE BufferInv'
  BY <1>1 DEF Feed
<1>2. ASSUME NEW w \in Workers, FeedLock(w) PROVE BufferInv'
  <2>1. /\ lock = None /\ lock' = w /\ UNCHANGED <<ready, ai>> /\ buf' = <<fed + 1, buf[2]>>
    BY <1>2 DEF FeedLock
  <2>2. ai.at # "convert"
    BY <2>1
  <2>3. buf'[1] \in Nat
    BY <2>1
  <2> QED BY <2>1, <2>2, <2>3
<1>3. ASSUME NEW w \in Workers, FeedDone(w) PROVE BufferInv'
  BY <1>3 DEF FeedDone, Halves
<1>4. ASSUME NEW w \in Workers, FeedCrashes(w) PROVE BufferInv'
  BY <1>4 DEF FeedCrashes
<1>5. CASE Test BY <1>5 DEF Test
<1>6. CASE TakeY BY <1>6 DEF TakeY, NoImage, Halves
<1>7. CASE Convert BY <1>7 DEF Convert
<1>8. CASE Motion BY <1>8 DEF Motion, NoImage, Halves
<1>9. CASE Run BY <1>9 DEF Run, Outputs
<1>10. CASE Publish BY <1>10 DEF Publish, Verdicts
<1>11. ASSUME NEW on \in BOOLEAN, SetEnabled(on) PROVE BufferInv'
  BY <1>11 DEF SetEnabled
<1>12. CASE ResetStatus BY <1>12 DEF ResetStatus
<1>13. CASE Signal BY <1>13 DEF Signal
<1>14. CASE Stop BY <1>14 DEF Stop
<1>15. CASE Destroy BY <1>15 DEF Destroy
<1>16. CASE UNCHANGED vars BY <1>16 DEF vars
<1> QED
  BY <1>1, <1>2, <1>3, <1>4, <1>5, <1>6, <1>7, <1>8,
     <1>9, <1>10, <1>11, <1>12, <1>13, <1>14, <1>15, <1>16
  DEF Next, Worker, Inference, Control, Main

LEMMA NextOrderInv == FeedType /\ ThreadType /\ LockInv /\ BufferInv /\ OrderInv /\ OneImage /\ [Next]_vars => OrderInv'
<1> SUFFICES ASSUME FeedType, ThreadType, LockInv, BufferInv, OrderInv, OneImage, [Next]_vars PROVE OrderInv'
  OBVIOUS
<1> USE BoundAssumption DEF FeedType, ThreadType, LockInv, BufferInv, OrderInv, OneImage, Image, setup, feeding, thread, switch
<1>1. ASSUME NEW w \in Workers, Feed(w) PROVE OrderInv'
  BY <1>1 DEF Feed
<1>2. ASSUME NEW w \in Workers, FeedLock(w) PROVE OrderInv'
  <2>1. /\ fed' = fed + 1 /\ buf'[1] = fed + 1 /\ UNCHANGED <<ready, ai, prev>>
    BY <1>2 DEF FeedLock
  <2>2. /\ prev # None => prev \in Nat /\ prev <= fed
        /\ ai.nchw[1] # None => ai.nchw[1] \in Nat /\ ai.nchw[1] <= fed
    BY <2>1
  <2>3. ai.at = "motion" => ai.nchw[1] # None
    BY DEF NoImage, Halves
  <2>4. \A image \in {buf'[1], ai'.nchw[1], prev'} \ {None} : image <= fed'
    BY <2>1, <2>2
  <2>5. prev' # None => prev' < buf'[1]
    BY <2>1, <2>2
  <2>6. ai'.at = "motion" => ai'.nchw[1] < buf'[1]
    BY <2>1, <2>2, <2>3
  <2>7. ai'.at = "motion" /\ prev' # None => prev' < ai'.nchw[1]
    BY <2>1
  <2> QED BY <2>4, <2>5, <2>6, <2>7 DEF OrderInv
<1>3. ASSUME NEW w \in Workers, FeedDone(w) PROVE OrderInv'
  BY <1>3 DEF FeedDone, Halves
<1>4. ASSUME NEW w \in Workers, FeedCrashes(w) PROVE OrderInv'
  BY <1>4 DEF FeedCrashes
<1>5. CASE Test BY <1>5 DEF Test
<1>6. CASE TakeY
  <2>1. UNCHANGED <<fed, buf, ready, prev>> /\ lock' \notin Workers
    BY <1>6 DEF TakeY
  <2>2. ai'.at # "motion" /\ ai'.nchw = ai.nchw
    <3>1. CASE ready
      <4>1. PICK y \in {buf, NoImage} : ai' = [ai EXCEPT !.at = "convert", !.y = y]
        BY <1>6, <3>1 DEF TakeY
      <4> QED BY <4>1
    <3>2. CASE ~ready BY <1>6, <3>2 DEF TakeY
    <3> QED BY <3>1, <3>2
  <2> QED BY <2>1, <2>2
<1>7. CASE Convert BY <1>7 DEF Convert
<1>8. CASE Motion
  <2>1. ai.at = "motion" /\ UNCHANGED <<lock, fed, buf, ready>>
    BY <1>8 DEF Motion
  <2>2. PICK m \in Image \X Image : ai' = [ai EXCEPT !.at = "run", !.motion = m]
    BY <1>8 DEF Motion, NoImage, Halves
  <2>3. ai'.at = "run" /\ ai'.nchw = ai.nchw
    BY <2>2
  <2>4. prev' \in {prev, ai.nchw[1]}
    BY <1>8, <2>1 DEF Motion
  <2>5. ai.nchw[1] # None
    BY <2>1 DEF NoImage, Halves
  <2> QED BY <2>1, <2>3, <2>4, <2>5
<1>9. CASE Run BY <1>9 DEF Run, Outputs
<1>10. CASE Publish BY <1>10 DEF Publish, Verdicts
<1>11. ASSUME NEW on \in BOOLEAN, SetEnabled(on) PROVE OrderInv'
  BY <1>11 DEF SetEnabled
<1>12. CASE ResetStatus BY <1>12 DEF ResetStatus
<1>13. CASE Signal BY <1>13 DEF Signal
<1>14. CASE Stop BY <1>14 DEF Stop
<1>15. CASE Destroy BY <1>15 DEF Destroy
<1>16. CASE UNCHANGED vars BY <1>16 DEF vars
<1> QED
  BY <1>1, <1>2, <1>3, <1>4, <1>5, <1>6, <1>7, <1>8,
     <1>9, <1>10, <1>11, <1>12, <1>13, <1>14, <1>15, <1>16
  DEF Next, Worker, Inference, Control, Main

LEMMA NextImages == FeedType /\ ThreadType /\ LockInv /\ BufferInv /\ OrderInv /\ OneImage /\ MotionForward /\ [Next]_vars => (OneImage /\ MotionForward)'
<1> SUFFICES ASSUME FeedType, ThreadType, LockInv, BufferInv, OrderInv, OneImage, MotionForward, [Next]_vars PROVE (OneImage /\ MotionForward)'
  OBVIOUS
<1> USE BoundAssumption DEF FeedType, ThreadType, LockInv, BufferInv, OrderInv, OneImage, MotionForward, Image, setup, feeding, thread, switch
<1>1. ASSUME NEW w \in Workers, Feed(w) PROVE (OneImage /\ MotionForward)'
  BY <1>1 DEF Feed
<1>2. ASSUME NEW w \in Workers, FeedLock(w) PROVE (OneImage /\ MotionForward)'
  BY <1>2 DEF FeedLock
<1>3. ASSUME NEW w \in Workers, FeedDone(w) PROVE (OneImage /\ MotionForward)'
  BY <1>3 DEF FeedDone, Halves
<1>4. ASSUME NEW w \in Workers, FeedCrashes(w) PROVE (OneImage /\ MotionForward)'
  BY <1>4 DEF FeedCrashes
<1>5. CASE Test BY <1>5 DEF Test
<1>6. CASE TakeY
  <2>1. CASE ready
    <3>1. ai'.at = "convert"
      BY <1>6, <2>1 DEF TakeY
    <3> QED BY <3>1
  <2>2. CASE ~ready
    <3>1. ai'.at = "test"
      BY <1>6, <2>2 DEF TakeY
    <3> QED BY <3>1
  <2> QED BY <2>1, <2>2
<1>7. CASE Convert
  <2>1. ai.at = "convert" /\ ai'.at = "motion" /\ ai'.nchw = buf /\ ai'.y = ai.y
    BY <1>7 DEF Convert
  <2>2. buf[1] = buf[2] /\ buf[1] \in Nat /\ ai.y \in {buf, NoImage}
    BY <2>1
  <2>3. buf # NoImage
    BY <2>2 DEF NoImage, Halves
  <2> QED BY <2>1, <2>2, <2>3
<1>8. CASE Motion
  <2>1. ai.at = "motion" /\ ai.y \in {ai.nchw, NoImage}
    BY <1>8 DEF Motion
  <2>2. CASE ai.y = NoImage
    <3>1. ai' = [ai EXCEPT !.at = "run", !.motion = NoImage]
      BY <1>8, <2>2 DEF Motion
    <3>2. /\ ai'.at = "run" /\ ai'.nchw = ai.nchw /\ ai'.y = ai.y
          /\ ai'.motion = <<None, None>>
      BY <3>1 DEF NoImage, Halves
    <3> QED BY <2>1, <3>2
  <2>3. CASE ai.y # NoImage
    <3>1. ai' = [ai EXCEPT !.at = "run", !.motion = <<prev, ai.y[1]>>]
      BY <1>8, <2>3 DEF Motion
    <3>2. /\ ai'.at = "run" /\ ai'.nchw = ai.nchw /\ ai'.y = ai.y
          /\ ai'.motion = <<prev, ai.nchw[1]>>
      BY <2>1, <2>3, <3>1
    <3> QED BY <2>1, <3>2
  <2> QED BY <2>2, <2>3
<1>9. CASE Run BY <1>9 DEF Run, Outputs
<1>10. CASE Publish BY <1>10 DEF Publish, Verdicts
<1>11. ASSUME NEW on \in BOOLEAN, SetEnabled(on) PROVE (OneImage /\ MotionForward)'
  BY <1>11 DEF SetEnabled
<1>12. CASE ResetStatus BY <1>12 DEF ResetStatus
<1>13. CASE Signal BY <1>13 DEF Signal
<1>14. CASE Stop BY <1>14 DEF Stop
<1>15. CASE Destroy BY <1>15 DEF Destroy
<1>16. CASE UNCHANGED vars BY <1>16 DEF vars
<1> QED
  BY <1>1, <1>2, <1>3, <1>4, <1>5, <1>6, <1>7, <1>8,
     <1>9, <1>10, <1>11, <1>12, <1>13, <1>14, <1>15, <1>16
  DEF Next, Worker, Inference, Control, Main

LEMMA NextLifeInv == FeedType /\ ThreadType /\ LifeInv /\ [Next]_vars => LifeInv'
<1> SUFFICES ASSUME FeedType, ThreadType, LifeInv, [Next]_vars PROVE LifeInv'
  OBVIOUS
<1> USE BoundAssumption DEF FeedType, ThreadType, LifeInv, setup, feeding, thread, switch
<1>1. ASSUME NEW w \in Workers, Feed(w) PROVE LifeInv'
  BY <1>1 DEF Feed
<1>2. ASSUME NEW w \in Workers, FeedLock(w) PROVE LifeInv'
  BY <1>2 DEF FeedLock
<1>3. ASSUME NEW w \in Workers, FeedDone(w) PROVE LifeInv'
  BY <1>3 DEF FeedDone, Halves
<1>4. ASSUME NEW w \in Workers, FeedCrashes(w) PROVE LifeInv'
  BY <1>4 DEF FeedCrashes
<1>5. CASE Test BY <1>5 DEF Test
<1>6. CASE TakeY BY <1>6 DEF TakeY, NoImage, Halves
<1>7. CASE Convert BY <1>7 DEF Convert
<1>8. CASE Motion BY <1>8 DEF Motion, NoImage, Halves
<1>9. CASE Run BY <1>9 DEF Run, Outputs
<1>10. CASE Publish BY <1>10 DEF Publish, Verdicts
<1>11. ASSUME NEW on \in BOOLEAN, SetEnabled(on) PROVE LifeInv'
  BY <1>11 DEF SetEnabled
<1>12. CASE ResetStatus BY <1>12 DEF ResetStatus
<1>13. CASE Signal BY <1>13 DEF Signal
<1>14. CASE Stop BY <1>14 DEF Stop
<1>15. CASE Destroy BY <1>15 DEF Destroy
<1>16. CASE UNCHANGED vars BY <1>16 DEF vars
<1> QED
  BY <1>1, <1>2, <1>3, <1>4, <1>5, <1>6, <1>7, <1>8,
     <1>9, <1>10, <1>11, <1>12, <1>13, <1>14, <1>15, <1>16
  DEF Next, Worker, Inference, Control, Main

LEMMA NextLateInv == LifeType /\ ThreadType /\ LateInv /\ [Next]_vars => LateInv'
<1> SUFFICES ASSUME LifeType, ThreadType, LateInv, [Next]_vars PROVE LateInv'
  OBVIOUS
<1> USE BoundAssumption DEF LifeType, ThreadType, LateInv, setup, feeding, thread, switch
<1>1. ASSUME NEW w \in Workers, Feed(w) PROVE LateInv'
  BY <1>1 DEF Feed
<1>2. ASSUME NEW w \in Workers, FeedLock(w) PROVE LateInv'
  BY <1>2 DEF FeedLock
<1>3. ASSUME NEW w \in Workers, FeedDone(w) PROVE LateInv'
  BY <1>3 DEF FeedDone, Halves
<1>4. ASSUME NEW w \in Workers, FeedCrashes(w) PROVE LateInv'
  BY <1>4 DEF FeedCrashes
<1>5. CASE Test BY <1>5 DEF Test
<1>6. CASE TakeY
  <2>1. ai.at = "poll" /\ UNCHANGED <<enabled, late>>
    BY <1>6 DEF TakeY
  <2>2. ai'.at \in {"convert", "test"}
    <3>1. CASE ready BY <1>6, <3>1 DEF TakeY
    <3>2. CASE ~ready BY <1>6, <3>2 DEF TakeY
    <3> QED BY <3>1, <3>2
  <2>3. ~enabled => late = 0 /\ late <= 1
    BY <2>1, ZeroOne, Zenon
  <2> QED BY <2>1, <2>2, <2>3, Zenon
<1>7. CASE Convert BY <1>7 DEF Convert
<1>8. CASE Motion BY <1>8 DEF Motion, NoImage, Halves
<1>9. CASE Run BY <1>9 DEF Run, Outputs
<1>10. CASE Publish
  <2>1. ai.at = "publish" /\ ai'.at = "test" /\ UNCHANGED enabled
    BY <1>10 DEF Publish
  <2>2. ~enabled => late = 0 /\ late' = late + 1
    BY <1>10, <2>1, Zenon DEF Publish
  <2>3. ~enabled => late' <= 1
    BY ONLY <2>2
  <2> QED BY <2>1, <2>3, Zenon
<1>11. ASSUME NEW on \in BOOLEAN, SetEnabled(on) PROVE LateInv'
  <2>1. enabled' = on /\ (~on => late' = 0)
    BY <1>11, Zenon DEF SetEnabled
  <2> QED BY <2>1, ZeroOne, Zenon
<1>12. CASE ResetStatus BY <1>12 DEF ResetStatus
<1>13. CASE Signal BY <1>13 DEF Signal
<1>14. CASE Stop BY <1>14 DEF Stop
<1>15. CASE Destroy BY <1>15 DEF Destroy
<1>16. CASE UNCHANGED vars BY <1>16 DEF vars
<1> QED
  BY <1>1, <1>2, <1>3, <1>4, <1>5, <1>6, <1>7, <1>8,
     <1>9, <1>10, <1>11, <1>12, <1>13, <1>14, <1>15, <1>16
  DEF Next, Worker, Inference, Control, Main

LEMMA NextIInv == IInv /\ [Next]_vars => IInv'
BY NextLifeType, NextFeedType, NextThreadType, NextLockInv, NextBufferInv, NextOrderInv,
   NextImages, NextLifeInv, NextLateInv DEF IInv, Types

-----------------------------------------------------------------------------
\* The inductive invariant holds in every state.
THEOREM Inductive == Spec => []IInv
BY InitIInv, NextIInv, PTL DEF Spec

\* Every variable keeps its type.
THEOREM TypeCorrect == Spec => []TypeOK
<1>1. IInv => TypeOK
  BY TypeParts DEF IInv
<1> QED BY <1>1, Inductive, PTL

\* Whatever feeds, judges, switches and stops at once: an image is read whole, motion
\* is measured forward in time, and the buffers are freed when nobody uses them.
THEOREM BuffersAreSound == Spec => []BuffersSound
<1>1. IInv => BuffersSound
  BY DEF IInv, BuffersSound, FreedLast, LifeInv
<1> QED BY <1>1, Inductive, PTL

\* Switched off, the detector publishes one more result at the most.
THEOREM OneLateAtMost == Spec => []AtMostOneLate
<1>1. IInv => AtMostOneLate
  <2> SUFFICES ASSUME IInv, ~enabled PROVE late <= 1
    BY DEF AtMostOneLate
  <2>1. CASE ai.at \in {"test", "done"} BY <2>1, Zenon DEF IInv, LateInv
  <2>2. CASE ai.at \notin {"test", "done"} BY <2>2, ZeroOne, Zenon DEF IInv, LateInv
  <2> QED BY <2>1, <2>2
<1> QED BY <1>1, Inductive, PTL
=============================================================================
