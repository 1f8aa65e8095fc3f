----------------------------- MODULE Compositor -----------------------------
(***************************************************************************)
(* The compositor's worker threads (main.c) around the shared video        *)
(* pipeline (pipeline.c) and the camera's capture buffers (camera.c).      *)
(*                                                                         *)
(* aa_video_thread and carplay_thread take a frame from their slot (module *)
(* FrameSlot; here only whether one is unread), decode, composite and      *)
(* encode it under g_lock and send the result AFTER releasing g_lock;      *)
(* camera_only_thread encodes camera frames when nobody else has video.    *)
(* The control thread changes layout and source under g_lock.  All three   *)
(* workers get a pointer to the pipeline's single enc_output buffer, which *)
(* a later encode overwrites and may move.  The two phones share the       *)
(* decoders too: a decoder keeps pictures back, and what comes out after   *)
(* one phone's packet went in may be the other phone's picture.            *)
(***************************************************************************)
EXTENDS Naturals, FiniteSets

CONSTANTS
  Buffers,   \* the camera's capture buffers (four in camera_init)
  Decoders,  \* the decoder contexts that opened: H.264 and perhaps H.265
  Delay,     \* bound on the pictures a decoder keeps back
  MaxPts     \* bound on the number of frames encoded

ASSUME BuffersAssumption == IsFiniteSet(Buffers)
ASSUME DelayAssumption   == Delay \in Nat
ASSUME MaxPtsAssumption  == MaxPts \in Nat

Phone   == {"aa", "carplay"}        \* the threads that composite phone video
Workers == Phone \cup {"camera"}
Layouts == {"full_primary", "split", "full_camera"}
Sources == {"aa", "carplay"}

VARIABLES
  running,   \* main.c's g_running
  phase,     \* how far main is in its shutdown sequence
  pc,        \* where each worker is in its loop
  lock,      \* the owner of g_lock, "free" if none
  layout, source,  \* g_display
  aaActive,  \* g_aa_active
  unread,    \* per phone source: its slot holds an unread frame
  owner,     \* camera buffer -> "driver", the worker that dequeued it, or "lost"
  waiting,   \* decoder -> per phone, the pictures the decoder keeps back
  dec,       \* dec_frame: whose picture, and whether it was never composited
  pts,       \* frames given to the encoder
  encOut,    \* enc_output: the frame in it, whether all of it is, where it lies
  result     \* per worker: the frame behind its out_len (0 for NULL), and where
             \* its h264_out points

vars == <<running, phase, pc, lock, layout, source, aaActive, unread, owner, waiting,
          dec, pts, encOut, result>>

mainVars == <<running, phase>>
display  == <<layout, source>>
decoder  == <<waiting, dec>>
encoder  == <<pts, encOut>>
pipeline == <<decoder, encoder>>

Steps == {"idle", "grab", "want", "decode", "dequeue", "encode", "copy", "release",
          "send", "exited"}

\* The steps a worker takes between pthread_mutex_lock and pthread_mutex_unlock.
Locked == {"decode", "dequeue", "encode", "copy", "release"}

\* dec_valid = 0 is NoPicture; a NULL h264_out is Null.  A block of memory is named
\* after the encode that allocated it, 0 for pipeline_init's malloc.
Pictures  == [from: Phone \cup {"none"}, fresh: BOOLEAN]
NoPicture == [from |-> "none", fresh |-> FALSE]
Pointers  == [frame: 0 .. MaxPts, block: 0 .. MaxPts]
Null      == [frame |-> 0, block |-> 0]

TypeOK ==
  /\ running \in BOOLEAN
  /\ phase \in {"up", "inputs_destroyed", "joined", "closed"}
  /\ pc \in [Workers -> Steps]
  /\ lock \in Workers \cup {"free"}
  /\ layout \in Layouts /\ source \in Sources
  /\ aaActive \in BOOLEAN
  /\ unread \in [Phone -> BOOLEAN]
  /\ owner \in [Buffers -> Workers \cup {"driver", "lost"}]
  /\ waiting \in [Decoders -> [Phone -> 0 .. Delay + 1]]
  /\ dec \in Pictures
  /\ pts \in 0 .. MaxPts
  /\ encOut \in [frame: 0 .. MaxPts, whole: BOOLEAN, block: 0 .. MaxPts]
  /\ result \in [Workers -> Pointers]

Init ==
  /\ running = TRUE /\ phase = "up"
  /\ pc = [t \in Workers |-> "idle"] /\ lock = "free"
  /\ layout = "full_primary" /\ source = "aa"
  /\ aaActive = FALSE
  /\ unread = [s \in Phone |-> FALSE]
  /\ owner = [b \in Buffers |-> "driver"]
  /\ waiting = [d \in Decoders |-> [p \in Phone |-> 0]]
  /\ dec = NoPicture /\ pts = 0
  /\ encOut = [frame |-> 0, whole |-> TRUE, block |-> 0]
  /\ result = [t \in Workers |-> Null]

\* The buffers worker t has dequeued and not queued again.
HeldBy(t) == {b \in Buffers : owner[b] = t}

Goto(t, step) == pc' = [pc EXCEPT ![t] = step]

-----------------------------------------------------------------------------
(* The workers' loops outside g_lock.                                      *)

\* The receiver of a phone source publishes a frame.
Arrive(s) ==
  /\ phase = "up"
  /\ ~unread[s]
  /\ unread' = [unread EXCEPT ![s] = TRUE]
  /\ UNCHANGED <<mainVars, pc, lock, display, aaActive, owner, pipeline, result>>

\* aa_video_thread: no unread frame, the tap counts as idle.
AaIdle ==
  /\ running /\ pc["aa"] = "idle"
  /\ ~unread["aa"]
  /\ aaActive' = FALSE
  /\ UNCHANGED <<mainVars, pc, lock, display, unread, owner, pipeline, result>>

\* aa_video_thread: get_frame returns a frame, the tap counts as active.
AaFrame ==
  /\ running /\ pc["aa"] = "idle"
  /\ unread["aa"]
  /\ unread' = [unread EXCEPT !["aa"] = FALSE]
  /\ aaActive' = TRUE
  /\ Goto("aa", "want")
  /\ UNCHANGED <<mainVars, lock, display, owner, pipeline, result>>

\* carplay_thread: it does not yield, and get_frame returns a frame.
CarplayFrame ==
  /\ running /\ pc["carplay"] = "idle"
  /\ ~aaActive /\ source = "carplay"
  /\ unread["carplay"]
  /\ unread' = [unread EXCEPT !["carplay"] = FALSE]
  /\ Goto("carplay", "want")
  /\ UNCHANGED <<mainVars, lock, display, aaActive, owner, pipeline, result>>

\* camera_only_thread: it does not yield.
CameraTurn ==
  /\ running /\ pc["camera"] = "idle"
  /\ ~aaActive /\ source # "carplay" /\ layout # "full_primary"
  /\ Goto("camera", "grab")
  /\ UNCHANGED <<mainVars, lock, display, aaActive, unread, owner, pipeline, result>>

\* camera_only_thread dequeues a buffer WITHOUT g_lock, or finds none ready.
CameraGrab ==
  /\ pc["camera"] = "grab"
  /\ \/ Goto("camera", "idle") /\ UNCHANGED owner
     \/ \E b \in HeldBy("driver") :
          owner' = [owner EXCEPT ![b] = "camera"] /\ Goto("camera", "want")
  /\ UNCHANGED <<mainVars, lock, display, aaActive, unread, pipeline, result>>

\* while (g_running) ends; aa_video_thread clears g_aa_active on its way out.
Exit(t) ==
  /\ ~running /\ pc[t] = "idle"
  /\ Goto(t, "exited")
  /\ aaActive' = (aaActive /\ t # "aa")
  /\ UNCHANGED <<mainVars, lock, display, unread, owner, pipeline, result>>

-----------------------------------------------------------------------------
(* Under g_lock: process_video_frame and pipeline_encode_camera_only.      *)

Acquire(t) ==
  /\ pc[t] = "want" /\ lock = "free"
  /\ lock' = t
  /\ Goto(t, IF t = "camera" THEN "encode" ELSE "decode")
  /\ UNCHANGED <<mainVars, display, aaActive, unread, owner, pipeline, result>>

\* What decoder d keeps back once it has accepted worker t's packet, which may
\* complete a picture.
Fed(d, t) == {waiting[d], [waiting[d] EXCEPT ![t] = @ + 1]}

\* What Decode does: send the packet to decoder d; take a picture that comes out,
\* whichever phone's it is, or none (dec_valid = 0); or do as `rejected` says.
DecodeOr(t, rejected) ==
  /\ t \in Phone /\ pc[t] = "decode"
  /\ \/ rejected /\ UNCHANGED decoder
     \/ \E d \in Decoders : \E now \in Fed(d, t) :
          \/ \E p \in Phone :
               /\ now[p] > 0 /\ now["aa"] + now["carplay"] <= Delay + 1
               /\ waiting' = [waiting EXCEPT ![d] = [now EXCEPT ![p] = @ - 1]]
               /\ dec' = [from |-> p, fresh |-> TRUE]
               /\ Goto(t, "dequeue") /\ UNCHANGED result
          \/ /\ now["aa"] + now["carplay"] <= Delay
             /\ waiting' = [waiting EXCEPT ![d] = now]
             /\ dec' = NoPicture
             /\ Goto(t, "release") /\ result' = [result EXCEPT ![t] = Null]
  /\ UNCHANGED <<mainVars, lock, display, aaActive, unread, owner, encoder>>

\* Mutation of Decode: a packet the decoder rejects does not end the frame.
DecodeUnchecked(t) == DecodeOr(t, Goto(t, "dequeue") /\ UNCHANGED result)

\* pipeline_decode.  A rejected packet leaves dec_frame and dec_valid as they were.
Decode(t) ==
  DecodeOr(t, Goto(t, "release") /\ result' = [result EXCEPT ![t] = Null])

\* Unless the layout hides the camera, take a camera buffer if one is ready.
Dequeue(t) ==
  /\ pc[t] = "dequeue"
  /\ \/ UNCHANGED owner
     \/ /\ layout # "full_primary"
        /\ \E b \in HeldBy("driver") : owner' = [owner EXCEPT ![b] = t]
  /\ Goto(t, "encode")
  /\ UNCHANGED <<mainVars, lock, display, aaActive, unread, pipeline, result>>

\* What Encode does: the picture is composited and pts used up either way; then the
\* copy of the encoder's packet into enc_output begins, moving it (realloc) if the
\* packet is too large for it, or the encoder has failed.
EncodeOr(t, failed) ==
  /\ pc[t] = "encode" /\ pts < MaxPts
  /\ pts' = pts + 1
  /\ dec' = [dec EXCEPT !.fresh = @ /\ t = "camera"]
  /\ \/ /\ Goto(t, "copy") /\ UNCHANGED result
        /\ \E b \in {encOut.block, pts + 1} :
             encOut' = [frame |-> pts + 1, whole |-> FALSE, block |-> b]
     \/ failed /\ Goto(t, "release") /\ UNCHANGED encOut
  /\ UNCHANGED <<mainVars, lock, display, aaActive, unread, owner, waiting>>

\* Mutation of Encode: a failing encoder still returns enc_output.
EncodeFailReturns(t) ==
  EncodeOr(t, result' = [result EXCEPT ![t] = [frame |-> pts + 1, block |-> encOut.block]])

\* pipeline_composite and pipeline_encode, which returns NULL when the encoder fails.
Encode(t) == EncodeOr(t, result' = [result EXCEPT ![t] = Null])

\* The copy ends; the worker has its pointer and length.
Copy(t) ==
  /\ pc[t] = "copy"
  /\ encOut' = [encOut EXCEPT !.whole = TRUE]
  /\ result' = [result EXCEPT ![t] = [frame |-> encOut.frame, block |-> encOut.block]]
  /\ Goto(t, "release")
  /\ UNCHANGED <<mainVars, lock, display, aaActive, unread, owner, decoder, pts>>

\* What Release does, queueing the buffers in set bs again; the driver may refuse a
\* buffer (VIDIOC_QBUF), which nobody tries again.
Leave(t, bs) ==
  /\ pc[t] = "release"
  /\ \E to \in {"driver", "lost"} :
       owner' = [b \in Buffers |-> IF b \in bs THEN to ELSE owner[b]]
  /\ lock' = "free"
  /\ Goto(t, IF result[t] = Null THEN "idle" ELSE "send")
  /\ UNCHANGED <<mainVars, display, aaActive, unread, pipeline, result>>

\* Mutations of Release: the camera buffer is only queued again when the encoder
\* succeeded; a failed frame leaves the loop body without unlocking.
ReleaseLeak(t) == Leave(t, IF result[t] = Null THEN {} ELSE HeldBy(t))
ReleaseKeepLock(t) == Leave(t, HeldBy(t)) /\ result[t] # Null

\* Queue the camera buffer again and unlock; send only if there is output.
Release(t) == Leave(t, HeldBy(t))

-----------------------------------------------------------------------------
(* After g_lock.                                                           *)

\* aa_video_output_send_frame reads out_len bytes through the worker's pointer, as
\* that memory then is: its own frame, a later one's bytes, or a freed block.
Send(t) ==
  /\ pc[t] = "send"
  /\ result' = [result EXCEPT ![t] = Null]
  /\ Goto(t, "idle")
  /\ UNCHANGED <<mainVars, lock, display, aaActive, unread, owner, pipeline>>

Set(l, s) ==
  /\ running
  /\ layout' = l /\ source' = s
  /\ UNCHANGED <<mainVars, pc, lock, aaActive, unread, owner, pipeline, result>>

\* mode_cycle.
Cycle ==
  [full_primary |-> "split", split |-> "full_camera", full_camera |-> "full_primary"]

ModeArguments ==
  {<<Cycle[layout], source>>, <<"full_camera", source>>} \cup
  {<<l, s>> : l \in {"full_primary", "split"}, s \in Sources}

\* The control thread executes MODE cycle, full_aa, full_carplay, full_camera,
\* split_aa_cam or split_cp_cam under g_lock.
ModeCommand == lock = "free" /\ \E m \in ModeArguments : Set(m[1], m[2])

-----------------------------------------------------------------------------
(* main.                                                                   *)

\* SIGINT or SIGTERM.
Signal ==
  /\ running
  /\ running' = FALSE
  /\ UNCHANGED <<phase, pc, lock, display, aaActive, unread, owner, pipeline, result>>

\* main destroys the input and output modules, joins the workers, and then
\* destroys pipeline and camera.
JoinWorkers == \A t \in Workers : pc[t] = "exited"

Shutdown(joined) ==
  /\ ~running
  /\ \/ phase = "up" /\ phase' = "inputs_destroyed"
     \/ phase = "inputs_destroyed" /\ joined /\ phase' = "joined"
     \/ phase = "joined" /\ phase' = "closed"
  /\ UNCHANGED <<running, pc, lock, display, aaActive, unread, owner, pipeline, result>>

TearDown == Shutdown(JoinWorkers)

-----------------------------------------------------------------------------
Worker(t) ==
  \/ Acquire(t) \/ Decode(t) \/ Dequeue(t) \/ Encode(t) \/ Copy(t) \/ Release(t)
  \/ Send(t) \/ Exit(t)

Next ==
  \/ \E s \in Phone : Arrive(s)
  \/ AaIdle \/ AaFrame \/ CarplayFrame \/ CameraTurn \/ CameraGrab
  \/ \E t \in Workers : Worker(t)
  \/ ModeCommand \/ Signal \/ TearDown

\* A worker that holds g_lock only computes, so its next step always happens.
UnderLock(t) == Decode(t) \/ Dequeue(t) \/ Encode(t) \/ Copy(t) \/ Release(t)
Fairness == \A t \in Workers : WF_vars(UnderLock(t))

Spec == Init /\ [][Next]_vars /\ Fairness

-----------------------------------------------------------------------------
(* Properties.                                                             *)

\* The loops never forget or share a camera buffer: it is the driver's, or one
\* worker's within its turn, or the driver itself refused it (and then it is gone for
\* good); whatever is sent and whoever idles, no more than two are being worked on.
CameraConserved ==
  /\ \A t \in Workers : Cardinality(HeldBy(t)) <= 1
  /\ \A t \in Workers : pc[t] \in {"idle", "send", "exited"} => HeldBy(t) = {}
  /\ Cardinality(Buffers \ (HeldBy("driver") \cup HeldBy("lost"))) <= 2

\* What a phone thread composites has just come out of a decoder: never a picture
\* that was composited before, by itself or by the other phone's thread, and never
\* what a rejected packet left in dec_frame.
ComposesOnce ==
  \A t \in Phone : pc[t] \in {"dequeue", "encode"} => dec.from # "none" /\ dec.fresh

\* Camera image and layout agree: a phone thread that took a camera buffer still
\* sees a layout that shows the camera when it composites.
LayoutStable ==
  \A t \in Phone : pc[t] = "encode" /\ HeldBy(t) # {} => layout # "full_primary"

\* main.c:90 and pipeline.h: the pointer is valid until the next pipeline_encode().
\* While no later encode has reached enc_output, what a worker sends is its own
\* frame, all of it, with its own length, from memory that is still allocated; a
\* later encode that fails does it no harm.
ValidUntilNextEncode ==
  \A t \in Workers : pc[t] = "send" =>
    \/ encOut = [frame |-> result[t].frame, whole |-> TRUE, block |-> result[t].block]
    \/ encOut.frame > result[t].frame /\ pts > result[t].frame

\* main destroys the pipeline and the camera when no worker uses them any more.
TeardownAfterWorkers ==
  phase \in {"joined", "closed"} =>
    /\ lock = "free" /\ \A t \in Workers : pc[t] = "exited"
    /\ HeldBy("driver") \cup HeldBy("lost") = Buffers

\* What is composited fits together, whatever the other workers and the control thread
\* do in between: a picture not yet shown, and a camera image only if the layout has one.
PictureFits == ComposesOnce /\ LayoutStable

\* Camera buffers come back on every path of the loops, and pipeline and camera are
\* not destroyed before the last worker is done with them.
BuffersSafe == CameraConserved /\ TeardownAfterWorkers

\* The step brings the holder of g_lock nearer to the unlock.
Turn == [decode |-> 1, dequeue |-> 2, encode |-> 3, copy |-> 4, release |-> 5]
Nearer(t) == lock' = "free" \/ Turn[pc[t]] < Turn[pc'[t]]

\* g_lock is never held for ever: whatever has failed, on the paths of process_video_frame
\* and camera_only_thread alike, and whatever the others do meanwhile, its holder has a
\* next step, which Fairness grants, and each is nearer to the unlock, so five are enough.
\* (At the bound on encoded frames a holder stops short of the encoder.)
LockReleased ==
  \A t \in Workers : lock = t =>
    /\ ENABLED UnderLock(t) \/ (pts = MaxPts /\ pc[t] = "encode")
    /\ ~ENABLED (UnderLock(t) /\ ~Nearer(t))

\* main.c:80-82 (a stale read of g_aa_active is "harmless"): what a worker sends is
\* the frame it encoded.  The code sends through the pointer after g_lock is released.
SendsOwnFrame ==
  \A t \in Workers : pc[t] = "send" =>
    encOut = [frame |-> result[t].frame, whole |-> TRUE, block |-> result[t].block]

\* main.c:143-144 (each frame is decoded, composited, encoded and sent): what a phone
\* thread composites is its own phone's picture.  The two phones share the decoders.
ComposesOwnPicture ==
  \A t \in Phone : pc[t] \in {"dequeue", "encode"} => dec.from = t
=============================================================================
