------------------------------- MODULE BabyAi -------------------------------
(***************************************************************************)
(* The baby detector of the compositor (baby_ai.c): workers feed camera     *)
(* images into one buffer, an inference thread takes them out, compares     *)
(* each with the last for motion, runs the network (awnn_lib.c) and         *)
(* publishes a status; the control channel switches it on and off, and main *)
(* stops and frees it.                                                      *)
(*                                                                          *)
(* An image is its number, in the order of the copies into the buffer; a    *)
(* buffer is two halves, so that a reader can see one of each of two        *)
(* images.  What the network makes of an image is the image's number.       *)
(***************************************************************************)
EXTENDS Naturals

CONSTANTS Workers,      \* threads of the compositor that feed images
          None,         \* no worker, no image
          MaxImages,    \* bound on the images fed
          MaxSwitches   \* bound on the AI commands

ASSUME BoundAssumption == /\ MaxImages \in Nat /\ MaxSwitches \in Nat
                          /\ None \notin Workers \cup Nat \cup {"ai"} /\ "ai" \notin Workers

VARIABLES
  life,      \* main: "up", "stopping", "joining", then "freed" or "crashed"
  began,     \* how far baby_ai_init and baby_ai_start came
  loaded,    \* model_loaded
  running,   \* told to run
  enabled,   \* switched on
  feeder,    \* what each worker is doing in baby_ai_feed_frame
  fed,       \* images copied into the buffer so far
  lock,      \* holder of frame_lock: a worker, "ai" or None
  buf,       \* frame_buf, the two halves
  ready,     \* frame_ready
  ai,        \* the inference thread: where it is, y_copy and nchw_buf
  prev,      \* prev_y
  npu,       \* the network: the image of its outputs, and whether the last run succeeded
  status,    \* the published result
  control,   \* what the control thread is doing in baby_ai_set_enabled
  switches,  \* AI commands that changed something
  late       \* results published since the detector was switched off

feeding == <<feeder, fed, buf, ready>>
thread == <<ai, prev, npu>>
switch == <<enabled, control, switches>>
setup == <<began, loaded>>
vars == <<life, setup, running, lock, feeding, thread, status, switch, late>>

Halves(n) == <<n, n>>
NoImage == Halves(None)

\* baby_ai_init and baby_ai_start: without a model the thread runs and idles,
\* without buffers it is not started; main goes on whatever failed.
Init ==
  /\ life = "up" /\ began \in {"thread", "no thread", "no buffers"} /\ loaded \in BOOLEAN
  /\ (began = "no buffers" => ~loaded)
  /\ running = (began = "thread") /\ enabled = (began # "no buffers")
  /\ feeder = [w \in Workers |-> "idle"] /\ fed = 0
  /\ lock = None /\ buf = NoImage /\ ready = FALSE
  /\ ai = [at |-> IF began = "thread" THEN "test" ELSE "done",
           y |-> NoImage, nchw |-> NoImage, motion |-> NoImage]
  /\ prev = None /\ npu = [out |-> None, ok |-> TRUE]
  /\ status = [state |-> "unknown", motion |-> NoImage, image |-> None]
  /\ control = "idle" /\ switches = 0 /\ late = 0

-----------------------------------------------------------------------------
(* baby_ai_feed_frame: a worker copies its image while it holds the lock.   *)

Feed(w) ==
  /\ life = "up" /\ feeder[w] = "idle" /\ enabled /\ fed < MaxImages
  /\ feeder' = [feeder EXCEPT ![w] = "lock"]
  /\ UNCHANGED <<life, setup, running, lock, fed, buf, ready, thread, status, switch, late>>

\* Fault: the copy is made without the lock.
FeedLockNone(w) ==
  /\ feeder[w] = "lock" /\ fed < MaxImages
  /\ fed' = fed + 1
  /\ feeder' = [feeder EXCEPT ![w] = "copy"] /\ buf' = <<fed + 1, buf[2]>>
  /\ UNCHANGED <<life, setup, running, lock, ready, thread, status, switch, late>>

FeedLock(w) ==
  /\ feeder[w] = "lock" /\ lock = None /\ began # "no buffers"
  /\ lock' = w /\ fed' = fed + 1
  /\ feeder' = [feeder EXCEPT ![w] = "copy"] /\ buf' = <<fed + 1, buf[2]>>
  /\ UNCHANGED <<life, setup, running, ready, thread, status, switch, late>>

\* AI on after an initialisation that failed: the copy goes to no buffer.
FeedCrashes(w) ==
  /\ feeder[w] = "lock" /\ began = "no buffers" /\ life' = "crashed"
  /\ UNCHANGED <<setup, running, lock, feeding, thread, status, switch, late>>

FeedDone(w) ==
  /\ feeder[w] = "copy"
  /\ buf' = Halves(buf[1]) /\ ready' = TRUE /\ lock' = None
  /\ feeder' = [feeder EXCEPT ![w] = "idle"]
  /\ UNCHANGED <<life, setup, running, fed, thread, status, switch, late>>

-----------------------------------------------------------------------------
(* inference_thread                                                         *)

\* Fault: the switch is looked at only when the thread starts.
TestRunning ==
  /\ ai.at = "test"
  /\ IF ~running THEN ai' = [ai EXCEPT !.at = "done"]
     ELSE loaded /\ ai' = [ai EXCEPT !.at = "poll"]
  /\ UNCHANGED <<life, setup, running, lock, feeding, prev, npu, status, switch, late>>

\* The thread leaves the loop, idles while it is off or has no model, or goes
\* on to look for an image.
Test ==
  /\ ai.at = "test"
  /\ IF ~running THEN ai' = [ai EXCEPT !.at = "done"]
     ELSE enabled /\ loaded /\ ai' = [ai EXCEPT !.at = "poll"]
  /\ UNCHANGED <<life, setup, running, lock, feeding, prev, npu, status, switch, late>>

\* Fault: without memory for the Y plane the image is dropped.
TakeYOrDrop ==
  /\ ai.at = "poll" /\ lock = None
  /\ IF ready
     THEN \/ lock' = "ai" /\ ai' = [ai EXCEPT !.at = "convert", !.y = buf] /\ UNCHANGED ready
          \/ ready' = FALSE /\ ai' = [ai EXCEPT !.at = "test"] /\ UNCHANGED lock
     ELSE ai' = [ai EXCEPT !.at = "test"] /\ UNCHANGED <<lock, ready>>
  /\ UNCHANGED <<life, setup, running, feeder, fed, buf, prev, npu, status, switch, late>>

\* The Y plane of the image is copied, when there is memory for it.
TakeY ==
  /\ ai.at = "poll" /\ lock = None
  /\ IF ready
     THEN /\ lock' = "ai"
          /\ \E y \in {buf, NoImage} : ai' = [ai EXCEPT !.at = "convert", !.y = y]
     ELSE ai' = [ai EXCEPT !.at = "test"] /\ UNCHANGED lock
  /\ UNCHANGED <<life, setup, running, feeding, prev, npu, status, switch, late>>

\* nv12_to_nchw_resize, the whole image; the buffer is free for the next one.
Convert ==
  /\ ai.at = "convert"
  /\ ai' = [ai EXCEPT !.at = "motion", !.nchw = buf]
  /\ ready' = FALSE /\ lock' = None
  /\ UNCHANGED <<life, setup, running, feeder, fed, buf, prev, npu, status, switch, late>>

\* compute_motion compares with the last Y plane, which is replaced; the result
\* is the pair it compared.
Motion ==
  /\ ai.at = "motion"
  /\ IF ai.y = NoImage
     THEN ai' = [ai EXCEPT !.at = "run", !.motion = NoImage] /\ UNCHANGED prev
     ELSE ai' = [ai EXCEPT !.at = "run", !.motion = <<prev, ai.y[1]>>] /\ prev' = ai.y[1]
  /\ UNCHANGED <<life, setup, running, lock, feeding, npu, status, switch, late>>

\* What awnn_set_input_buffers and awnn_run leave of an image: a run that fails
\* leaves the outputs of the last one.
Outputs(image) == {[out |-> image, ok |-> TRUE], [npu EXCEPT !.ok = FALSE]}

\* run_inference takes the outputs for this run's own.
Run ==
  /\ ai.at = "run" /\ ai' = [ai EXCEPT !.at = "publish"]
  /\ npu' \in Outputs(ai.nchw[1])
  /\ UNCHANGED <<life, setup, running, lock, feeding, prev, status, switch, late>>

\* The verdict of parse_yolov5_head and the thresholds: nobody, or somebody
\* who sleeps, is awake or restless; also when no run has succeeded yet, and
\* the outputs are what malloc left there.
Verdicts == {"absent", "present"}

Publish ==
  /\ ai.at = "publish" /\ ai' = [ai EXCEPT !.at = "test"]
  /\ \E state \in Verdicts : status' = [state |-> state, motion |-> ai.motion, image |-> npu.out]
  /\ late' = IF enabled THEN late ELSE late + 1
  /\ UNCHANGED <<life, setup, running, lock, feeding, prev, npu, switch>>

-----------------------------------------------------------------------------
(* baby_ai_set_enabled, by AI on and AI off of the control channel.         *)

SetEnabled(on) ==
  /\ life = "up" /\ control = "idle" /\ enabled # on /\ switches < MaxSwitches
  /\ enabled' = on /\ switches' = switches + 1
  /\ control' = IF on THEN "idle" ELSE "reset"
  /\ late' = IF on THEN late ELSE 0
  /\ UNCHANGED <<life, setup, running, lock, feeding, thread, status>>

ResetStatus ==
  /\ control = "reset" /\ control' = "idle"
  /\ status' = [status EXCEPT !.state = "unknown"]
  /\ UNCHANGED <<life, setup, running, lock, feeding, thread, enabled, switches, late>>

-----------------------------------------------------------------------------
(* The end of main.                                                         *)

Signal == /\ life = "up" /\ life' = "stopping"
          /\ UNCHANGED <<setup, running, lock, feeding, thread, status, switch, late>>

\* baby_ai_destroy begins when workers and control thread have been joined.
Stop == /\ life = "stopping" /\ control = "idle" /\ \A w \in Workers : feeder[w] = "idle"
        /\ life' = "joining" /\ running' = FALSE
        /\ UNCHANGED <<setup, lock, feeding, thread, status, switch, late>>

\* The thread is joined and the buffers freed.  When none was started, the join
\* is of a zeroed pthread_t, or of what a failed pthread_create left there.
Destroy ==
  /\ life = "joining" /\ ai.at = "done"
  /\ \/ began # "no buffers" /\ life' = "freed"
     \/ began # "thread" /\ life' = "crashed"
  /\ UNCHANGED <<setup, running, lock, feeding, thread, status, switch, late>>

-----------------------------------------------------------------------------
Worker(w) == Feed(w) \/ FeedLock(w) \/ FeedDone(w) \/ FeedCrashes(w)

Inference == Test \/ TakeY \/ Convert \/ Motion \/ Run \/ Publish

Control == (\E on \in BOOLEAN : SetEnabled(on)) \/ ResetStatus

Main == Signal \/ Stop \/ Destroy

Next == /\ life # "crashed"
        /\ (\E w \in Workers : Worker(w)) \/ Inference \/ Control \/ Main

\* The threads run; nobody need feed, switch or stop.
Spec == /\ Init /\ [][Next]_vars
        /\ \A w \in Workers : WF_vars(life # "crashed" /\ (FeedLock(w) \/ FeedDone(w)))
        /\ WF_vars(life # "crashed" /\ Inference)

-----------------------------------------------------------------------------
Image == Nat \cup {None}

\* The type of the state.
TypeOK ==
  /\ life \in {"up", "stopping", "joining", "freed", "crashed"}
  /\ began \in {"thread", "no thread", "no buffers"}
  /\ loaded \in BOOLEAN /\ running \in BOOLEAN /\ enabled \in BOOLEAN
  /\ feeder \in [Workers -> {"idle", "lock", "copy"}] /\ fed \in Nat
  /\ lock \in Workers \cup {"ai", None} /\ buf \in Image \X Image /\ ready \in BOOLEAN
  /\ ai \in [at : {"test", "poll", "convert", "motion", "run", "publish", "done"},
             y : Image \X Image, nchw : Image \X Image, motion : Image \X Image]
  /\ prev \in Image /\ npu \in [out : Image, ok : BOOLEAN]
  /\ status \in [state : {"unknown", "absent", "present"}, motion : Image \X Image, image : Image]
  /\ control \in {"idle", "reset"} /\ switches \in Nat /\ late \in Nat

\* The motion and the verdict come from the same image, and from all of it:
\* no worker's copy gets between the two readings of the buffer, also when two
\* workers feed at once (frame_lock in inference_thread).
OneImage ==
  ai.at \in {"motion", "run", "publish"} =>
    /\ ai.nchw[1] = ai.nchw[2] /\ ai.nchw # NoImage
    /\ ai.y \in {ai.nchw, NoImage}

\* Motion is measured between an image and an earlier one, never between an
\* image and itself, which would look like a sleeping child (frame_ready is
\* cleared before frame_lock is released).
MotionForward ==
  ai.at \in {"run", "publish"} /\ ai.motion[1] # None => ai.motion[1] < ai.motion[2]

\* The buffers are freed when no thread is in them or can come to them again.
FreedLast == life = "freed" => /\ ai.at = "done" /\ control = "idle"
                               /\ \A w \in Workers : feeder[w] = "idle"

\* The three together, for every reader and writer of the buffers.
BuffersSound == OneImage /\ MotionForward /\ FreedLast

\* Switched off, the detector publishes at most the one result that was under
\* way (the test at the head of the loop): baby_ai_set_enabled(false) does not
\* wait for it.
AtMostOneLate == ~enabled => late <= 1

\* An image that is in the buffer is judged, or a newer one, unless the
\* detector is off, without a model or stopped, or the network failed.
Detects ==
  \A n \in 1..MaxImages :
    ready /\ buf = Halves(n) /\ loaded /\ running ~>
      \/ status.image # None /\ status.image >= n
      \/ ~enabled \/ life # "up" \/ ~npu.ok
=============================================================================
