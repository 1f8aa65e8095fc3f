---------------------------- MODULE ProxySession ----------------------------
(***************************************************************************)
(* aa-proxy's reconnection loop (main.rs) with the receiver of composited  *)
(* frames that every session creates (CompositorOutput in mitm.rs), and    *)
(* the compositor's end of that socket (aa_video_output.c).                *)
(*                                                                         *)
(* A session is numbered by its MitmLayer.  Its background task removes    *)
(* the socket file, binds a new listener there and serves one connection   *)
(* at a time, for ever: dropping the MitmLayer does not end the task.  The *)
(* compositor keeps ONE connection and reconnects only when a send fails.  *)
(* A composited frame is represented by the connection it came over.       *)
(***************************************************************************)
EXTENDS Naturals

CONSTANTS
  MaxSessions,  \* bound on the sessions
  MaxRestarts,  \* bound on the restarts of the compositor
  MaxCrashes,   \* bound on the crashes of aa-proxy
  Cap           \* frames the socket buffer of one connection holds

ASSUME BoundsAssumption ==
  MaxSessions \in Nat /\ MaxRestarts \in Nat /\ MaxCrashes \in Nat /\ Cap \in Nat \ {0}

Sessions == 1 .. MaxSessions
\* The compositor connects once, and again after each restart or crash.
Conns == 1 .. (1 + MaxRestarts + MaxCrashes)

VARIABLES
  main,      \* where the reconnection loop is
  sid,       \* number of the last session created
  task,      \* per session: its compositor_output_task
  bound,     \* the session whose listener is at /tmp/aa-video-out.sock, 0 if none
  reading,   \* per session: the connection its task reads, as a set
  frame,     \* per session: shared_frame, 0 for None
  shown,     \* what the car was last sent: 0 the phone's own video, else a frame
  nconn,     \* connections made so far
  home,      \* per connection: the session that holds the other end, 0 if closed
  open,      \* per connection: the compositor's end is open
  pipe,      \* per connection: frames written and not read
  fd,        \* aa_video_output.c's g_fd: the connection it sends on, 0 for -1
  restarts, crashes

vars == <<main, sid, task, bound, reading, frame, shown, nconn, home, open, pipe, fd,
          restarts, crashes>>

proxyVars == <<main, sid, task, bound, reading, frame, shown>>
linkVars  == <<nconn, home, open, pipe, fd>>
faults    == <<restarts, crashes>>

TypeOK ==
  /\ main \in {"wait_car", "wait_phone", "proxy", "standalone"}
  /\ sid \in 0 .. MaxSessions /\ bound \in 0 .. MaxSessions
  /\ task \in [Sessions -> {"none", "spawned", "listening"}]
  /\ reading \in [Sessions -> SUBSET Conns]
  /\ frame \in [Sessions -> 0 .. (1 + MaxRestarts + MaxCrashes)]
  /\ shown \in 0 .. (1 + MaxRestarts + MaxCrashes)
  /\ nconn \in 0 .. (1 + MaxRestarts + MaxCrashes)
  /\ home \in [Conns -> 0 .. MaxSessions]
  /\ open \in [Conns -> BOOLEAN]
  /\ pipe \in [Conns -> 0 .. Cap]
  /\ fd \in 0 .. nconn
  /\ restarts \in 0 .. MaxRestarts /\ crashes \in 0 .. MaxCrashes

Init ==
  /\ main = "wait_car" /\ sid = 0 /\ bound = 0 /\ shown = 0
  /\ task = [k \in Sessions |-> "none"]
  /\ reading = [k \in Sessions |-> {}] /\ frame = [k \in Sessions |-> 0]
  /\ nconn = 0 /\ fd = 0
  /\ home = [c \in Conns |-> 0]
  /\ open = [c \in Conns |-> FALSE] /\ pipe = [c \in Conns |-> 0]
  /\ restarts = 0 /\ crashes = 0

InSession == main \in {"proxy", "standalone"}

-----------------------------------------------------------------------------
(* The reconnection loop of main.rs.                                       *)

CarConnects ==
  /\ main = "wait_car"
  /\ main' = "wait_phone"
  /\ UNCHANGED <<sid, task, bound, reading, frame, shown, linkVars, faults>>

\* Create a MitmLayer, whose CompositorOutput spawns its task.
NewSession(mode) ==
  /\ main = "wait_phone"
  /\ sid < MaxSessions
  /\ sid' = sid + 1
  /\ task' = [task EXCEPT ![sid + 1] = "spawned"]
  /\ main' = mode
  /\ UNCHANGED <<bound, reading, frame, shown, linkVars, faults>>

\* The phone connects within five seconds and TLS succeeds.
PhoneInTime == NewSession("proxy")

\* No phone for five seconds.
PhoneTimeout == NewSession("standalone")

\* accept fails, or the TLS handshake does: the car is dropped as well.
PhoneFails ==
  /\ main = "wait_phone"
  /\ main' = "wait_car"
  /\ UNCHANGED <<sid, task, bound, reading, frame, shown, linkVars, faults>>

\* The car or the phone disconnects, or a phone connects in standalone mode.
SessionEnds ==
  /\ InSession
  /\ main' = "wait_car"
  /\ UNCHANGED <<sid, task, bound, reading, frame, shown, linkVars, faults>>

\* process_phone_to_car on a video frame: the latest composited frame replaces the
\* phone's, which goes through unchanged when there is none.
PhoneVideo ==
  /\ main = "proxy"
  /\ shown' = frame[sid]
  /\ UNCHANGED <<main, sid, task, bound, reading, frame, linkVars, faults>>

\* The standalone loop's 33 ms tick: inject the latest composited frame.
Tick ==
  /\ main = "standalone"
  /\ frame[sid] # 0
  /\ shown' = frame[sid]
  /\ UNCHANGED <<main, sid, task, bound, reading, frame, linkVars, faults>>

-----------------------------------------------------------------------------
(* compositor_output_task of session k.                                    *)

\* Remove the socket file, whoever listens there, and bind a new one.  Seconds pass
\* between two sessions: no task is first polled after a later one.
Bind(k) ==
  /\ task[k] = "spawned"
  /\ \A j \in 1 .. k - 1 : task[j] # "spawned"
  /\ task' = [task EXCEPT ![k] = "listening"]
  /\ bound' = k
  /\ UNCHANGED <<main, sid, reading, frame, shown, linkVars, faults>>

Backlog(k) == {c \in Conns : home[c] = k} \ reading[k]

\* Accept the connection that has waited longest.
AcceptNext(k) ==
  /\ task[k] = "listening"
  /\ \E c \in Backlog(k) :
       /\ \A d \in Backlog(k) : c <= d
       /\ reading' = [reading EXCEPT ![k] = @ \cup {c}]
  /\ UNCHANGED <<main, sid, task, bound, frame, shown, linkVars, faults>>

\* Mutation of Accept: the handler is spawned instead of awaited, so a second
\* connection is read beside the first.
AcceptAndSpawn(k) == AcceptNext(k)

\* The loop accepts again only when the handler has returned.
Accept(k) == reading[k] = {} /\ AcceptNext(k)

\* Read a whole frame from connection c: it becomes the latest one.
ReceiveFrom(k, c) ==
  /\ pipe[c] > 0
  /\ pipe' = [pipe EXCEPT ![c] = @ - 1]
  /\ frame' = [frame EXCEPT ![k] = c]
  /\ UNCHANGED <<main, sid, task, bound, reading, shown, nconn, home, open, fd, faults>>

\* Mutation of Receive: frames are read only while the session can use them.
ReceiveInSession(k) ==
  /\ InSession /\ sid = k
  /\ \E c \in reading[k] : ReceiveFrom(k, c)

Receive(k) == \E c \in reading[k] : ReceiveFrom(k, c)

\* The handler finds the end of the stream and returns.
CloseStream(k, c) ==
  /\ ~open[c] /\ pipe[c] = 0
  /\ reading' = [reading EXCEPT ![k] = @ \ {c}]
  /\ home' = [home EXCEPT ![c] = 0]
  /\ UNCHANGED <<main, sid, shown, nconn, open, pipe, fd, faults>>

\* Mutation of EndOfStream: the latest frame is not cleared.
EndOfStreamKeep(k) ==
  \E c \in reading[k] : CloseStream(k, c) /\ UNCHANGED <<task, bound, frame>>

\* Mutation of EndOfStream: the task returns, and its listener is dropped.
EndOfStreamReturn(k) ==
  /\ \E c \in reading[k] : CloseStream(k, c)
  /\ frame' = [frame EXCEPT ![k] = 0]
  /\ task' = [task EXCEPT ![k] = "none"]
  /\ bound' = IF bound = k THEN 0 ELSE bound

\* Clear the latest frame, so that phone video goes through, and accept again.
EndOfStream(k) ==
  /\ \E c \in reading[k] : CloseStream(k, c)
  /\ frame' = [frame EXCEPT ![k] = 0]
  /\ UNCHANGED <<task, bound>>

-----------------------------------------------------------------------------
(* The compositor's end: the reconnect thread and send_frame.              *)

\* connect() succeeds while somebody listens at the path, accepted or not.
CompConnect ==
  /\ fd = 0 /\ bound # 0
  /\ nconn < 1 + MaxRestarts + MaxCrashes
  /\ nconn' = nconn + 1
  /\ home' = [home EXCEPT ![nconn + 1] = bound]
  /\ open' = [open EXCEPT ![nconn + 1] = TRUE]
  /\ fd' = nconn + 1
  /\ UNCHANGED <<pipe, proxyVars, faults>>

\* One frame written to g_fd.
WriteFrame ==
  /\ fd # 0 /\ home[fd] # 0
  /\ pipe' = [pipe EXCEPT ![fd] = @ + 1]
  /\ UNCHANGED <<nconn, home, open, fd, proxyVars, faults>>

\* sendmsg has no MSG_DONTWAIT: it waits, holding g_send_lock, until the socket
\* buffer has room.
CompSend == fd # 0 /\ pipe[fd] < Cap /\ WriteFrame

\* The other end is gone: close and let the thread reconnect.
CompSendFails ==
  /\ fd # 0 /\ home[fd] = 0
  /\ open' = [open EXCEPT ![fd] = FALSE]
  /\ fd' = 0
  /\ UNCHANGED <<nconn, home, pipe, proxyVars, faults>>

\* The compositor stops, or crashes, and starts again.
CompRestart ==
  /\ restarts < MaxRestarts
  /\ restarts' = restarts + 1
  /\ open' = [c \in Conns |-> FALSE]
  /\ fd' = 0
  /\ UNCHANGED <<nconn, home, pipe, proxyVars, crashes>>

\* aa-proxy crashes and is started again; the socket file stays, with no listener.
ProxyCrash ==
  /\ crashes < MaxCrashes
  /\ crashes' = crashes + 1
  /\ main' = "wait_car" /\ bound' = 0 /\ shown' = 0
  /\ task' = [k \in Sessions |-> "none"]
  /\ reading' = [k \in Sessions |-> {}]
  /\ frame' = [k \in Sessions |-> 0]
  /\ home' = [c \in Conns |-> 0]
  /\ pipe' = [c \in Conns |-> 0]
  /\ UNCHANGED <<sid, nconn, open, fd, restarts>>

-----------------------------------------------------------------------------

TaskStep(k) == Bind(k) \/ Accept(k) \/ Receive(k) \/ EndOfStream(k)

Next ==
  \/ CarConnects \/ PhoneInTime \/ PhoneTimeout \/ PhoneFails \/ SessionEnds
  \/ PhoneVideo \/ Tick
  \/ \E k \in Sessions : TaskStep(k)
  \/ CompConnect \/ CompSend \/ CompSendFails \/ CompRestart \/ ProxyCrash

\* tokio runs a task that is ready, and the reconnect thread retries every second.
\* Nothing makes the car, the phone or a fault do anything, nor the compositor send:
\* its loops send only what a phone or the camera delivers to them.
Fairness ==
  /\ \A k \in Sessions : WF_vars(TaskStep(k))
  /\ WF_vars(CompConnect)

Spec == Init /\ [][Next]_vars /\ Fairness

-----------------------------------------------------------------------------
(* Properties.                                                             *)

\* A session holds a composited frame only of the connection it is reading: when
\* the compositor disconnects the car falls back to the phone's own video
\* (mitm.rs, compositor_output_task clears shared_frame), and a crash or a
\* restart on either side leaves no frame behind.
FrameFromCurrentConnection ==
  \A k \in Sessions : frame[k] # 0 => frame[k] \in reading[k]

\* The car never goes back to frames of an older connection of the compositor,
\* however the ends restart and whatever an old socket buffer still holds.
NeverShowsOlderConnection ==
  [][shown' = 0 \/ shown' >= shown]_shown

\* The compositor goes on sending frames on the connection it has.
KeepsSending == WF_vars(CompSend \/ CompSendFails)

\* The compositor's connection, if it has one, is held by no other session's task.
NotAtOrphan(k) == fd # 0 => home[fd] \in {0, k}

\* As long as the compositor goes on sending, a session that listens gets a frame,
\* unless it ends first, whatever the compositor's connection was when it began to
\* listen: none, one that broke, or one of its own that broke since.  The exception is
\* a connection that the task of an ended session still holds.
ReconnectReachesSession ==
  KeepsSending =>
    \A k \in Sessions :
      (InSession /\ sid = k /\ bound = k /\ NotAtOrphan(k))
        ~> (frame[k] # 0 \/ ~InSession \/ sid # k)

\* A full socket never blocks the compositor's pipeline for good: whoever took the
\* connection goes on reading it, or it is closed (aa_video_output_send_frame
\* holds g_send_lock, and its caller a worker thread, while it waits).
SendNeverStuck ==
  \A c \in Conns : (fd = c /\ pipe[c] = Cap) ~> (fd # c \/ pipe[c] < Cap)

\* What main.rs and mitm.rs promise: in a session the compositor's video reaches
\* the car, unless the session ends first.
CompositorReachesCar ==
  KeepsSending =>
    \A k \in Sessions :
      (InSession /\ sid = k) ~> (frame[k] # 0 \/ ~InSession \/ sid # k)
=============================================================================
