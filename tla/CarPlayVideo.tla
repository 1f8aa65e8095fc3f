---------------------------- MODULE CarPlayVideo ----------------------------
(***************************************************************************)
(* The video of CarPlay from the phone to the compositor: the mirror        *)
(* threads of the AirPlay sessions (airplay_mirror_handle_connection), the  *)
(* one connection they share (compositor_send_video and compositor_connect  *)
(* of carplay/main.c) and the thread that reads it in the compositor        *)
(* (carplay_recv_thread).  Either program may crash and come back.          *)
(*                                                                          *)
(* A packet of the mirror stream is a header and as many units as its       *)
(* length field says; a frame on the way to the compositor is a header and  *)
(* two units of payload, of which one write may take one.                   *)
(* The handshake that gives a session its key is AirPlaySession, what the   *)
(* compositor does with a frame FrameSlot and Compositor.                   *)
(*                                                                          *)
(* A connection has a name of its own, and of the numbers that descriptors  *)
(* have only 0 is kept: the end of every AirPlay session closes it twice,   *)
(* as its audio, which is never initialised, has two sockets of 0.          *)
(***************************************************************************)
EXTENDS Naturals, Sequences, FiniteSets

CONSTANTS Threads,    \* mirror threads, one for each session
          Sockets,    \* connections to the compositor
          None,       \* no connection (-1), no holder
          Other,      \* a file of the daemon that is no such connection
          StampCounted, \* whether the phone's length field counts the time stamp
          Room,       \* units the socket to the compositor buffers
          MaxTries,   \* COMPOSITOR_CONNECT_RETRIES
          MaxFrames,  \* frames each phone sends
          MaxRestarts \* bound on the daemon's restarts

ASSUME BoundAssumption == /\ Room \in Nat \ {0} /\ MaxTries \in Nat \ {0}
                          /\ MaxFrames \in [Threads -> Nat] /\ MaxRestarts \in Nat
                          /\ None \notin Threads \cup Sockets /\ Other \notin Sockets \cup {None}
                          /\ StampCounted \in BOOLEAN

VARIABLES air,     \* what each phone has sent on its mirror connection, unread
          sent,    \* frames each phone has numbered so far
          thr,     \* what each mirror thread is doing
          fd,      \* g_compositor_fd
          mutex,   \* holder of g_compositor_mutex
          boot,    \* main's own compositor_connect: tries left, or "done"
          conn,    \* each connection: the two ends and what is in between
          zero,    \* what descriptor 0 stands for
          beneath, \* connections of the daemon that were closed as descriptor 0
          up,      \* the compositor runs
          rx,      \* its receiving thread
          shown,   \* number of the last frame of each session it published
          restarts \* of the daemon so far

numbers == <<zero, beneath>>
vars == <<air, sent, thr, fd, mutex, boot, conn, numbers, up, rx, shown, restarts>>
phone == <<air, sent>>
link == <<fd, mutex, boot, conn, numbers>>
compositor == <<up, rx, shown, restarts>>

-----------------------------------------------------------------------------
(* The mirror stream.                                                       *)

\* What the length field of each kind of packet says.  "plain" and "fp" are
\* frames: a time stamp and data; "big" is more than the compositor takes
\* (2 MB), "huge" more than the mirror context takes (8 MB).
Length == [plain |-> 2, fp |-> 2, big |-> 4, huge |-> 6, empty |-> 1, short |-> 0,
           codec |-> 1, oddcodec |-> 3, beat |-> 1, other |-> 2]

Kinds == DOMAIN Length
Frames == {"plain", "fp", "big"}

\* What the reader takes behind the header: a payload with no room for a time
\* stamp ends the stream, everything else is read or drained to its end.  It
\* counts the time stamp as a part of the length (airplay_mirror.c:277).
Drained(kind) == Length[kind]
Stamp == 1
Data(kind) == Length[kind] - Stamp
Taken(kind) ==
  CASE kind \in {"beat", "oddcodec", "other", "codec"} -> Drained(kind)
    [] kind = "short" -> 0
    [] OTHER -> Stamp + Data(kind)

Stamped == {"plain", "fp", "big", "huge", "empty", "short"}
Units(kind) == 1 + Length[kind] + (IF kind \in Stamped /\ ~StampCounted THEN Stamp ELSE 0)
Packet(kind, n) == [i \in 1..Units(kind) |-> [kind |-> kind, part |-> i - 1, n |-> n]]

Quiet == [at |-> "parse", frame |-> None, left |-> 0, tries |-> 0, new |-> None]

\* The phone sends the next packet, all of it or, when its connection breaks,
\* a beginning of it; the stream ends there.  A reduction of the order of steps:
\* one packet at a time is unread, and one that is no whole frame comes only
\* while no other is under way, as to read it touches nothing of the other
\* threads, so that it may as well have come before or after.
AtRest == /\ \A t \in Threads : thr[t].at \in {"parse", "done"}
          /\ \A c \in Sockets : conn[c].data = <<>>

SendPacket(t, kind) ==
  /\ \A u \in Threads : air[u] = <<>>
  /\ thr[t].at = "parse" /\ sent[t] < MaxFrames[t]
  /\ sent' = [sent EXCEPT ![t] = IF kind \in Frames THEN @ + 1 ELSE @]
  /\ \E k \in {1, Units(kind)} :
       /\ AtRest \/ (kind \in Frames /\ k > 1)
       /\ air' = [air EXCEPT ![t] = SubSeq(Packet(kind, sent'[t]), 1, k)]
  /\ UNCHANGED <<thr, link, compositor>>

\* One turn of the mirror thread's loop.  A frame goes to the callback, but
\* one that is encrypted ("fp") is skipped while the session has no key
\* (AirPlaySession has the key); a stream that breaks off ends the loop.
ReadPacket(t) ==
  /\ thr[t].at = "parse" /\ air[t] # <<>>
  /\ LET kind == Head(air[t]).kind
         took == 1 + Taken(kind)
     IN  IF Len(air[t]) < took \/ kind = "short"
         THEN /\ thr' = [thr EXCEPT ![t].at = "done"]
              /\ air' = [air EXCEPT ![t] = <<>>]
         ELSE /\ air' = [air EXCEPT ![t] = SubSeq(@, took + 1, Len(@))]
              /\ \/ /\ kind \in Frames
                    /\ thr' = [thr EXCEPT ![t].at = "lock", ![t].frame =
                                 [by |-> t, n |-> Head(air[t]).n, big |-> kind = "big"]]
                 \/ kind \notin Frames \ {"fp"} /\ UNCHANGED thr
  /\ UNCHANGED <<sent, link, compositor>>

\* The session ends, its stream broken off or at the end of a packet: session_cleanup,
\* and the slot's next session.  airplay_audio_ctx_destroy closes data_sock and
\* control_sock, which are 0, whatever has that number; the second of its closes is
\* no other than that of the next session.
Cleanup(t) ==
  /\ thr[t].at = "done" \/ (thr[t].at = "parse" /\ air[t] = <<>>)
  /\ zero' = None /\ beneath' = beneath \cup ({zero} \cap Sockets)
  /\ thr' = [thr EXCEPT ![t].at = "parse"]
  /\ UNCHANGED <<air, sent, fd, mutex, boot, conn, compositor>>

\* Descriptor 0 is the next one to be given out, to an accepted phone for example.
OtherOpens  == zero = None /\ zero' = Other
               /\ UNCHANGED <<phone, thr, fd, mutex, boot, conn, beneath, compositor>>
OtherCloses == zero = Other /\ zero' = None
               /\ UNCHANGED <<phone, thr, fd, mutex, boot, conn, beneath, compositor>>

-----------------------------------------------------------------------------
(* compositor_send_video                                                    *)

NoConn == [ours |-> FALSE, peer |-> "none", data |-> <<>>]

Payload == 2

\* Fault: the frame is sent without the mutex.
LockShared(t) ==
  /\ thr[t].at = "lock"
  /\ IF fd = None
     THEN thr' = [thr EXCEPT ![t] = Quiet] /\ UNCHANGED mutex
     ELSE thr' = [thr EXCEPT ![t].at = "header"] /\ mutex' = t
  /\ UNCHANGED <<phone, fd, boot, conn, numbers, compositor>>

\* Without a connection the frame is dropped.
Lock(t) ==
  /\ thr[t].at = "lock" /\ mutex = None
  /\ IF fd = None
     THEN thr' = [thr EXCEPT ![t] = Quiet] /\ UNCHANGED mutex
     ELSE thr' = [thr EXCEPT ![t].at = "header"] /\ mutex' = t
  /\ UNCHANGED <<phone, fd, boot, conn, numbers, compositor>>

Unit(f, part) == [frame |-> f, part |-> part]

Broken(c) == conn[c].peer = "closed"

\* What a write to g_compositor_fd goes to.
Referent == IF fd \in beneath THEN zero ELSE fd

\* A write blocks while the buffer is full.
Write(units) ==
  /\ Referent \in Sockets /\ ~Broken(Referent)
  /\ Len(conn[Referent].data) + Len(units) <= Room
  /\ conn' = [conn EXCEPT ![Referent].data = @ \o units]

WriteHeader(t) ==
  /\ thr[t].at = "header" /\ Write(<<Unit(thr[t].frame, 0)>>)
  /\ thr' = [thr EXCEPT ![t].at = "payload", ![t].left = Payload]
  /\ UNCHANGED <<phone, fd, mutex, boot, numbers, compositor>>

\* Fault: a partial write is taken for the whole.
WritePayloadOnce(t) ==
  /\ thr[t].at = "payload"
  /\ \E k \in 1..thr[t].left :
       /\ Write([i \in 1..k |-> Unit(thr[t].frame, Payload - thr[t].left + i)])
       /\ thr' = [thr EXCEPT ![t] = Quiet] /\ mutex' = None
  /\ UNCHANGED <<phone, fd, boot, numbers, compositor>>

WritePayload(t) ==
  /\ thr[t].at = "payload"
  /\ \E k \in 1..thr[t].left :
       /\ Write([i \in 1..k |-> Unit(thr[t].frame, Payload - thr[t].left + i)])
       /\ IF k = thr[t].left
          THEN thr' = [thr EXCEPT ![t] = Quiet] /\ mutex' = None
          ELSE thr' = [thr EXCEPT ![t].left = @ - k] /\ UNCHANGED mutex
  /\ UNCHANGED <<phone, fd, boot, numbers, compositor>>

\* The end that is left of a connection once this end is closed.
CloseOurs(c) == IF Broken(c) THEN NoConn ELSE [conn[c] EXCEPT !.ours = FALSE]

\* What its number stands for when c is closed: one that was closed beneath the
\* daemon is 0, and the close is that of whatever is 0 now.
Release(c) ==
  IF c \in beneath
  THEN zero' = None /\ beneath' = (beneath \ {c}) \cup ({zero} \cap Sockets)
  ELSE zero' = (IF zero = c THEN None ELSE zero) /\ beneath' = beneath

\* EPIPE, or EBADF.
CannotWrite(t) == /\ thr[t].at \in {"header", "payload"}
                  /\ Referent = None \/ (Referent \in Sockets /\ Broken(Referent))

\* Fault: the broken connection is forgotten without being closed.
WriteFailsLeak(t) ==
  /\ CannotWrite(t)
  /\ fd' = None /\ mutex' = None
  /\ thr' = [thr EXCEPT ![t] = [Quiet EXCEPT !.at = "connect", !.tries = MaxTries]]
  /\ UNCHANGED <<phone, boot, conn, numbers, compositor>>

\* Fault: the mutex is not released before the reconnect.
WriteFailsLocked(t) ==
  /\ CannotWrite(t)
  /\ conn' = [conn EXCEPT ![fd] = CloseOurs(fd)] /\ Release(fd)
  /\ fd' = None
  /\ thr' = [thr EXCEPT ![t] = [Quiet EXCEPT !.at = "connect", !.tries = MaxTries]]
  /\ UNCHANGED <<phone, boot, mutex, compositor>>

\* Close, forget, unlock, and connect again without the mutex.
GivesUp(t) ==
  /\ conn' = [conn EXCEPT ![fd] = CloseOurs(fd)] /\ Release(fd)
  /\ fd' = None /\ mutex' = None
  /\ thr' = [thr EXCEPT ![t] = [Quiet EXCEPT !.at = "connect", !.tries = MaxTries]]
  /\ UNCHANGED <<phone, boot, compositor>>

WriteFails(t) == CannotWrite(t) /\ GivesUp(t)

\* A write to what has become descriptor 0 meanwhile: it can succeed, fail or block.
WriteElsewhere(t) ==
  /\ thr[t].at \in {"header", "payload"} /\ Referent = Other
  /\ \/ GivesUp(t)
     \/ /\ IF thr[t].at = "header"
           THEN thr' = [thr EXCEPT ![t].at = "payload", ![t].left = Payload] /\ UNCHANGED mutex
           ELSE thr' = [thr EXCEPT ![t] = Quiet] /\ mutex' = None
        /\ UNCHANGED <<phone, fd, boot, conn, numbers, compositor>>

\* compositor_connect: a listening compositor is joined at once, its backlog
\* holds the connection until it accepts; otherwise the next try a second
\* later, and none in the end, nor when socket() fails or session_cleanup
\* closes what it returned.
Free == {c \in Sockets : conn[c] = NoConn}

\* The number is 0 if that was free at the call of socket().
Connected(c) == /\ up /\ c \in Free
                /\ conn' = [conn EXCEPT ![c] = [ours |-> TRUE, peer |-> "queued", data |-> <<>>]]
                /\ zero' \in (IF zero = None THEN {None, c} ELSE {zero})
                /\ UNCHANGED beneath

Connect(t) ==
  /\ thr[t].at = "connect"
  /\ \/ \E c \in Free : Connected(c) /\ thr' = [thr EXCEPT ![t].at = "install", ![t].new = c]
     \/ /\ ~up /\ UNCHANGED <<conn, numbers>>
        /\ thr' = [thr EXCEPT ![t].tries = @ - 1,
                              ![t].at = IF thr[t].tries = 1 THEN "install" ELSE "connect"]
     \/ /\ thr' = [thr EXCEPT ![t].at = "install"]
        /\ UNCHANGED <<conn, numbers>>
  /\ UNCHANGED <<phone, fd, mutex, boot, compositor>>

\* Under the mutex again: keep the new connection, or close it if somebody
\* else has connected meanwhile.
Install(t) ==
  /\ thr[t].at = "install" /\ mutex = None
  /\ IF fd = None \/ thr[t].new = None
     THEN /\ fd' = (IF fd = None THEN thr[t].new ELSE fd)
          /\ UNCHANGED <<conn, numbers>>
     ELSE /\ conn' = [conn EXCEPT ![thr[t].new] = CloseOurs(thr[t].new)] /\ Release(thr[t].new)
          /\ UNCHANGED fd
  /\ thr' = [thr EXCEPT ![t] = Quiet]
  /\ UNCHANGED <<phone, mutex, boot, compositor>>

\* main connects once, without the mutex, while the AirPlay threads run.
BootConnect ==
  /\ boot > 0
  /\ \/ \E c \in Free : Connected(c) /\ fd' = c /\ boot' = 0
     \/ ~up /\ boot' = boot - 1 /\ UNCHANGED <<conn, numbers, fd>>
     \/ boot' = 0 /\ UNCHANGED <<conn, numbers, fd>>
  /\ UNCHANGED <<phone, thr, mutex, compositor>>

-----------------------------------------------------------------------------
(* carplay_recv_thread and the life of the compositor.                      *)

Listening == [at |-> "accept", conn |-> None, frame |-> None, got |-> 0]

Accept ==
  /\ up /\ rx.at = "accept"
  /\ \E c \in Sockets : /\ conn[c].peer = "queued"
                        /\ conn' = [conn EXCEPT ![c].peer = "open"]
                        /\ rx' = [Listening EXCEPT !.at = "header", !.conn = c]
  /\ UNCHANGED <<phone, thr, fd, mutex, boot, numbers, up, shown, restarts>>

Next1 == conn[rx.conn].data[1]

\* The receiving thread closes its end: what is left unread is lost.
Close(c) == conn' = [conn EXCEPT ![c] =
              IF @.ours THEN [@ EXCEPT !.peer = "closed", !.data = <<>>] ELSE NoConn]

\* A length of more than CARPLAY_MAX_FRAME ends the connection.
RxHeader ==
  /\ rx.at = "header" /\ conn[rx.conn].data # <<>>
  /\ IF Next1.frame.big
     THEN Close(rx.conn) /\ rx' = Listening
     ELSE /\ conn' = [conn EXCEPT ![rx.conn].data = Tail(@)]
          /\ rx' = [rx EXCEPT !.at = "payload", !.frame = Next1.frame, !.got = 0]
  /\ UNCHANGED <<phone, thr, fd, mutex, boot, numbers, up, shown, restarts>>

RxPayload ==
  /\ rx.at = "payload" /\ conn[rx.conn].data # <<>>
  /\ conn' = [conn EXCEPT ![rx.conn].data = Tail(@)]
  /\ IF rx.got + 1 < Payload
     THEN rx' = [rx EXCEPT !.got = @ + 1] /\ UNCHANGED shown
     ELSE /\ rx' = [Listening EXCEPT !.at = "header", !.conn = rx.conn]
          /\ shown' = [shown EXCEPT ![rx.frame.by] = rx.frame.n]
  /\ UNCHANGED <<phone, thr, fd, mutex, boot, numbers, up, restarts>>

\* EOF, once everything sent before it has been read.
RxEnd == /\ rx.at \in {"header", "payload"}
         /\ conn[rx.conn].data = <<>> /\ (~conn[rx.conn].ours \/ rx.conn \in beneath)
         /\ Close(rx.conn) /\ rx' = Listening
         /\ UNCHANGED <<phone, thr, fd, mutex, boot, numbers, up, shown, restarts>>

Crash == /\ up /\ up' = FALSE /\ rx' = Listening
         /\ conn' = [c \in Sockets |->
              IF conn[c].ours THEN [conn[c] EXCEPT !.peer = "closed", !.data = <<>>]
              ELSE NoConn]
         /\ UNCHANGED <<phone, thr, fd, mutex, boot, numbers, shown, restarts>>

\* carplay_input_init: the socket is unlinked, bound and listened on anew.
Restart == /\ ~up /\ up' = TRUE
           /\ UNCHANGED <<phone, thr, link, rx, shown, restarts>>

\* The daemon ends, wherever its threads are, and systemd starts it again:
\* its end of the connection is closed, the sessions are new ones.
DaemonRestart ==
  /\ restarts < MaxRestarts /\ restarts' = restarts + 1
  /\ air' = [t \in Threads |-> <<>>]
  /\ thr' = [t \in Threads |-> Quiet]
  /\ fd' = None /\ mutex' = None /\ boot' = MaxTries
  /\ zero' = Other /\ beneath' = {}
  /\ conn' = [c \in Sockets |-> IF conn[c].ours THEN CloseOurs(c) ELSE conn[c]]
  /\ UNCHANGED <<sent, up, rx, shown>>

-----------------------------------------------------------------------------
Init ==
  /\ air = [t \in Threads |-> <<>>] /\ sent = [t \in Threads |-> 0]
  /\ thr = [t \in Threads |-> Quiet]
  /\ fd = None /\ mutex = None /\ boot = MaxTries
  /\ zero = Other /\ beneath = {}
  /\ conn = [c \in Sockets |-> NoConn]
  /\ up \in BOOLEAN /\ rx = Listening /\ shown = [t \in Threads |-> 0]
  /\ restarts = 0

Send(t) == \/ Lock(t) \/ WriteHeader(t) \/ WritePayload(t) \/ WriteFails(t)
           \/ Connect(t) \/ Install(t)

Receive == Accept \/ RxHeader \/ RxPayload \/ RxEnd

Next == \/ \E t \in Threads : \/ \E kind \in Kinds : SendPacket(t, kind)
                              \/ ReadPacket(t) \/ Cleanup(t)
                              \/ Send(t) \/ WriteElsewhere(t)
        \/ OtherOpens \/ OtherCloses \/ BootConnect \/ Receive \/ Crash \/ Restart \/ DaemonRestart

\* Threads of both programs run; nothing makes a phone send, nor the
\* compositor come back, nor a write end that goes elsewhere.
Spec == /\ Init /\ [][Next]_vars
        /\ \A t \in Threads : WF_vars(ReadPacket(t) \/ Send(t))
        /\ WF_vars(BootConnect) /\ WF_vars(Receive)

-----------------------------------------------------------------------------
\* The type of the state.
TypeOK ==
  /\ \A t \in Threads : sent[t] \in 0..MaxFrames[t] /\ shown[t] \in 0..MaxFrames[t]
  /\ \A t \in Threads :
       /\ thr[t].at \in {"parse", "lock", "header", "payload", "connect", "install", "done"}
       /\ thr[t].left \in 0..Payload /\ thr[t].tries \in 0..MaxTries
       /\ thr[t].new \in Sockets \cup {None}
  /\ fd \in Sockets \cup {None} /\ mutex \in Threads \cup {None} /\ boot \in 0..MaxTries
  /\ \A c \in Sockets : /\ conn[c].ours \in BOOLEAN
                        /\ conn[c].peer \in {"none", "queued", "open", "closed"}
                        /\ Len(conn[c].data) <= Room
  /\ zero \in Sockets \cup {None, Other} /\ beneath \subseteq Sockets
  /\ up \in BOOLEAN /\ rx.at \in {"accept", "header", "payload"}
  /\ restarts \in 0..MaxRestarts

\* The compositor never takes a payload for a header, nor puts a frame
\* together from two: what it reads next is what it waits for, whichever
\* thread wrote it and whatever connection broke in the middle of a frame.
InStep ==
  \A c \in Sockets : \A i \in DOMAIN conn[c].data :
    LET unit == conn[c].data[i] IN
    IF i > 1 THEN LET last == conn[c].data[i - 1] IN
                  IF unit.part = 0 THEN last.part = Payload
                  ELSE unit = [last EXCEPT !.part = @ + 1]
    ELSE IF rx.conn = c /\ rx.at = "payload" THEN unit = Unit(rx.frame, rx.got + 1)
    ELSE unit.part = 0

\* The daemon's open connections are g_compositor_fd and those being
\* installed, no more and no fewer, but for those that the end of a session
\* closed as descriptor 0: none is leaked at a reconnect, and none is written
\* to or closed after compositor_send_video has closed it.
DescriptorsMatch ==
  LET held == ({fd} \cup {thr[t].new : t \in Threads}) \ {None}
      open == {c \in Sockets : conn[c].ours} \ beneath
  IN  open = held \ beneath /\ beneath \subseteq held

\* The connection breaks, or is closed beneath its writer, or a new daemon begins.
Lost == (fd # None /\ (Broken(fd) \/ fd \in beneath)) \/ boot > 0

\* The last frame of a session reaches the screen once its header has been
\* written, unless the connection is lost or the daemon ends: with nothing
\* behind it to push it on, it is not left lying in the socket or in the
\* reader in part.
Arrives ==
  \A t \in Threads :
    thr[t].at = "header" /\ thr[t].frame.n = MaxFrames[t] /\ ~thr[t].frame.big
      ~> shown[t] = MaxFrames[t] \/ Lost

\* A thread that has a frame to send gets back to its stream: neither the
\* mutex nor a full socket nor a dead compositor holds it for good, unless
\* the frame goes to what has become descriptor 0 beneath it.
SendReturns == \A t \in Threads : thr[t].at = "lock" ~> thr[t].at = "parse" \/ fd \in beneath

\* carplay/main.c:564 says compositor_send_video will retry on each frame: a
\* frame that meets no connection while the compositor runs brings one about.
LinkComesBack == \A t \in Threads : thr[t].at = "lock" /\ fd = None /\ up
                                      ~> fd # None \/ ~up

\* airplay_mirror.h:11 and airplay_mirror.c:13: the payload follows the time stamp and has
\* payload_length bytes.  A phone that counts so (StampCounted = FALSE) and the reader agree.
MirrorInStep == \A t \in Threads : air[t] # <<>> => Head(air[t]).part = 0

\* Nothing but compositor_send_video closes the connections of compositor_connect.
NoneClosedBeneath == beneath = {}
=============================================================================
