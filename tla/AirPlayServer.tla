--------------------------- MODULE AirPlayServer ---------------------------
(***************************************************************************)
(* The AirPlay server of the CarPlay daemon (airplay_server.c): a thread   *)
(* that accepts RTSP connections into a table of session slots, per slot a *)
(* thread that serves the connection and one that waits for and reads a    *)
(* mirror connection, and the stop that main calls on its way out.         *)
(*                                                                         *)
(* What a session says over RTSP is module AirPlaySession; here a session  *)
(* reaches RECORD, on which its phone opens the mirror connection, and     *)
(* ends.  Descriptors are the connections themselves, but for number 0: a  *)
(* slot's audio context is zeroed and never initialised, so ending any     *)
(* session closes descriptor 0, twice, and accept() hands it out again.    *)
(***************************************************************************)
EXTENDS Naturals, Sequences

CONSTANTS
  MaxSessions,  \* AIRPLAY_MAX_SESSIONS
  MaxCalls,     \* bound on the connections phones make
  Mirroring     \* those of them that are followed by a mirror connection

ASSUME BoundsAssumption ==
  MaxSessions \in Nat \ {0} /\ MaxCalls \in Nat /\ Mirroring \subseteq 1 .. MaxCalls

Slots == 1 .. MaxSessions
Calls == 1 .. MaxCalls
Rtsp(c)   == <<"rtsp", c>>
Mirror(c) == <<"mirror", c>>
Conns == {"rtsp", "mirror"} \X Calls
NoOne == <<"none", 0>>
Stdin == <<"stdin", 0>>
Descriptors == Conns \cup {NoOne}
Unlocked == 0
Stopper  == MaxSessions + 1

VARIABLES
  conn,          \* per connection: "none", "up" or "gone"
  rtspQueue,     \* the RTSP listener's backlog
  mirrorQueue,   \* the mirror listener's backlog
  calls,         \* number of RTSP connections made
  zero,          \* what descriptor 0 denotes
  isZero,        \* the connections that were given number 0
  serving,       \* srv->running
  rtspOpen,      \* rtsp_listen_fd is open
  mirrorOpen,    \* mirror_listen_fd is open
  slot,          \* srv->sessions: [active, rtsp, mirror], the last two the client fds
  fd,            \* per slot: its RTSP thread's fd
  mirrorFd,      \* per slot: its mirror thread's client_fd
  rtspAt,        \* per slot: where its RTSP thread is
  mirrorAt,      \* per slot: where its mirror thread is
  sessionsLock,  \* its holder: a slot's RTSP thread, Stopper, or Unlocked
  cleaning,      \* session_cleanup in progress: [slot, step], slot 0 when there is none
  acceptLock,    \* mirror_accept_lock's holder: a slot's mirror thread, or Unlocked
  starter,       \* where airplay_server_start is
  acceptor,      \* where rtsp_accept_thread is, with the connection and slot it is about
  stop           \* where airplay_server_stop is, with the slot it is about

phoneVars  == <<calls, conn, rtspQueue, mirrorQueue>>
serverVars == <<serving, rtspOpen, mirrorOpen, starter, stop>>
numVars    == <<zero, isZero>>
slotVars   == <<slot, fd, mirrorFd>>
threadVars == <<rtspAt, mirrorAt>>
lockVars   == <<sessionsLock, cleaning, acceptLock>>
airPlayVars == <<phoneVars, serverVars, numVars, slotVars, threadVars, lockVars, acceptor>>

NoSession == [active |-> FALSE, rtsp |-> NoOne, mirror |-> NoOne]
NotCleaning == [slot |-> 0, step |-> 0]

ServerTypeOK ==
  /\ conn \in [Conns -> {"none", "up", "gone"}]
  /\ rtspQueue \in Seq(Conns) /\ mirrorQueue \in Seq(Conns)
  /\ zero \in Descriptors \cup {Stdin} /\ isZero \subseteq Conns
  /\ slot \in [Slots -> [active : BOOLEAN, rtsp : Descriptors, mirror : Descriptors]]
  /\ fd \in [Slots -> Descriptors] /\ mirrorFd \in [Slots -> Descriptors]
  /\ rtspAt \in [Slots -> {"none", "init", "serving", "recording", "joining", "leaving", "cleanup"}]
  /\ mirrorAt \in [Slots -> {"none", "lock", "accept", "streaming", "returned"}]
  /\ sessionsLock \in Slots \cup {Unlocked, Stopper} /\ acceptLock \in Slots \cup {Unlocked}
  /\ cleaning \in [slot : 0 .. MaxSessions, step : 0 .. 2]
  /\ starter \in {"new", "registering", "up"}
  /\ acceptor.at \in {"off", "accept", "place", "spawn", "done"}
  /\ stop.at \in {"no", "rtsp", "mirror", "slots", "join", "lock", "clean", "done", "crashed", "exited"}

ServerInit ==
  /\ calls = 0 /\ conn = [k \in Conns |-> "none"]
  /\ rtspQueue = <<>> /\ mirrorQueue = <<>>
  /\ zero = Stdin /\ isZero = {}
  /\ serving = FALSE /\ rtspOpen = TRUE /\ mirrorOpen = TRUE
  /\ slot = [s \in Slots |-> NoSession]
  /\ fd = [s \in Slots |-> NoOne] /\ mirrorFd = [s \in Slots |-> NoOne]
  /\ rtspAt = [s \in Slots |-> "none"] /\ mirrorAt = [s \in Slots |-> "none"]
  /\ sessionsLock = Unlocked /\ cleaning = NotCleaning /\ acceptLock = Unlocked
  /\ starter = "new"
  /\ acceptor = [at |-> "off", conn |-> NoOne, slot |-> 0]
  /\ stop = [at |-> "no", slot |-> 0]

-----------------------------------------------------------------------------
(* Descriptors.                                                            *)

\* What a descriptor denotes now: number 0 may have been closed and handed out again.
Denotes(k) == IF k \in isZero THEN zero ELSE k

\* A read from it returns no more data.
Ended(k) == Denotes(k) \in Conns => conn[Denotes(k)] = "gone"

\* accept() returns k under the lowest free number; only number 0 matters.
NumberFor(k) ==
  /\ zero' = IF zero = NoOne THEN k ELSE zero
  /\ isZero' = IF zero = NoOne THEN isZero \cup {k} ELSE isZero

\* conn after the connections ks have been closed.
Closed(ks) == [k \in Conns |-> IF k \in ks /\ conn[k] = "up" THEN "gone" ELSE conn[k]]

\* close() of the descriptors ks, and of number 0 when alsoZero.
Close(ks, alsoZero) ==
  LET zeroToo == alsoZero \/ ks \cap isZero # {} IN
  /\ conn' = Closed({Denotes(k) : k \in ks} \cup (IF zeroToo THEN {zero} ELSE {}))
  /\ zero' = IF zeroToo THEN NoOne ELSE zero

-----------------------------------------------------------------------------
(* The phones.                                                             *)

Dial ==
  /\ calls < MaxCalls /\ rtspOpen
  /\ calls' = calls + 1
  /\ conn' = [conn EXCEPT ![Rtsp(calls + 1)] = "up"]
  /\ rtspQueue' = Append(rtspQueue, Rtsp(calls + 1))
  /\ UNCHANGED <<mirrorQueue, serverVars, numVars, slotVars, threadVars, lockVars, acceptor>>

\* After the answer to RECORD.
OpenMirror(c) ==
  /\ c \in Mirroring
  /\ \E s \in Slots : rtspAt[s] = "recording" /\ fd[s] = Rtsp(c)
  /\ conn[Rtsp(c)] = "up" /\ conn[Mirror(c)] = "none" /\ mirrorOpen
  /\ conn' = [conn EXCEPT ![Mirror(c)] = "up"]
  /\ mirrorQueue' = Append(mirrorQueue, Mirror(c))
  /\ UNCHANGED <<calls, rtspQueue, serverVars, numVars, slotVars, threadVars, lockVars, acceptor>>

\* The phone ends a connection, or resets it, and TCP has told the daemon.  Nothing makes
\* a phone do so: one that vanishes leaves its connections up for good, as they have
\* neither keep-alive nor timeout.  One in the backlog can be accepted afterwards.
HangUp(k) ==
  /\ conn[k] = "up"
  /\ conn' = [conn EXCEPT ![k] = "gone"]
  /\ UNCHANGED <<calls, rtspQueue, mirrorQueue, serverVars, numVars, slotVars, threadVars,
                 lockVars, acceptor>>

\* rtsp_accept_thread at its test of srv->running.
Again == [at |-> IF serving THEN "accept" ELSE "done", conn |-> NoOne, slot |-> 0]

-----------------------------------------------------------------------------
(* airplay_server_start, in the daemon's airplay thread.                   *)

Start ==
  /\ starter = "new"
  /\ starter' = "registering"
  /\ serving' = TRUE
  /\ UNCHANGED <<phoneVars, rtspOpen, mirrorOpen, stop, numVars, slotVars, threadVars, lockVars,
                 acceptor>>

\* After the mDNS registration: the accept thread.
StartAccepting ==
  /\ starter = "registering"
  /\ starter' = "up"
  /\ acceptor' = Again
  /\ UNCHANGED <<phoneVars, serving, rtspOpen, mirrorOpen, stop, numVars, slotVars, threadVars,
                 lockVars>>

-----------------------------------------------------------------------------
(* rtsp_accept_thread.                                                     *)

AcceptRtsp ==
  /\ acceptor.at = "accept" /\ rtspQueue # <<>>
  /\ acceptor' = [acceptor EXCEPT !.at = "place", !.conn = Head(rtspQueue)]
  /\ rtspQueue' = Tail(rtspQueue)
  /\ NumberFor(Head(rtspQueue))
  /\ UNCHANGED <<calls, conn, mirrorQueue, serverVars, slotVars, threadVars, lockVars>>

\* The listener has been closed.  Should `running` be set, accept() fails again and again.
AcceptFails ==
  /\ acceptor.at = "accept" /\ ~rtspOpen
  /\ ~serving
  /\ acceptor' = Again
  /\ UNCHANGED <<phoneVars, serverVars, numVars, slotVars, threadVars, lockVars>>

Free == {s \in Slots : ~slot[s].active}

\* find_free_session: the first one.
FirstFree == CHOOSE s \in Free : \A t \in Free : s <= t

\* Under sessions_lock: zero the slot and fill it in.
Place ==
  /\ acceptor.at = "place" /\ sessionsLock = Unlocked
  /\ Free # {}
  /\ slot' = [slot EXCEPT ![FirstFree] = [active |-> TRUE, rtsp |-> acceptor.conn, mirror |-> NoOne]]
  /\ acceptor' = [acceptor EXCEPT !.at = "spawn", !.slot = FirstFree]
  /\ UNCHANGED <<phoneVars, serverVars, numVars, fd, mirrorFd, threadVars, lockVars>>

\* Mutation of Reject: sessions_lock is not released on this path.
RejectLocked ==
  /\ acceptor.at = "place" /\ sessionsLock = Unlocked
  /\ Free = {}
  /\ Close({acceptor.conn}, FALSE)
  /\ acceptor' = Again
  /\ sessionsLock' = Stopper
  /\ UNCHANGED <<calls, rtspQueue, mirrorQueue, serverVars, isZero, slotVars, threadVars, cleaning,
                 acceptLock>>

Reject ==
  /\ acceptor.at = "place" /\ sessionsLock = Unlocked
  /\ Free = {}
  /\ Close({acceptor.conn}, FALSE)
  /\ acceptor' = Again
  /\ UNCHANGED <<calls, rtspQueue, mirrorQueue, serverVars, isZero, slotVars, threadVars,
                 lockVars>>

Spawn ==
  /\ acceptor.at = "spawn"
  /\ rtspAt' = [rtspAt EXCEPT ![acceptor.slot] = "init"]
  /\ acceptor' = Again
  /\ UNCHANGED <<phoneVars, serverVars, numVars, slotVars, mirrorAt, lockVars>>

-----------------------------------------------------------------------------
(* rtsp_handler_thread.                                                    *)

\* rtsp_session_init succeeds, and the mirror thread is started; or it fails.
InitSession(s) ==
  /\ rtspAt[s] = "init"
  /\ \/ /\ rtspAt' = [rtspAt EXCEPT ![s] = "serving"]
        /\ mirrorAt' = [mirrorAt EXCEPT ![s] = "lock"]
     \/ /\ rtspAt' = [rtspAt EXCEPT ![s] = "leaving"]
        /\ UNCHANGED mirrorAt
  /\ fd' = [fd EXCEPT ![s] = slot[s].rtsp]
  /\ UNCHANGED <<phoneVars, serverVars, numVars, slot, mirrorFd, lockVars, acceptor>>

\* rtsp_session_handle reads a RECORD.
Record(s) ==
  /\ rtspAt[s] = "serving" /\ ~Ended(fd[s])
  /\ rtspAt' = [rtspAt EXCEPT ![s] = "recording"]
  /\ UNCHANGED <<phoneVars, serverVars, numVars, slotVars, mirrorAt, lockVars, acceptor>>

\* Its loop ends: on a TEARDOWN, when the connection is over, or without one.
EndSession(s, atOnce) ==
  /\ rtspAt[s] \in {"serving", "recording"}
  /\ ~atOnce => Ended(fd[s])
  /\ rtspAt' = [rtspAt EXCEPT ![s] = "joining"]
  /\ UNCHANGED <<phoneVars, serverVars, numVars, slotVars, mirrorAt, lockVars, acceptor>>

Disconnected(s) == EndSession(s, FALSE)
Teardown(s)     == EndSession(s, TRUE)

\* Mutation of JoinMirror: the mirror thread is not waited for.
JoinNothing(s) ==
  /\ rtspAt[s] = "joining"
  /\ rtspAt' = [rtspAt EXCEPT ![s] = "leaving"]
  /\ UNCHANGED <<phoneVars, serverVars, numVars, slotVars, mirrorAt, lockVars, acceptor>>

JoinMirror(s) ==
  /\ rtspAt[s] = "joining" /\ mirrorAt[s] = "returned"
  /\ rtspAt' = [rtspAt EXCEPT ![s] = "leaving"]
  /\ mirrorAt' = [mirrorAt EXCEPT ![s] = "none"]
  /\ UNCHANGED <<phoneVars, serverVars, numVars, slotVars, lockVars, acceptor>>

Leave(s) ==
  /\ rtspAt[s] = "leaving" /\ sessionsLock = Unlocked
  /\ rtspAt' = [rtspAt EXCEPT ![s] = "cleanup"]
  /\ sessionsLock' = s
  /\ cleaning' = [slot |-> s, step |-> 1]
  /\ UNCHANGED <<phoneVars, serverVars, numVars, slotVars, mirrorAt, acceptLock, acceptor>>

-----------------------------------------------------------------------------
(* session_cleanup, by the session's own thread or by the stop.            *)

\* rtsp.rtsp_fd: 0 before rtsp_session_init, -1 outside rtsp_session_handle.
InHandle(s) == rtspAt[s] \in {"serving", "recording"}

\* rtsp_session_destroy; then the first close of the audio context, data_sock.
CleanupCloses ==
  /\ cleaning.step = 1
  /\ LET s == cleaning.slot IN Close(IF InHandle(s) THEN {fd[s]} \ {NoOne} ELSE {}, TRUE)
  /\ cleaning' = [cleaning EXCEPT !.step = 2]
  /\ UNCHANGED <<calls, rtspQueue, mirrorQueue, serverVars, isZero, slotVars, threadVars,
                 sessionsLock, acceptLock, acceptor>>

\* Mutation of FreeSlot: the client descriptors stay open.
FreeSlotKeepFds(s) == Close({}, TRUE) /\ slot' = [slot EXCEPT ![s] = NoSession]

\* The second, control_sock; the client descriptors; the slot is free.
FreeSlot(s) ==
  /\ Close({slot[s].rtsp, slot[s].mirror} \ {NoOne}, TRUE)
  /\ slot' = [slot EXCEPT ![s] = NoSession]

CleanupEnds ==
  /\ cleaning.step = 2 /\ sessionsLock \in Slots
  /\ FreeSlot(cleaning.slot)
  /\ fd' = [fd EXCEPT ![cleaning.slot] = NoOne]
  /\ rtspAt' = [rtspAt EXCEPT ![cleaning.slot] = "none"]
  /\ sessionsLock' = Unlocked
  /\ cleaning' = NotCleaning
  /\ UNCHANGED <<calls, rtspQueue, mirrorQueue, serverVars, isZero, mirrorFd, mirrorAt,
                 acceptLock, acceptor>>

-----------------------------------------------------------------------------
(* mirror_handler_thread.                                                  *)

LockAccept(s) ==
  /\ mirrorAt[s] = "lock" /\ acceptLock = Unlocked
  /\ mirrorAt' = [mirrorAt EXCEPT ![s] = "accept"]
  /\ acceptLock' = s
  /\ UNCHANGED <<phoneVars, serverVars, numVars, slotVars, rtspAt, sessionsLock, cleaning,
                 acceptor>>

\* accept() with mirror_accept_lock held: the next connection, whoever's it is.
AcceptMirror(s) ==
  /\ mirrorAt[s] = "accept" /\ mirrorQueue # <<>>
  /\ mirrorAt' = [mirrorAt EXCEPT ![s] = "streaming"]
  /\ mirrorFd' = [mirrorFd EXCEPT ![s] = Head(mirrorQueue)]
  /\ slot' = [slot EXCEPT ![s].mirror = Head(mirrorQueue)]
  /\ mirrorQueue' = Tail(mirrorQueue)
  /\ NumberFor(Head(mirrorQueue))
  /\ acceptLock' = Unlocked
  /\ UNCHANGED <<calls, conn, rtspQueue, serverVars, fd, rtspAt, sessionsLock, cleaning, acceptor>>

AcceptMirrorFails(s) ==
  /\ mirrorAt[s] = "accept" /\ ~mirrorOpen
  /\ mirrorAt' = [mirrorAt EXCEPT ![s] = "returned"]
  /\ acceptLock' = Unlocked
  /\ UNCHANGED <<phoneVars, serverVars, numVars, slotVars, rtspAt, sessionsLock, cleaning,
                 acceptor>>

\* airplay_mirror_handle_connection returns: when the connection is over, or at a packet it
\* refuses.
EndStream(s, atOnce) ==
  /\ mirrorAt[s] = "streaming"
  /\ ~atOnce => Ended(mirrorFd[s])
  /\ Close({mirrorFd[s]}, FALSE)
  /\ mirrorAt' = [mirrorAt EXCEPT ![s] = "returned"]
  /\ mirrorFd' = [mirrorFd EXCEPT ![s] = NoOne]
  /\ slot' = [slot EXCEPT ![s].mirror = NoOne]
  /\ UNCHANGED <<calls, rtspQueue, mirrorQueue, serverVars, isZero, fd, rtspAt, lockVars,
                 acceptor>>

StreamEnds(s) == EndStream(s, FALSE)
BadPacket(s)  == EndStream(s, TRUE)

-----------------------------------------------------------------------------
(* airplay_server_stop, in main, and the exit that waits for the acceptor. *)

StopGoes(at, s) == stop' = [at |-> at, slot |-> s]

StopBegins ==
  /\ stop.at = "no" /\ StopGoes("rtsp", 0)
  /\ serving' = FALSE
  /\ UNCHANGED <<phoneVars, rtspOpen, mirrorOpen, starter, numVars, slotVars, threadVars, lockVars,
                 acceptor>>

CloseRtspListener ==
  /\ stop.at = "rtsp" /\ StopGoes("mirror", 0)
  /\ rtspOpen' = FALSE
  /\ conn' = Closed({rtspQueue[i] : i \in 1 .. Len(rtspQueue)}) /\ rtspQueue' = <<>>
  /\ UNCHANGED <<calls, mirrorQueue, serving, mirrorOpen, starter, numVars, slotVars, threadVars,
                 lockVars, acceptor>>

\* Mutation of CloseMirrorListener: only the RTSP listener is closed.
KeepMirrorListener ==
  /\ stop.at = "mirror" /\ StopGoes("slots", 1)
  /\ UNCHANGED <<phoneVars, serving, rtspOpen, mirrorOpen, starter, numVars, slotVars, threadVars,
                 lockVars, acceptor>>

CloseMirrorListener ==
  /\ stop.at = "mirror" /\ StopGoes("slots", 1)
  /\ mirrorOpen' = FALSE
  /\ conn' = Closed({mirrorQueue[i] : i \in 1 .. Len(mirrorQueue)}) /\ mirrorQueue' = <<>>
  /\ UNCHANGED <<calls, rtspQueue, serving, rtspOpen, starter, numVars, slotVars, threadVars,
                 lockVars, acceptor>>

\* `active` and rtsp_client_fd are read without sessions_lock.
StopShutsDown ==
  /\ stop.at = "slots" /\ stop.slot \in Slots
  /\ IF slot[stop.slot].active
       THEN StopGoes("join", stop.slot) /\ conn' = Closed({Denotes(slot[stop.slot].rtsp)})
       ELSE StopGoes("slots", stop.slot + 1) /\ UNCHANGED conn
  /\ UNCHANGED <<calls, rtspQueue, mirrorQueue, serving, rtspOpen, mirrorOpen, starter, numVars,
                 slotVars, threadVars, lockVars, acceptor>>

\* pthread_join of a zeroed pthread_t while the thread is still to be created.
StopJoins ==
  /\ stop.at = "join"
  /\ \/ acceptor.at = "spawn" /\ acceptor.slot = stop.slot /\ StopGoes("crashed", 0)
     \/ /\ ~(acceptor.at = "spawn" /\ acceptor.slot = stop.slot)
        /\ rtspAt[stop.slot] = "none"
        /\ StopGoes("slots", stop.slot + 1)
  /\ UNCHANGED <<phoneVars, serving, rtspOpen, mirrorOpen, starter, numVars, slotVars, threadVars,
                 lockVars, acceptor>>

StopLocks ==
  /\ stop.at = "slots" /\ stop.slot \notin Slots /\ sessionsLock = Unlocked
  /\ StopGoes("clean", 1)
  /\ sessionsLock' = Stopper
  /\ UNCHANGED <<phoneVars, serving, rtspOpen, mirrorOpen, starter, numVars, slotVars, threadVars,
                 cleaning, acceptLock, acceptor>>

StopCleans ==
  /\ stop.at = "clean" /\ cleaning.slot = 0 /\ stop.slot \in Slots
  /\ IF slot[stop.slot].active
       THEN cleaning' = [slot |-> stop.slot, step |-> 1] /\ UNCHANGED stop
       ELSE StopGoes("clean", stop.slot + 1) /\ UNCHANGED cleaning
  /\ UNCHANGED <<phoneVars, serving, rtspOpen, mirrorOpen, starter, numVars, slotVars, threadVars,
                 sessionsLock, acceptLock, acceptor>>

StopFrees ==
  /\ cleaning.step = 2 /\ sessionsLock = Stopper
  /\ FreeSlot(cleaning.slot)
  /\ cleaning' = NotCleaning
  /\ UNCHANGED <<calls, rtspQueue, mirrorQueue, serverVars, isZero, fd, mirrorFd, threadVars,
                 sessionsLock, acceptLock, acceptor>>

StopEnds ==
  /\ stop.at = "clean" /\ cleaning.slot = 0 /\ stop.slot \notin Slots
  /\ StopGoes("done", 0)
  /\ sessionsLock' = Unlocked
  /\ UNCHANGED <<phoneVars, serving, rtspOpen, mirrorOpen, starter, numVars, slotVars, threadVars,
                 cleaning, acceptLock, acceptor>>

\* main joins the airplay thread, which waits for the acceptor.
Exit ==
  /\ stop.at = "done" /\ acceptor.at = "done"
  /\ StopGoes("exited", 0)
  /\ UNCHANGED <<phoneVars, serving, rtspOpen, mirrorOpen, starter, numVars, slotVars, threadVars,
                 lockVars, acceptor>>

-----------------------------------------------------------------------------
Phones == Dial \/ \E c \in Calls : OpenMirror(c) \/ HangUp(Rtsp(c)) \/ HangUp(Mirror(c))
AcceptThread == AcceptRtsp \/ AcceptFails \/ Place \/ Reject \/ Spawn
RtspThread(s) == InitSession(s) \/ Disconnected(s) \/ JoinMirror(s) \/ Leave(s)
Cleanup == CleanupCloses \/ CleanupEnds
MirrorThread(s) == LockAccept(s) \/ AcceptMirror(s) \/ AcceptMirrorFails(s) \/ StreamEnds(s)
StopCall ==
  \/ CloseRtspListener \/ CloseMirrorListener \/ StopShutsDown \/ StopJoins \/ StopLocks
  \/ StopCleans \/ StopFrees \/ StopEnds \/ Exit

\* The daemon's threads.
Handlers ==
  \/ Start \/ StartAccepting \/ AcceptThread \/ Cleanup \/ StopCall
  \/ \E s \in Slots : RtspThread(s) \/ MirrorThread(s)

Alive == stop.at \notin {"crashed", "exited"}

ServerNext ==
  /\ Alive
  /\ \/ Phones \/ Handlers \/ StopBegins
     \/ \E s \in Slots : Record(s) \/ Teardown(s) \/ BadPacket(s)

\* Every thread of the daemon runs.  Each takes a bounded number of steps here, so that
\* weak fairness of them together is weak fairness of each.  Of the phones nothing is
\* assumed.
Fairness == WF_airPlayVars(Alive /\ Handlers)

ServerSpec == ServerInit /\ [][ServerNext]_airPlayVars /\ Fairness

-----------------------------------------------------------------------------
(* Properties.                                                             *)

\* rtsp_accept_thread zeroes a slot for a new session only when both threads of the
\* session before are over: they would go on with pointers into it.
ReuseAfterThreads ==
  [][\A s \in Slots : ~slot[s].active /\ slot'[s].active =>
       rtspAt[s] = "none" /\ mirrorAt[s] = "none"]_airPlayVars

\* A connection that is still up waits in a backlog, is in the acceptor's hands, or is the
\* one a slot's thread reads: none is forgotten, whichever way sessions end.
NothingLeaks ==
  \A k \in Conns : conn[k] = "up" =>
    \/ \E i \in 1 .. Len(rtspQueue) : rtspQueue[i] = k
    \/ \E i \in 1 .. Len(mirrorQueue) : mirrorQueue[i] = k
    \/ acceptor.conn = k
    \/ \E s \in Slots : slot[s].rtsp = k \/ (rtspAt[s] # "none" /\ fd[s] = k)
    \/ \E s \in Slots : mirrorAt[s] = "streaming" /\ mirrorFd[s] = k

\* A thread of the slot waits in recv() on a connection that its phone keeps up.
Held(s) ==
  \/ mirrorAt[s] = "streaming" /\ ~Ended(mirrorFd[s])
  \/ rtspAt[s] \in {"serving", "recording"} /\ ~Ended(fd[s])

\* No phone keeps its connection up, and silent, for ever.  The code cannot enforce it: the
\* connections have no keep-alive and no timeout (airplay_server.c:169, airplay_rtsp.c:740),
\* and the stop shuts down only the RTSP connection that it finds in a slot, never the
\* mirror connection (airplay_server.c:449-452).
PhonesLetGo == \A s \in Slots : []<>~Held(s)

\* A session that has ended while its mirror stream runs gives its slot back, whatever the
\* other session, the acceptor and the stop are doing, unless a phone holds a connection.
SlotComesBack ==
  PhonesLetGo =>
    \A s \in Slots : rtspAt[s] = "joining" /\ mirrorAt[s] = "streaming" ~> rtspAt[s] = "none" \/ ~Alive

\* A stop that begins after airplay_server_start has set `running` lets the daemon exit,
\* whatever its sessions are doing (or crashes, see StopJoins), unless a phone holds a
\* connection.
StopLetsExit ==
  PhonesLetGo => (stop.at = "rtsp" /\ starter # "new" /\ ~serving ~> ~Alive)

\* airplay_server.h:147-148: "Stop the server gracefully.  Disconnects all sessions".
StopDisconnectsAll == stop.at = "rtsp" /\ starter # "new" /\ ~serving ~> ~Alive
=============================================================================
