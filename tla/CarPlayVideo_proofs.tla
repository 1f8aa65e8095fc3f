------------------------- MODULE CarPlayVideo_proofs -------------------------
(***************************************************************************)
(* Proofs about the connection to the compositor, for any number of mirror  *)
(* threads, descriptors, frames and restarts: the daemon's open connections *)
(* are the ones it knows but for those closed as descriptor 0, only the     *)
(* holder of the mutex writes, the compositor stays in step, every variable *)
(* keeps its type, and no frame is shown that its phone has not sent.       *)
(*                                                                          *)
(* Which thread owns a connection depends on where each thread is (at),     *)
(* what it has opened (new) and which ends are open (ours) only: the frames *)
(* and what the sockets hold need no type for it.  They do for the second   *)
(* half, which rests on the first: a frame is whole because its writer is   *)
(* alone.                                                                   *)
(***************************************************************************)
EXTENDS CarPlayVideo, TLAPS

Places == {"parse", "lock", "header", "payload", "connect", "install", "done"}
Sending == {"header", "payload"}

\* The parts of the state that ownership depends on, and their types.
ThreadShape ==
  /\ DOMAIN thr = Threads
  /\ \A t \in Threads : /\ DOMAIN thr[t] = {"at", "frame", "left", "tries", "new"}
                        /\ thr[t].at \in Places
                        /\ thr[t].new \in Sockets \cup {None}

ConnShape ==
  /\ DOMAIN conn = Sockets
  /\ \A c \in Sockets : DOMAIN conn[c] = {"ours", "peer", "data"} /\ conn[c].ours \in BOOLEAN

LinkType ==
  fd \in Sockets \cup {None} /\ mutex \in Threads \cup {None} /\ boot \in 0..MaxTries

Shape == ThreadShape /\ ConnShape /\ LinkType

\* A thread writes only under the mutex, and to a connection.
Writer == \A t \in Threads : /\ thr[t].at \in Sending <=> mutex = t
                             /\ thr[t].at \in Sending => fd # None

\* While main may still connect, no thread has a connection or makes one:
\* main stores its own without the mutex and without a look at g_compositor_fd.
Boot == boot > 0 => fd = None /\ \A t \in Threads : thr[t].at \in {"parse", "lock", "done"}

\* A connection being installed is nobody else's.
New == \A t \in Threads :
         thr[t].new # None => /\ thr[t].at = "install" /\ thr[t].new # fd
                              /\ \A u \in Threads : thr[u].new = thr[t].new => u = t

\* The open ends are g_compositor_fd and the connections being installed.
Owned == \A c \in Sockets : conn[c].ours <=> fd = c \/ \E t \in Threads : thr[t].new = c

\* One thread at a time connects anew, and there is no connection meanwhile:
\* the branch of compositor_send_video that closes the new connection because
\* "another thread reconnected first" is never taken.
Reconnecting == {"connect", "install"}

OneReconnects ==
  \A t \in Threads : thr[t].at \in Reconnecting =>
    fd = None /\ \A u \in Threads : thr[u].at \in Reconnecting => u = t

IInv == Shape /\ Writer /\ Boot /\ New /\ OneReconnects /\ Owned

\* What descriptor 0 stands for: an open connection, and one that was not closed
\* as 0 before, when it is a connection at all.  A connection closed beneath the
\* daemon is still one of its own, as it does not know.
ZeroInv == /\ zero \in Sockets \cup {None, Other}
           /\ beneath \subseteq {c \in Sockets : conn[c].ours}
           /\ zero \in Sockets => conn[zero].ours /\ zero \notin beneath

-----------------------------------------------------------------------------
\* What an action does to a thread: t moves to place p and holds n, the others
\* stay as they are.
Moves(t, p, n) ==
  /\ DOMAIN thr' = Threads
  /\ \A u \in Threads : /\ DOMAIN thr'[u] = {"at", "frame", "left", "tries", "new"}
                        /\ thr'[u].at = IF u = t THEN p ELSE thr[u].at
                        /\ thr'[u].new = IF u = t THEN n ELSE thr[u].new

\* What an action does to the daemon's ends of the connections: those of
\* "opened" are open after it, those of "closed" not.
Ends(opened, closed) ==
  /\ DOMAIN conn' = Sockets
  /\ \A c \in Sockets : /\ DOMAIN conn'[c] = {"ours", "peer", "data"}
                        /\ conn'[c].ours = IF c \in opened THEN TRUE
                                           ELSE IF c \in closed THEN FALSE ELSE conn[c].ours

\* The invariant says what DescriptorsMatch says, with a thread for each
\* connection being installed.
LEMMA OwnedMatch == Shape /\ Owned /\ ZeroInv => DescriptorsMatch
<1> SUFFICES ASSUME Shape, Owned, ZeroInv PROVE DescriptorsMatch
  OBVIOUS
<1> DEFINE held == ({fd} \cup {thr[t].new : t \in Threads}) \ {None}
<1>1. \A c \in Sockets : c \in held <=> conn[c].ours
  BY BoundAssumption DEF Owned
<1>2. held \subseteq Sockets
  BY DEF Shape, ThreadShape, LinkType
<1>3. beneath \subseteq {c \in Sockets : conn[c].ours}
  BY DEF ZeroInv
<1> HIDE DEF held
<1>4. {c \in Sockets : conn[c].ours} \ beneath = held \ beneath /\ beneath \subseteq held
  BY <1>1, <1>2, <1>3
<1> QED
  BY <1>4 DEF held, DescriptorsMatch

\* The daemon starts without a connection.
LEMMA InitIInv == Init => IInv
<1> SUFFICES ASSUME Init PROVE IInv
  OBVIOUS
<1>1. /\ thr = [t \in Threads |-> Quiet] /\ conn = [c \in Sockets |-> NoConn]
      /\ fd = None /\ mutex = None /\ boot = MaxTries
  BY DEF Init
<1>2. Shape
  <2>1. ThreadShape
    BY <1>1 DEF ThreadShape, Quiet, Places
  <2>2. ConnShape
    BY <1>1 DEF ConnShape, NoConn
  <2>3. LinkType
    BY <1>1, BoundAssumption DEF LinkType
  <2> QED
    BY <2>1, <2>2, <2>3 DEF Shape
<1>3. Writer /\ Boot /\ New /\ OneReconnects
  BY <1>1, BoundAssumption DEF Writer, Boot, New, OneReconnects, Reconnecting, Quiet, Sending
<1>4. Owned
  BY <1>1, BoundAssumption DEF Owned, Quiet, NoConn
<1> QED
  BY <1>2, <1>3, <1>4 DEF IInv

\* Closing the daemon's end of a connection leaves a record of which "ours"
\* is false.
LEMMA CloseOursEnds ==
  ASSUME ConnShape, NEW c \in Sockets
  PROVE  DOMAIN CloseOurs(c) = {"ours", "peer", "data"} /\ CloseOurs(c).ours = FALSE
BY DEF ConnShape, CloseOurs, NoConn

-----------------------------------------------------------------------------
(* The mirror threads keep the invariant.                                   *)

\* Reading the stream, and the end of a session, move a thread between places
\* that own nothing.
LEMMA ReadKeeps ==
  ASSUME IInv, NEW t \in Threads, ReadPacket(t) \/ Cleanup(t) PROVE IInv'
<1>1. PICK p \in {"parse", "lock", "done"} : Moves(t, p, thr[t].new)
  BY DEF IInv, Shape, ThreadShape, ReadPacket, Cleanup, Moves
<1>2. thr[t].at \in {"parse", "done"} /\ UNCHANGED <<fd, mutex, boot, conn>>
  BY DEF ReadPacket, Cleanup, link
<1>3. Shape'
  BY <1>1, <1>2 DEF IInv, Shape, ThreadShape, ConnShape, LinkType, Moves, Places
<1>4. Writer' /\ Boot' /\ New' /\ OneReconnects'
  BY <1>1, <1>2 DEF IInv, Writer, Boot, New, Moves, Sending, OneReconnects, Reconnecting
<1>5. Owned'
  BY <1>1, <1>2 DEF IInv, Owned, Moves
<1> QED
  BY <1>3, <1>4, <1>5 DEF IInv

LEMMA LockKeeps == ASSUME IInv, NEW t \in Threads, Lock(t) PROVE IInv'
<1>1. /\ thr[t].at = "lock" /\ mutex = None /\ UNCHANGED <<fd, boot, conn>>
      /\ \/ fd = None /\ Moves(t, "parse", None) /\ UNCHANGED mutex
         \/ fd # None /\ Moves(t, "header", thr[t].new) /\ mutex' = t
  BY DEF IInv, Shape, ThreadShape, Lock, Moves, Quiet
<1>2. thr[t].new = None
  BY <1>1 DEF IInv, New
<1>3. Shape'
  BY <1>1, <1>2 DEF IInv, Shape, ThreadShape, ConnShape, LinkType, Moves, Places
<1>4. Writer'
  BY <1>1, BoundAssumption DEF IInv, Writer, Moves, Sending
<1>5. Boot' /\ New' /\ OneReconnects'
  BY <1>1, <1>2 DEF IInv, Boot, New, Moves, OneReconnects, Reconnecting
<1>6. Owned'
  BY <1>1, <1>2 DEF IInv, Owned, Moves
<1> QED
  BY <1>3, <1>4, <1>5, <1>6 DEF IInv

\* A write that goes to another file than a connection, and succeeds.
WroteElsewhere(t) ==
  /\ thr[t].at \in Sending /\ UNCHANGED <<phone, fd, boot, conn, numbers, compositor>>
  /\ IF thr[t].at = "header"
     THEN thr' = [thr EXCEPT ![t].at = "payload", ![t].left = Payload] /\ UNCHANGED mutex
     ELSE thr' = [thr EXCEPT ![t] = Quiet] /\ mutex' = None

LEMMA ElsewhereIs ==
  ASSUME NEW t \in Threads, WriteElsewhere(t)
  PROVE  /\ thr[t].at \in Sending /\ Referent = Other
         /\ GivesUp(t) \/ WroteElsewhere(t)
BY DEF WriteElsewhere, WroteElsewhere, Sending

\* A write that succeeds opens and closes nothing.
LEMMA WriteKeeps ==
  ASSUME IInv, NEW t \in Threads, WriteHeader(t) \/ WritePayload(t) \/ WroteElsewhere(t)
  PROVE  IInv'
<1>1. /\ thr[t].at \in Sending /\ UNCHANGED <<fd, boot>>
      /\ \/ Moves(t, "parse", None) /\ mutex' = None
         \/ Moves(t, "payload", thr[t].new) /\ UNCHANGED mutex
  <2>1. CASE WriteHeader(t)
    BY <2>1 DEF IInv, Shape, ThreadShape, WriteHeader, Moves, Sending
  <2>2. CASE WritePayload(t)
    <3>1. thr[t].at = "payload" /\ UNCHANGED <<fd, boot>>
      BY <2>2 DEF WritePayload
    <3>2. PICK k \in 1..thr[t].left :
            \/ thr' = [thr EXCEPT ![t] = Quiet] /\ mutex' = None
            \/ thr' = [thr EXCEPT ![t].left = @ - k] /\ UNCHANGED mutex
      BY <2>2 DEF WritePayload
    <3> QED
      BY <3>1, <3>2 DEF IInv, Shape, ThreadShape, Moves, Quiet, Sending
  <2>3. CASE WroteElsewhere(t)
    BY <2>3 DEF IInv, Shape, ThreadShape, WroteElsewhere, Moves, Quiet, Sending
  <2> QED
    BY <2>1, <2>2, <2>3
<1>2. Ends({}, {})
  BY DEF IInv, Shape, ConnShape, WriteHeader, WritePayload, WroteElsewhere, Write, Ends
<1>3. thr[t].new = None
  BY <1>1 DEF IInv, New, Sending
<1>4. Shape'
  BY <1>1, <1>2, <1>3 DEF IInv, Shape, ThreadShape, ConnShape, LinkType, Moves, Ends, Places
<1>5. Writer'
  BY <1>1, BoundAssumption DEF IInv, Writer, Moves, Sending
<1>6. Boot' /\ New' /\ OneReconnects'
  BY <1>1, <1>3 DEF IInv, Boot, New, Moves, Sending, OneReconnects, Reconnecting
<1>7. Owned'
  BY <1>1, <1>2, <1>3 DEF IInv, Owned, Moves, Ends
<1> QED
  BY <1>4, <1>5, <1>6, <1>7 DEF IInv

\* After EPIPE the only end that closes by its own name is g_compositor_fd's,
\* which no other thread is installing.
LEMMA GivesUpKeeps ==
  ASSUME IInv, NEW t \in Threads, thr[t].at \in Sending, GivesUp(t) PROVE IInv'
<1>1. /\ thr[t].at \in Sending /\ fd' = None /\ mutex' = None /\ UNCHANGED boot
      /\ Moves(t, "connect", None)
  BY DEF IInv, Shape, ThreadShape, GivesUp, Moves, Quiet
<1>2. fd \in Sockets /\ mutex = t /\ thr[t].new = None /\ ~(boot > 0)
  BY <1>1 DEF IInv, Shape, LinkType, Writer, New, Boot, Sending
<1>3. Ends({}, {fd})
  BY <1>2, CloseOursEnds DEF IInv, Shape, ConnShape, GivesUp, Ends
<1>4. Shape'
  BY <1>1, <1>2, <1>3 DEF IInv, Shape, ThreadShape, ConnShape, LinkType, Moves, Ends, Places
<1>5. Writer'
  BY <1>1, <1>2, BoundAssumption DEF IInv, Writer, Moves, Sending
<1>6. Boot' /\ New' /\ OneReconnects'
  <2>1. \A u \in Threads : thr[u].at \notin Reconnecting
    BY <1>2, BoundAssumption DEF IInv, OneReconnects
  <2> QED
    BY <1>1, <1>2, <2>1 DEF IInv, Boot, New, Moves, Sending, OneReconnects, Reconnecting
<1>7. Owned'
  <2> SUFFICES ASSUME NEW c \in Sockets
               PROVE  conn'[c].ours <=> fd' = c \/ \E u \in Threads : thr'[u].new = c
    BY DEF Owned
  <2>1. c # None /\ fd' # c
    BY <1>1, BoundAssumption
  <2>2. (\E u \in Threads : thr'[u].new = c) <=> \E u \in Threads : thr[u].new = c
    BY <1>1, <1>2, <2>1 DEF Moves
  <2>3. c = fd => ~\E u \in Threads : thr[u].new = c
    BY <2>1 DEF IInv, New
  <2> QED
    BY <1>3, <2>1, <2>2, <2>3 DEF IInv, Owned, Ends
<1> QED
  BY <1>4, <1>5, <1>6, <1>7 DEF IInv

\* A try of compositor_connect opens a connection that nobody has, or none.
LEMMA ConnectKeeps == ASSUME IInv, NEW t \in Threads, Connect(t) PROVE IInv'
<1>1. thr[t].at = "connect" /\ UNCHANGED <<fd, mutex, boot>> /\ thr[t].new = None /\ ~(boot > 0)
  BY DEF IInv, Connect, New, Boot
<1>2. CASE \E c \in Free : Connected(c) /\ thr' = [thr EXCEPT ![t].at = "install", ![t].new = c]
  <2>1. PICK c \in Free : Connected(c) /\ thr' = [thr EXCEPT ![t].at = "install", ![t].new = c]
    BY <1>2
  <2>2. c \in Sockets /\ c # None /\ conn[c].ours = FALSE
    BY BoundAssumption DEF Free, NoConn
  <2>3. Moves(t, "install", c) /\ Ends({c}, {})
    BY <2>1, <2>2 DEF IInv, Shape, ThreadShape, ConnShape, Connected, Moves, Ends
  <2>4. fd # c /\ \A u \in Threads : thr[u].new # c
    BY <2>2 DEF IInv, Owned
  <2>5. Shape'
    BY <1>1, <2>2, <2>3 DEF IInv, Shape, ThreadShape, ConnShape, LinkType, Moves, Ends, Places
  <2>6. Writer' /\ Boot'
    BY <1>1, <2>3 DEF IInv, Writer, Boot, Moves, Sending
  <2>7. New' /\ OneReconnects'
    BY <1>1, <2>2, <2>3, <2>4 DEF IInv, New, Moves, OneReconnects, Reconnecting
  <2>8. Owned'
    <3> SUFFICES ASSUME NEW d \in Sockets
                 PROVE  conn'[d].ours <=> fd' = d \/ \E u \in Threads : thr'[u].new = d
      BY DEF Owned
    <3>1. CASE d = c
      BY <2>3, <3>1 DEF Moves, Ends
    <3>2. CASE d # c
      <4>1. d # None
        BY BoundAssumption
      <4>2. (\E u \in Threads : thr'[u].new = d) <=> \E u \in Threads : thr[u].new = d
        BY <1>1, <2>3, <3>2, <4>1 DEF Moves
      <4> QED
        BY <1>1, <2>3, <3>2, <4>2 DEF IInv, Owned, Ends
    <3> QED
      BY <3>1, <3>2
  <2> QED
    BY <2>5, <2>6, <2>7, <2>8 DEF IInv
<1>3. CASE /\ UNCHANGED conn
           /\ \/ thr' = [thr EXCEPT ![t].tries = @ - 1,
                                    ![t].at = IF thr[t].tries = 1 THEN "install" ELSE "connect"]
              \/ thr' = [thr EXCEPT ![t].at = "install"]
  <2>1. PICK p \in {"install", "connect"} : Moves(t, p, None)
    BY <1>1, <1>3 DEF IInv, Shape, ThreadShape, Moves
  <2>2. Shape'
    BY <1>1, <1>3, <2>1 DEF IInv, Shape, ThreadShape, ConnShape, LinkType, Moves, Places
  <2>3. Writer' /\ Boot' /\ New' /\ OneReconnects'
    BY <1>1, <2>1 DEF IInv, Writer, Boot, New, Moves, Sending, OneReconnects, Reconnecting
  <2>4. Owned'
    BY <1>1, <1>3, <2>1 DEF IInv, Owned, Moves
  <2> QED
    BY <2>2, <2>3, <2>4 DEF IInv
<1> QED
  BY <1>2, <1>3 DEF Connect, numbers

\* What was being installed becomes g_compositor_fd: there is none to close,
\* because nobody else has connected.
LEMMA InstallKeeps == ASSUME IInv, NEW t \in Threads, Install(t) PROVE IInv'
<1>1. /\ thr[t].at = "install" /\ mutex = None /\ UNCHANGED <<mutex, boot>> /\ ~(boot > 0)
      /\ Moves(t, "parse", None)
  BY DEF IInv, Shape, ThreadShape, Install, Boot, Moves, Quiet
<1>2. fd = None /\ \A u \in Threads : u # t => thr[u].at \notin Reconnecting
  BY <1>1 DEF IInv, OneReconnects, Reconnecting
<1>3. fd' = thr[t].new /\ UNCHANGED conn
  BY <1>2 DEF Install
<1>4. Shape'
  BY <1>1, <1>3 DEF IInv, Shape, ThreadShape, ConnShape, LinkType, Moves, Places
<1>5. Writer' /\ Boot'
  BY <1>1, BoundAssumption DEF IInv, Writer, Boot, Moves, Sending
<1>6. New' /\ OneReconnects'
  BY <1>1, <1>2, <1>3 DEF IInv, New, OneReconnects, Reconnecting, Moves
<1>7. Owned'
  BY <1>1, <1>2, <1>3, BoundAssumption DEF IInv, Owned, Moves
<1> QED
  BY <1>4, <1>5, <1>6, <1>7 DEF IInv

-----------------------------------------------------------------------------
(* main, the compositor and the restarts keep it.                           *)

\* main stores its connection while nobody else has one.
LEMMA BootKeeps == ASSUME IInv, BootConnect PROVE IInv'
<1>1. /\ boot > 0 /\ fd = None /\ UNCHANGED <<thr, mutex>> /\ boot' \in 0..MaxTries
      /\ \A t \in Threads : thr[t].new = None /\ thr[t].at \notin Sending
  BY BoundAssumption DEF IInv, Shape, LinkType, Boot, New, BootConnect, Sending
<1>2. CASE \E c \in Free : Connected(c) /\ fd' = c /\ boot' = 0
  <2>1. PICK c \in Free : Connected(c) /\ fd' = c /\ boot' = 0
    BY <1>2
  <2>2. c \in Sockets /\ c # None
    BY BoundAssumption DEF Free
  <2>3. Ends({c}, {})
    BY <2>1, <2>2 DEF IInv, Shape, ConnShape, Connected, Ends
  <2>4. Shape'
    BY <1>1, <2>1, <2>2, <2>3 DEF IInv, Shape, ThreadShape, ConnShape, LinkType, Ends
  <2>5. Writer' /\ Boot' /\ New' /\ OneReconnects'
    BY <1>1, <2>1, <2>2 DEF IInv, Writer, Boot, New, OneReconnects, Reconnecting
  <2>6. Owned'
    BY <1>1, <2>1, <2>2, <2>3, BoundAssumption DEF IInv, Owned, Ends
  <2> QED
    BY <2>4, <2>5, <2>6 DEF IInv
<1>3. CASE UNCHANGED <<conn, fd>>
  BY <1>1, <1>3 DEF IInv, Shape, ThreadShape, ConnShape, LinkType, Writer, Boot, New, OneReconnects,
     Owned
<1> QED
  BY <1>2, <1>3 DEF BootConnect, numbers

\* What the compositor does to a connection leaves the daemon's end as it is.
LEMMA CompositorKeeps ==
  ASSUME IInv, Ends({}, {}), UNCHANGED <<thr, fd, mutex, boot>> PROVE IInv'
BY DEF IInv, Shape, ThreadShape, ConnShape, LinkType, Writer, Boot, New, OneReconnects, Owned, Ends

LEMMA CompositorEnds ==
  ASSUME IInv, Receive \/ Crash PROVE Ends({}, {}) /\ UNCHANGED <<zero, beneath>>
<1>9. UNCHANGED numbers
  BY DEF Receive, Accept, RxHeader, RxPayload, RxEnd, Crash
<1>8. SUFFICES Ends({}, {})
  BY <1>9 DEF numbers
<1> USE DEF IInv, Shape, ConnShape, Ends
<1>1. CASE Accept
  BY <1>1 DEF Accept
<1>2. CASE Crash
  BY <1>2 DEF Crash, NoConn
<1>3. CASE Close(rx.conn)
  BY <1>3 DEF Close, NoConn
<1>4. CASE conn' = [conn EXCEPT ![rx.conn].data = Tail(@)]
  BY <1>4
<1> QED
  BY <1>1, <1>2, <1>3, <1>4 DEF Receive, RxHeader, RxPayload, RxEnd

\* The end of the daemon closes every end it had, and the next one starts anew.
LEMMA DaemonRestartKeeps == ASSUME IInv, DaemonRestart PROVE IInv'
<1>1. /\ thr' = [t \in Threads |-> Quiet] /\ fd' = None /\ mutex' = None /\ boot' = MaxTries
  BY DEF DaemonRestart
<1>2. Ends({}, Sockets)
  BY CloseOursEnds DEF IInv, Shape, ConnShape, DaemonRestart, Ends
<1>3. Shape'
  <2>1. ThreadShape'
    BY <1>1 DEF ThreadShape, Quiet, Places
  <2>2. ConnShape'
    BY <1>2 DEF ConnShape, Ends
  <2>3. LinkType'
    BY <1>1, BoundAssumption DEF LinkType
  <2> QED
    BY <2>1, <2>2, <2>3 DEF Shape
<1>4. Writer' /\ Boot' /\ New' /\ OneReconnects'
  BY <1>1, BoundAssumption DEF Writer, Boot, New, Quiet, Sending, OneReconnects, Reconnecting
<1>5. Owned'
  BY <1>1, <1>2, BoundAssumption DEF Owned, Quiet, Ends
<1> QED
  BY <1>3, <1>4, <1>5 DEF IInv

LEMMA NextIInv == IInv /\ [Next]_vars => IInv'
<1> SUFFICES ASSUME IInv, [Next]_vars PROVE IInv'
  OBVIOUS
<1>1. ASSUME NEW t \in Threads, ReadPacket(t) \/ Cleanup(t) \/ Send(t) \/ WriteElsewhere(t)
      PROVE  IInv'
  <2>1. CASE WriteFails(t) \/ WriteElsewhere(t)
    BY <2>1, ElsewhereIs, GivesUpKeeps, WriteKeeps DEF WriteFails, CannotWrite, Sending
  <2> QED
    BY <1>1, <2>1, ReadKeeps, LockKeeps, WriteKeeps, ConnectKeeps, InstallKeeps DEF Send
<1>2. CASE BootConnect
  BY <1>2, BootKeeps
<1>3. CASE Receive \/ Crash
  <2>1. UNCHANGED <<thr, fd, mutex, boot>>
    BY <1>3 DEF Receive, Accept, RxHeader, RxPayload, RxEnd, Crash
  <2> QED
    BY <1>3, <2>1, CompositorEnds, CompositorKeeps
<1>4. CASE DaemonRestart
  BY <1>4, DaemonRestartKeeps
<1>5. CASE UNCHANGED <<thr, fd, mutex, boot, conn>>
  BY <1>5 DEF IInv, Shape, ThreadShape, ConnShape, LinkType, Writer, Boot, New, OneReconnects,
     Owned
<1>6. CASE \/ OtherOpens \/ OtherCloses \/ Restart \/ UNCHANGED vars
           \/ \E t \in Threads : \E kind \in Kinds : SendPacket(t, kind)
  BY <1>5, <1>6 DEF OtherOpens, OtherCloses, Restart, vars, SendPacket, link
<1> QED
  BY <1>1, <1>2, <1>3, <1>4, <1>6 DEF Next

-----------------------------------------------------------------------------
(* Descriptor 0.                                                            *)

LEMMA InitZero == Init => ZeroInv
BY BoundAssumption DEF Init, ZeroInv

\* No end closes, and descriptor 0 is what it was.
LEMMA ZeroStays ==
  ASSUME ZeroInv, UNCHANGED <<zero, beneath>>, \A c \in Sockets : conn[c].ours => conn'[c].ours
  PROVE  ZeroInv'
BY DEF ZeroInv

\* A connection closed by its name: if it is not there any more, whatever is 0 by
\* then is closed beneath the daemon.
LEMMA ReleaseZero ==
  ASSUME IInv, ZeroInv, NEW c \in Sockets, conn' = [conn EXCEPT ![c] = CloseOurs(c)], Release(c)
  PROVE  ZeroInv'
<1>1. /\ \A d \in Sockets : d # c => conn'[d].ours = conn[d].ours
      /\ None \notin Sockets
  BY BoundAssumption DEF IInv, Shape, ConnShape
<1>2. CASE c \in beneath
  <2>1. zero' = None /\ beneath' = (beneath \ {c}) \cup ({zero} \cap Sockets)
    BY <1>2 DEF Release
  <2>2. zero \in Sockets => zero # c
    BY <1>2 DEF ZeroInv
  <2> QED
    BY <1>1, <2>1, <2>2 DEF ZeroInv
<1>3. CASE c \notin beneath
  <2>1. zero' = (IF zero = c THEN None ELSE zero) /\ beneath' = beneath
    BY <1>3 DEF Release
  <2> QED
    BY <1>1, <1>3, <2>1 DEF ZeroInv
<1> QED
  BY <1>2, <1>3

LEMMA ConnectedZero ==
  ASSUME IInv, ZeroInv, NEW c \in Free, Connected(c) PROVE ZeroInv'
<1>1. c \in Sockets /\ conn[c].ours = FALSE
  BY DEF Free, NoConn
<1>2. conn'[c].ours = TRUE /\ \A d \in Sockets : d # c => conn'[d] = conn[d]
  BY <1>1 DEF Connected, IInv, Shape, ConnShape
<1>3. beneath' = beneath /\ zero' \in {zero, None, c}
  BY DEF Connected
<1>4. c \notin beneath
  BY <1>1 DEF ZeroInv
<1> QED
  BY <1>1, <1>2, <1>3, <1>4, BoundAssumption DEF ZeroInv

LEMMA NextZero == ASSUME IInv, ZeroInv, [Next]_vars PROVE ZeroInv'
<1>1. ASSUME UNCHANGED <<conn, zero, beneath>> PROVE ZeroInv'
  BY <1>1, ZeroStays
<1>2. ASSUME NEW t \in Threads, Send(t) \/ WriteElsewhere(t) PROVE ZeroInv'
  <2>1. ASSUME Lock(t) PROVE ZeroInv'
    BY <1>1, <2>1 DEF Lock, numbers
  <2>2. ASSUME WriteHeader(t) \/ WritePayload(t) \/ WroteElsewhere(t) PROVE ZeroInv'
    <3>1. UNCHANGED numbers
      BY <2>2 DEF WriteHeader, WritePayload, WroteElsewhere
    <3>2. \A c \in Sockets : conn'[c].ours = conn[c].ours
      BY <2>2 DEF IInv, Shape, ConnShape, WriteHeader, WritePayload, WroteElsewhere, Write
    <3> QED
      BY <3>1, <3>2, ZeroStays DEF numbers
  <2>3. ASSUME thr[t].at \in Sending, GivesUp(t) PROVE ZeroInv'
    <3>1. fd \in Sockets
      BY <2>3 DEF IInv, Shape, LinkType, Writer
    <3> QED
      BY <2>3, <3>1, ReleaseZero DEF GivesUp
  <2>4. CASE WriteFails(t) \/ WriteElsewhere(t)
    BY <2>2, <2>3, <2>4, ElsewhereIs DEF WriteFails, CannotWrite, Sending
  <2>5. CASE Connect(t)
    BY <1>1, <2>5, ConnectedZero DEF Connect, numbers
  <2>6. CASE Install(t)
    <3>1. fd = None
      BY <2>6 DEF Install, IInv, OneReconnects, Reconnecting
    <3> QED
      BY <1>1, <2>6, <3>1 DEF Install, numbers
  <2> QED
    BY <1>2, <2>1, <2>2, <2>4, <2>5, <2>6 DEF Send
<1>3. CASE BootConnect
  BY <1>1, <1>3, ConnectedZero DEF BootConnect, numbers
<1>4. CASE Receive \/ Crash
  <2>1. Ends({}, {}) /\ UNCHANGED <<zero, beneath>>
    BY <1>4, CompositorEnds
  <2> QED
    BY <2>1, ZeroStays DEF Ends
<1>5. CASE DaemonRestart
  <2>1. zero' = Other /\ beneath' = {}
    BY <1>5 DEF DaemonRestart
  <2> QED
    BY <2>1, BoundAssumption DEF ZeroInv
<1>6. CASE \E t \in Threads : Cleanup(t)
  <2>1. zero' = None /\ beneath' = beneath \cup ({zero} \cap Sockets) /\ UNCHANGED conn
    BY <1>6 DEF Cleanup
  <2> QED
    BY <2>1, BoundAssumption DEF ZeroInv
<1>7. CASE OtherOpens \/ OtherCloses
  <2>1. zero' \in {None, Other} /\ UNCHANGED <<conn, beneath>>
    BY <1>7 DEF OtherOpens, OtherCloses
  <2> QED
    BY <2>1, BoundAssumption DEF ZeroInv
<1>8. CASE \/ Restart \/ UNCHANGED vars
           \/ \E t \in Threads : \/ ReadPacket(t)
                                 \/ \E kind \in Kinds : SendPacket(t, kind)
  BY <1>1, <1>8 DEF Restart, vars, ReadPacket, SendPacket, link, numbers
<1> QED
  BY <1>2, <1>3, <1>4, <1>5, <1>6, <1>7, <1>8 DEF Next

\* A write to g_compositor_fd that goes to a connection goes to that one: with one
\* connection at a time, descriptor 0 cannot be another when it is not that.
LEMMA GoesToOwn ==
  ASSUME IInv, ZeroInv, fd # None, Referent \in Sockets PROVE Referent = fd /\ fd \notin beneath
<1>1. ASSUME fd \in beneath PROVE FALSE
  <2>1. zero \in Sockets /\ conn[zero].ours /\ zero # fd
    BY <1>1 DEF Referent, ZeroInv
  <2>2. PICK t \in Threads : thr[t].new = zero
    BY <2>1 DEF IInv, Owned
  <2>3. thr[t].at = "install"
    BY <2>1, <2>2, BoundAssumption DEF IInv, New
  <2> QED
    BY <2>3 DEF IInv, OneReconnects, Reconnecting
<1> QED
  BY <1>1 DEF Referent

-----------------------------------------------------------------------------
\* The daemon's open connections are always g_compositor_fd and those being
\* installed, but for those that session_cleanup has closed as descriptor 0: no
\* interleaving of failed writes, reconnects, main's first connection, ends of
\* sessions and restarts of either program leaks one, and compositor_send_video
\* closes none twice (compositor_send_video, compositor_connect, session_cleanup).
THEOREM ConnectionsAccounted == Spec => []DescriptorsMatch
<1>1. IInv /\ ZeroInv /\ [Next]_vars => IInv' /\ ZeroInv'
  BY NextIInv, NextZero
<1>2. Init => IInv /\ ZeroInv
  BY InitIInv, InitZero
<1>3. IInv /\ ZeroInv => DescriptorsMatch
  BY OwnedMatch DEF IInv
<1> QED
  BY <1>1, <1>2, <1>3, PTL DEF Spec

\* Only one thread at a time is between the header and the last byte of a
\* frame, and it has a connection: no frame is written into another
\* (g_compositor_mutex in compositor_send_video).
THEOREM OneWriter ==
  Spec => [](\A t, u \in Threads : thr[t].at \in Sending /\ thr[u].at \in Sending
                                    => t = u /\ fd # None)
<1>1. Spec => []IInv
  BY InitIInv, NextIInv, PTL DEF Spec
<1>2. IInv => \A t, u \in Threads : thr[t].at \in Sending /\ thr[u].at \in Sending
                                    => t = u /\ fd # None
  BY DEF IInv, Writer
<1> QED
  BY <1>1, <1>2, PTL

\* A thread that connects anew finds no connection when it comes to store its
\* own, so that it never has to close the one it opened (the test of
\* g_compositor_fd after the reconnect in compositor_send_video).
THEOREM NoneReconnectsFirst == Spec => []OneReconnects
<1>1. Spec => []IInv
  BY InitIInv, NextIInv, PTL DEF Spec
<1>2. IInv => OneReconnects
  BY DEF IInv
<1> QED
  BY <1>1, <1>2, PTL
-----------------------------------------------------------------------------
(* The compositor stays in step.  What lies in a connection carries on from *)
(* the unit its reader has taken last, unit by unit, and ends where its     *)
(* writer stands: before a header while nobody writes to it, and behind     *)
(* what is written of the frame while a thread does.  An end that has been  *)
(* closed, by its name or as descriptor 0, may stop anywhere, for nothing   *)
(* comes behind it.                                                         *)

FrameSet == {None} \cup [by : Threads, n : Nat, big : BOOLEAN]
UnitSet == [frame : FrameSet, part : 0..Payload]
RxSet == [at : {"accept", "header", "payload"}, conn : Sockets \cup {None},
          frame : FrameSet, got : 0..Payload]

DataType == /\ sent \in [Threads -> Nat]
            /\ \A t \in Threads : thr[t].frame \in FrameSet
            /\ \A c \in Sockets : conn[c].data \in Seq(UnitSet)
            /\ rx \in RxSet

\* What is unread of a mirror stream: units of packets, from wherever the reader
\* has come to.
PartSet == [kind : Kinds, part : Nat, n : Nat]
AirType == \A t \in Threads : air[t] \in Seq(PartSet)

\* The compositor reads an accepted connection.
Reading == /\ rx.at = "payload" => rx.got < Payload
           /\ rx.at # "accept" => rx.conn \in Sockets /\ conn[rx.conn].peer = "open"

\* The unit taken last of a connection; the end of a frame where no frame has
\* begun.
Whole == Unit(None, Payload)
Before(c) == IF rx.conn = c /\ rx.at = "payload" THEN Unit(rx.frame, rx.got) ELSE Whole

\* A unit w comes behind u: the next of its frame, or a header behind the last.
Follows(u, w) == IF w.part = 0 THEN u.part = Payload ELSE w = [u EXCEPT !.part = @ + 1]
Chain(q, u) == \A i \in 1..Len(q) : Follows(IF i = 1 THEN u ELSE q[i - 1], q[i])
Continues == \A c \in Sockets : Chain(conn[c].data, Before(c))

\* The unit written last to a connection.
Latest(c) == IF conn[c].data = <<>> THEN Before(c) ELSE conn[c].data[Len(conn[c].data)]

\* An open end that has not been closed as descriptor 0.
Intact(c) == ~Broken(c) /\ c \notin beneath

WriterTail ==
  \A t \in Threads : thr[t].at = "payload" =>
    /\ thr[t].left \in 1..Payload
    /\ Intact(fd) => Latest(fd) = Unit(thr[t].frame, Payload - thr[t].left)

NoneWrites == \A t \in Threads : thr[t].at # "payload"

RestTail == \A c \in Sockets : conn[c].ours /\ Intact(c) /\ (c = fd => NoneWrites)
                                 => Latest(c).part = Payload

InOrder == Reading /\ Continues /\ WriterTail /\ RestTail

StreamInv == DataType /\ AirType /\ ZeroInv /\ InOrder

-----------------------------------------------------------------------------
\* What a packet holds: every reader of a kind takes all of it.
LEMMA Lengths == /\ \A kind \in Kinds : Length[kind] \in Nat /\ Taken(kind) = Length[kind]
                 /\ \A kind \in Kinds : Length[kind] = 0 <=> kind = "short"
                 /\ Frames \subseteq Kinds
<1>1. Kinds = {"plain", "fp", "big", "huge", "empty", "short", "codec", "oddcodec", "beat", "other"}
  BY DEF Kinds, Length
<1>2. /\ Length["plain"] = 2 /\ Length["fp"] = 2 /\ Length["big"] = 4 /\ Length["huge"] = 6
      /\ Length["empty"] = 1 /\ Length["short"] = 0 /\ Length["codec"] = 1
      /\ Length["oddcodec"] = 3 /\ Length["beat"] = 1 /\ Length["other"] = 2
  BY DEF Length
<1>3. \A kind \in Kinds : Length[kind] \in Nat
  BY <1>1, <1>2
<1>4. \A kind \in Kinds : Taken(kind) = Length[kind]
  <2> SUFFICES ASSUME NEW kind \in Kinds PROVE Taken(kind) = Length[kind]
    OBVIOUS
  <2>1. CASE kind \in {"beat", "oddcodec", "other", "codec"}
    BY <2>1 DEF Taken, Drained
  <2>2. CASE kind = "short"
    BY <2>2, <1>2 DEF Taken
  <2>3. CASE kind \in {"plain", "fp", "big", "huge", "empty"}
    BY <2>3, <1>2, <1>3 DEF Taken, Stamp, Data
  <2> QED
    BY <2>1, <2>2, <2>3, <1>1
<1>5. \A kind \in Kinds : Length[kind] = 0 <=> kind = "short"
  BY <1>1, <1>2
<1>6. Frames \subseteq Kinds
  BY <1>1 DEF Frames
<1> QED
  BY <1>3, <1>4, <1>5, <1>6

LEMMA SeqOfLength ==
  ASSUME NEW U, NEW m \in Nat, NEW p \in [1..m -> U] PROVE p \in Seq(U) /\ Len(p) = m
OBVIOUS

LEMMA PrefixOf ==
  ASSUME NEW U, NEW p \in Seq(U), NEW k \in 1..Len(p)
  PROVE  SubSeq(p, 1, k) \in Seq(U) /\ Len(SubSeq(p, 1, k)) = k /\ SubSeq(p, 1, k)[1] = p[1]
OBVIOUS

LEMMA HeadOf ==
  ASSUME NEW S, NEW s \in Seq(S), Len(s) > 0 PROVE s # <<>> /\ Head(s) = s[1]
OBVIOUS

LEMMA RestOf ==
  ASSUME NEW S, NEW s \in Seq(S), NEW k \in Nat
  PROVE  /\ SubSeq(s, k + 1, Len(s)) \in Seq(S)
         /\ \A i \in 1..Len(SubSeq(s, k + 1, Len(s))) :
              k + i \in 1..Len(s) /\ SubSeq(s, k + 1, Len(s))[i] = s[k + i]
OBVIOUS

AllNumbered(q, n) == \A i \in 1..Len(q) : q[i].n = n

\* What a phone sends of a packet: units of its kind and number.
LEMMA PacketParts ==
  ASSUME NEW kind \in Kinds, NEW n \in Nat, NEW k \in {1, Units(kind)},
         NEW q, q = SubSeq(Packet(kind, n), 1, k)
  PROVE  q \in Seq(PartSet) /\ AllNumbered(q, n)
<1> DEFINE len == Units(kind)
           U == [kind : {kind}, part : Nat, n : {n}]
<1>1. Length[kind] \in Nat
  BY Lengths
<1>9. len \in Nat /\ len > 0
  BY <1>1 DEF Units, Stamp
<1>2. \A i \in 1..len : [kind |-> kind, part |-> i - 1, n |-> n] \in U
  BY <1>9
<1>3. Packet(kind, n) \in [1..len -> U]
  BY <1>2 DEF Packet
<1>6. U \subseteq PartSet /\ \A u \in U : u.n = n
  BY DEF PartSet
<1>5. k \in 1..len
  BY <1>9
<1> HIDE DEF len, U
<1>4. Packet(kind, n) \in Seq(U) /\ Len(Packet(kind, n)) = len
  BY <1>3, <1>9, SeqOfLength
<1>7. q \in Seq(U)
  BY <1>4, <1>5, PrefixOf
<1>8. q \in Seq(PartSet)
  BY <1>6, <1>7
<1>10. \A i \in 1..Len(q) : q[i] \in U
  BY <1>7
<1> QED
  BY <1>6, <1>8, <1>10 DEF AllNumbered

\* What the mirror thread finds at the head of its stream, and what it leaves.
LEMMA PacketTaken ==
  ASSUME AirType, NEW t \in Threads, air[t] # <<>>
  PROVE  LET q == air[t]
             r == SubSeq(q, 1 + Taken(Head(q).kind) + 1, Len(q))
         IN  /\ Head(q) \in PartSet /\ 1 \in 1..Len(q) /\ Head(q) = q[1]
             /\ r \in Seq(PartSet)
             /\ \A i \in 1..Len(r) : \E j \in 1..Len(q) : r[i] = q[j]
<1>1. PICK q \in Seq(PartSet) : q = air[t] /\ q # <<>>
  BY DEF AirType
<1>2. Len(q) \in Nat /\ Len(q) > 0 /\ Head(q) = q[1] /\ q[1] \in PartSet
  BY <1>1
<1>3. 1 + Taken(Head(q).kind) \in Nat
  BY <1>2, Lengths DEF PartSet
<1>4. PICK k \in Nat : k = 1 + Taken(Head(q).kind)
  BY <1>3
<1>5. /\ SubSeq(q, k + 1, Len(q)) \in Seq(PartSet)
      /\ \A i \in 1..Len(SubSeq(q, k + 1, Len(q))) :
           k + i \in 1..Len(q) /\ SubSeq(q, k + 1, Len(q))[i] = q[k + i]
  BY <1>1, RestOf
<1> DEFINE w == SubSeq(q, k + 1, Len(q))
<1>6. w \in Seq(PartSet) /\ \A i \in 1..Len(w) : \E j \in 1..Len(q) : w[i] = q[j]
  BY <1>5
<1>7. SubSeq(air[t], 1 + Taken(Head(air[t]).kind) + 1, Len(air[t])) = w
  BY <1>1, <1>4
<1>8. 1 \in 1..Len(q)
  BY <1>2
<1> HIDE DEF w
<1> QED
  BY <1>1, <1>2, <1>6, <1>7, <1>8

-----------------------------------------------------------------------------
\* Sequences of units that carry on, one unit at a time.
LEMMA UnitParts ==
  ASSUME NEW u \in UnitSet
  PROVE  u.part \in 0..Payload /\ u.frame \in FrameSet /\ u = Unit(u.frame, u.part)
BY DEF UnitSet, Unit

LEMMA UnitIn == ASSUME NEW f \in FrameSet, NEW p \in 0..Payload
                PROVE  Unit(f, p) \in UnitSet /\ Unit(f, p).frame = f /\ Unit(f, p).part = p
BY DEF UnitSet, Unit

LEMMA UnitNext == ASSUME NEW f \in FrameSet, NEW p \in 0..(Payload - 1)
                  PROVE  Follows(Unit(f, p), Unit(f, p + 1))
BY DEF Follows, Unit, Payload

\* Behind the last unit of a frame comes a header, and nothing else.
LEMMA HeaderNext ==
  ASSUME NEW u \in UnitSet, NEW w \in UnitSet, u.part = Payload
  PROVE  Follows(u, w) <=> w.part = 0
<1>1. ASSUME w = [u EXCEPT !.part = @ + 1] PROVE FALSE
  BY <1>1 DEF UnitSet, Payload
<1> QED
  BY <1>1 DEF Follows

LEMMA ChainConcat ==
  ASSUME NEW q \in Seq(UnitSet), NEW v \in Seq(UnitSet), NEW u \in UnitSet, v # <<>>,
         Chain(q, u), Chain(v, IF q = <<>> THEN u ELSE q[Len(q)])
  PROVE  /\ Chain(q \o v, u)
         /\ q \o v \in Seq(UnitSet) /\ q \o v # <<>> /\ (q \o v)[Len(q \o v)] = v[Len(v)]
<1>1. /\ Len(q \o v) = Len(q) + Len(v) /\ Len(q) \in Nat /\ Len(v) \in Nat /\ Len(v) > 0
      /\ q \o v \in Seq(UnitSet)
  OBVIOUS
<1>2. \A i \in 1..Len(q) : (q \o v)[i] = q[i]
  OBVIOUS
<1>3. \A i \in 1..Len(v) : (q \o v)[Len(q) + i] = v[i]
  OBVIOUS
<1>4. ASSUME NEW i \in 1..Len(q \o v)
      PROVE  Follows(IF i = 1 THEN u ELSE (q \o v)[i - 1], (q \o v)[i])
  <2>1. CASE i <= Len(q)
    <3>1. i \in 1..Len(q) /\ (i # 1 => i - 1 \in 1..Len(q))
      BY <2>1, <1>1
    <3> QED
      BY <3>1, <1>2 DEF Chain
  <2>2. CASE i = Len(q) + 1
    <3>1. (q \o v)[i] = v[1] /\ Follows(IF q = <<>> THEN u ELSE q[Len(q)], v[1])
      BY <2>2, <1>1, <1>3 DEF Chain
    <3>2. q = <<>> <=> i = 1
      BY <2>2, <1>1
    <3>3. q # <<>> => i - 1 = Len(q) /\ Len(q) \in 1..Len(q)
      BY <2>2, <1>1
    <3> QED
      BY <3>1, <3>2, <3>3, <1>2
  <2>3. CASE i > Len(q) + 1
    <3> DEFINE j == i - Len(q)
    <3>1. j \in 1..Len(v) /\ j # 1 /\ j - 1 \in 1..Len(v) /\ i = Len(q) + j /\ i # 1
          /\ i - 1 = Len(q) + (j - 1)
      BY <2>3, <1>1
    <3>2. Follows(v[j - 1], v[j])
      <4> HIDE DEF j
      <4> QED
        BY <3>1 DEF Chain
    <3> HIDE DEF j
    <3>3. (q \o v)[i] = v[j] /\ (q \o v)[i - 1] = v[j - 1]
      BY <3>1, <1>3
    <3> QED
      BY <3>1, <3>2, <3>3
  <2> QED
    BY <2>1, <2>2, <2>3, <1>1
<1>5. q \o v # <<>> /\ (q \o v)[Len(q \o v)] = v[Len(v)]
  BY <1>1, <1>3
<1> QED
  BY <1>1, <1>4, <1>5 DEF Chain

\* Taking the first unit, the reader remembers it, or that its frame has ended.
LEMMA ChainTail ==
  ASSUME NEW q \in Seq(UnitSet), NEW u \in UnitSet, NEW w \in UnitSet, q # <<>>, Chain(q, u),
         w = q[1] \/ (w.part = Payload /\ q[1].part = Payload)
  PROVE  /\ Chain(Tail(q), w) /\ Tail(q) \in Seq(UnitSet)
         /\ IF Tail(q) = <<>> THEN q[Len(q)] = q[1] ELSE Tail(q)[Len(Tail(q))] = q[Len(q)]
<1>1. /\ Len(q) \in Nat /\ Len(q) > 0 /\ Len(Tail(q)) = Len(q) - 1 /\ Tail(q) \in Seq(UnitSet)
      /\ \A i \in 1..Len(Tail(q)) : Tail(q)[i] = q[i + 1]
      /\ \A i \in 1..Len(q) : q[i] \in UnitSet
  OBVIOUS
<1>2. \A i \in 1..Len(q) : i # 1 => Follows(q[i - 1], q[i])
  BY DEF Chain
<1>3. ASSUME NEW i \in 1..Len(Tail(q))
      PROVE  Follows(IF i = 1 THEN w ELSE Tail(q)[i - 1], Tail(q)[i])
  <2>1. CASE i = 1
    <3>1. Follows(q[1], q[2]) /\ Tail(q)[1] = q[2] /\ q[1] \in UnitSet /\ q[2] \in UnitSet
      BY <2>1, <1>1, <1>2
    <3> QED
      BY <2>1, <3>1, HeaderNext
  <2>2. CASE i # 1
    <3>1. i + 1 \in 1..Len(q) /\ i - 1 \in 1..Len(Tail(q)) /\ i + 1 # 1 /\ (i - 1) + 1 = i
      BY <2>2, <1>1
    <3>2. Follows(q[i], q[i + 1])
      BY <3>1, <1>2
    <3> QED
      BY <2>2, <3>1, <3>2, <1>1
  <2> QED
    BY <2>1, <2>2
<1>4. IF Tail(q) = <<>> THEN q[Len(q)] = q[1] ELSE Tail(q)[Len(Tail(q))] = q[Len(q)]
  BY <1>1
<1> QED
  BY <1>1, <1>3, <1>4 DEF Chain

\* The units of a frame from one to another carry on from the one before them.
Run(f, p, k) == [i \in 1..k |-> Unit(f, p + i)]

LEMMA ChainUnits ==
  ASSUME NEW f \in FrameSet, NEW p \in 0..(Payload - 1), NEW k \in 1..(Payload - p)
  PROVE  LET v == Run(f, p, k) IN
         /\ v \in Seq(UnitSet) /\ v # <<>> /\ Chain(v, Unit(f, p))
         /\ Len(v) = k /\ v[Len(v)] = Unit(f, p + k)
<1> DEFINE v == Run(f, p, k)
<1>1. /\ k \in Nat /\ p \in Nat /\ k > 0 /\ \A i \in 1..k : p + i \in 0..Payload
      /\ \A i \in 1..k : p + (i - 1) \in 0..(Payload - 1)
  BY DEF Payload
<1>2. \A i \in 1..k : Unit(f, p + i) \in UnitSet
  BY <1>1, UnitIn
<1>3. v \in [1..k -> UnitSet]
  BY <1>2 DEF Run
<1>8. v[k] = Unit(f, p + k)
  BY <1>1 DEF Run
<1> HIDE DEF v
<1>4. v \in Seq(UnitSet) /\ Len(v) = k
  BY <1>1, <1>3, SeqOfLength
<1>5. ASSUME NEW i \in 1..Len(v)
      PROVE  Follows(IF i = 1 THEN Unit(f, p) ELSE v[i - 1], v[i])
  <2>1. i \in 1..k /\ p + (i - 1) \in 0..(Payload - 1) /\ (p + (i - 1)) + 1 = p + i
    BY <1>1, <1>4
  <2>2. Follows(Unit(f, p + (i - 1)), Unit(f, p + i))
    BY <2>1, UnitNext
  <2>3. v[i] = Unit(f, p + i) /\ (i # 1 => v[i - 1] = Unit(f, p + (i - 1)))
    BY <2>1 DEF Run, v
  <2>4. i = 1 => p + (i - 1) = p
    BY <1>1
  <2> QED
    BY <2>2, <2>3, <2>4
<1>6. Chain(v, Unit(f, p))
  BY <1>5 DEF Chain
<1>7. v # <<>>
  BY <1>1, <1>4
<1> QED
  BY <1>4, <1>6, <1>7, <1>8 DEF v

LEMMA BeforeIn == ASSUME DataType PROVE Whole \in UnitSet /\ \A c : Before(c) \in UnitSet
<1>1. Whole \in UnitSet
  BY UnitIn DEF Whole, FrameSet, Payload
<1> QED
  BY <1>1, UnitIn DEF Before, DataType, RxSet

\* What the compositor relies on follows from the invariant.
LEMMA InStepHolds == ASSUME IInv, StreamInv PROVE InStep
<1> SUFFICES ASSUME NEW c \in Sockets, NEW i \in DOMAIN conn[c].data
             PROVE  LET unit == conn[c].data[i] IN
                    IF i > 1 THEN LET last == conn[c].data[i - 1] IN
                                  IF unit.part = 0 THEN last.part = Payload
                                  ELSE unit = [last EXCEPT !.part = @ + 1]
                    ELSE IF rx.conn = c /\ rx.at = "payload"
                         THEN unit = Unit(rx.frame, rx.got + 1)
                    ELSE unit.part = 0
  BY DEF InStep
<1> DEFINE q == conn[c].data
<1>1. q \in Seq(UnitSet) /\ Chain(q, Before(c)) /\ Before(c) \in UnitSet /\ Whole \in UnitSet
  BY BeforeIn DEF StreamInv, DataType, InOrder, Continues
<1>2. i \in 1..Len(q) /\ q[i] \in UnitSet
  BY <1>1
<1>3. Follows(IF i = 1 THEN Before(c) ELSE q[i - 1], q[i])
  BY <1>1, <1>2 DEF Chain
<1>4. CASE i > 1
  BY <1>2, <1>3, <1>4 DEF Follows
<1>5. CASE i = 1
  <2>1. CASE rx.conn = c /\ rx.at = "payload"
    <3>1. rx.got \in Nat /\ rx.got < Payload /\ Follows(Unit(rx.frame, rx.got), q[1])
      BY <2>1, <1>3, <1>5 DEF Before, StreamInv, InOrder, Reading, DataType, RxSet
    <3>2. q[1] = Unit(rx.frame, rx.got + 1)
      BY <3>1 DEF Follows, Unit
    <3> QED
      BY <2>1, <1>5, <3>2
  <2>2. CASE ~(rx.conn = c /\ rx.at = "payload")
    <3>1. Follows(Whole, q[1]) /\ Whole.part = Payload
      BY <2>2, <1>3, <1>5 DEF Before, Whole, Unit
    <3> QED
      BY <2>2, <3>1, <1>1, <1>2, <1>5, HeaderNext
  <2> QED
    BY <2>1, <2>2
<1> QED
  BY <1>2, <1>4, <1>5

-----------------------------------------------------------------------------
(* The steps.                                                               *)

LEMMA InitStream == ASSUME Init PROVE StreamInv
<1>1. /\ \A t \in Threads : air[t] = <<>> /\ thr[t].at = "parse" /\ thr[t].frame = None
      /\ \A c \in Sockets : conn[c].data = <<>> /\ conn[c].ours = FALSE
      /\ sent \in [Threads -> Nat] /\ rx = Listening
  BY DEF Init, Quiet, NoConn
<1>2. \A c \in Sockets : conn[c].data \in Seq(UnitSet)
  <2>1. <<>> \in Seq(UnitSet)
    OBVIOUS
  <2> QED
    BY <1>1, <2>1
<1>3. rx \in RxSet
  BY <1>1 DEF RxSet, Listening, FrameSet, Payload
<1>4. DataType
  BY <1>1, <1>2, <1>3 DEF DataType, FrameSet
<1>5. AirType
  <2>1. <<>> \in Seq(PartSet)
    OBVIOUS
  <2> QED
    BY <1>1, <2>1 DEF AirType
<1>9. ZeroInv
  BY InitZero
<1>6. Reading
  BY <1>1 DEF Reading, Listening
<1>7. Continues
  BY <1>1 DEF Continues, Chain
<1>8. WriterTail /\ RestTail
  BY <1>1 DEF WriterTail, RestTail
<1> QED
  BY <1>4, <1>5, <1>6, <1>7, <1>8, <1>9 DEF StreamInv, InOrder

\* Neither the compositor nor main touches what the phones send, and only main's
\* end as a process what the threads do.
LEMMA OthersLeave ==
  ASSUME Receive \/ BootConnect \/ Crash \/ Restart \/ OtherOpens \/ OtherCloses
  PROVE  UNCHANGED <<phone, thr>>
<1>1. CASE Accept
  BY <1>1, Zenon DEF Accept
<1>7. CASE RxPayload
  BY <1>7, Zenon DEF RxPayload
<1>2. CASE RxHeader
  BY <1>2 DEF RxHeader
<1>3. CASE RxEnd
  BY <1>3 DEF RxEnd
<1>4. CASE BootConnect
  BY <1>4 DEF BootConnect
<1>5. CASE Crash
  BY <1>5, Zenon DEF Crash
<1>6. CASE Restart
  BY <1>6 DEF Restart
<1>8. CASE OtherOpens \/ OtherCloses
  BY <1>8 DEF OtherOpens, OtherCloses
<1> QED
  BY <1>1, <1>2, <1>3, <1>4, <1>5, <1>6, <1>7, <1>8 DEF Receive

\* Only a phone that sends, a thread that reads and the daemon's end change what
\* is unread of the streams and how many frames are numbered.
LEMMA PhonesLeft ==
  ASSUME [Next]_vars, ~DaemonRestart,
         ~\E t \in Threads : ReadPacket(t) \/ \E kind \in Kinds : SendPacket(t, kind)
  PROVE  UNCHANGED <<air, sent>>
<1>1. CASE \E t \in Threads : Send(t)
  BY <1>1 DEF Send, Lock, WriteHeader, WritePayload, WriteFails, GivesUp, Connect, Install, phone
<1>2. CASE \E t \in Threads : WriteElsewhere(t) \/ Cleanup(t)
  BY <1>2 DEF WriteElsewhere, GivesUp, Cleanup, phone
<1>3. CASE Receive \/ BootConnect \/ Crash \/ Restart \/ OtherOpens \/ OtherCloses
  BY <1>3, OthersLeave DEF phone
<1>4. CASE UNCHANGED vars
  BY <1>4 DEF vars
<1> QED
  BY <1>1, <1>2, <1>3, <1>4 DEF Next

\* What a phone sends are units of a packet, and a mirror thread leaves some of
\* them.
LEMMA MirrorKeeps == ASSUME StreamInv, [Next]_vars PROVE AirType' /\ sent' \in [Threads -> Nat]
<1> USE DEF StreamInv, DataType
<1>1. ASSUME NEW t \in Threads, NEW kind \in Kinds, SendPacket(t, kind)
      PROVE  AirType' /\ sent' \in [Threads -> Nat]
  <2>1. sent' \in [Threads -> Nat]
    BY <1>1 DEF SendPacket
  <2>2. PICK k \in {1, Units(kind)} :
          air' = [air EXCEPT ![t] = SubSeq(Packet(kind, sent'[t]), 1, k)]
    BY <1>1 DEF SendPacket
  <2>3. SubSeq(Packet(kind, sent'[t]), 1, k) \in Seq(PartSet)
    <3>1. sent'[t] \in Nat
      BY <2>1
    <3> QED
      BY <3>1, PacketParts
  <2>4. ASSUME NEW u \in Threads PROVE air'[u] \in Seq(PartSet)
    <3>1. CASE t \in DOMAIN air /\ u = t
      BY <2>2, <2>3, <3>1
    <3>2. CASE ~(t \in DOMAIN air /\ u = t)
      BY <2>2, <3>2 DEF AirType
    <3> QED
      BY <3>1, <3>2
  <2> QED
    BY <2>1, <2>4 DEF AirType
<1>2. ASSUME NEW t \in Threads, ReadPacket(t)
      PROVE  AirType' /\ sent' \in [Threads -> Nat]
  <2>1. PICK q \in Seq(PartSet) : air' = [air EXCEPT ![t] = q]
    <3>1. air[t] # <<>>
      BY <1>2 DEF ReadPacket
    <3>2. SubSeq(air[t], 1 + Taken(Head(air[t]).kind) + 1, Len(air[t])) \in Seq(PartSet)
      BY <3>1, PacketTaken
    <3>3. <<>> \in Seq(PartSet)
      OBVIOUS
    <3> QED
      BY <1>2, <3>2, <3>3 DEF ReadPacket
  <2>2. ASSUME NEW u \in Threads PROVE air'[u] = air[u] \/ air'[u] = q
    BY <2>1
  <2>3. sent' = sent
    BY <1>2 DEF ReadPacket
  <2> QED
    BY <2>2, <2>3 DEF AirType
<1>3. ASSUME UNCHANGED <<air, sent>> PROVE AirType' /\ sent' \in [Threads -> Nat]
  BY <1>3 DEF AirType
<1>4. CASE DaemonRestart
  <2>1. <<>> \in Seq(PartSet)
    OBVIOUS
  <2> QED
    BY <1>4, <2>1 DEF DaemonRestart, AirType
<1>5. CASE ~DaemonRestart /\ ~\E t \in Threads : \/ ReadPacket(t)
                                             \/ \E kind \in Kinds : SendPacket(t, kind)
  BY <1>3, <1>5, PhonesLeft
<1> QED
  BY <1>1, <1>2, <1>4, <1>5

\* Nothing is written and nothing read.
LEMMA SameConn ==
  ASSUME InOrder, UNCHANGED <<conn, rx, fd>>, beneath \subseteq beneath',
         \A x \in Threads : thr'[x].at = "payload" <=> thr[x].at = "payload",
         \A x \in Threads : thr[x].at = "payload" =>
           thr'[x].frame = thr[x].frame /\ thr'[x].left = thr[x].left
  PROVE  InOrder'
<1>1. /\ \A c : Before(c)' = Before(c) /\ Latest(c)' = Latest(c) /\ (Intact(c)' => Intact(c))
      /\ NoneWrites' <=> NoneWrites
  BY DEF Before, Latest, Intact, Broken, NoneWrites, Whole
<1>2. Latest(fd)' = Latest(fd) /\ (Intact(fd)' => Intact(fd))
  BY <1>1 DEF Intact, Broken
<1>3. Reading' /\ Continues'
  BY <1>1 DEF InOrder, Reading, Continues
<1>4. WriterTail'
  BY <1>2 DEF InOrder, WriterTail
<1>5. RestTail'
  BY <1>1 DEF InOrder, RestTail
<1> QED
  BY <1>3, <1>4, <1>5 DEF InOrder

\* Nobody is in the middle of a frame afterwards.
LEMMA IdleTails ==
  ASSUME NoneWrites',
         \A c \in Sockets : conn'[c].ours /\ Intact(c)' => Latest(c)'.part = Payload
  PROVE  WriterTail' /\ RestTail'
BY DEF NoneWrites, WriterTail, RestTail

\* The end of a session, in the middle of no frame.
LEMMA CleanupStream ==
  ASSUME IInv, StreamInv, NEW t \in Threads, Cleanup(t)
  PROVE  InOrder' /\ (\A x \in Threads : thr'[x].frame \in FrameSet) /\ UNCHANGED <<conn, rx>>
<1>1. /\ thr[t].at \in {"parse", "done"} /\ thr' = [thr EXCEPT ![t].at = "parse"]
      /\ UNCHANGED <<conn, rx, fd>> /\ beneath \subseteq beneath'
  BY DEF Cleanup, compositor
<1>2. DOMAIN thr = Threads /\ DOMAIN thr[t] = {"at", "frame", "left", "tries", "new"}
  BY DEF IInv, Shape, ThreadShape
<1>3. /\ \A x \in Threads : x # t => thr'[x] = thr[x]
      /\ thr'[t].at = "parse" /\ thr'[t].frame = thr[t].frame
  BY <1>1, <1>2
<1>4. InOrder'
  BY <1>1, <1>3, SameConn DEF StreamInv
<1> QED
  BY <1>1, <1>3, <1>4 DEF StreamInv, DataType

LEMMA ReadStream ==
  ASSUME IInv, StreamInv, NEW t \in Threads, ReadPacket(t)
  PROVE  InOrder' /\ (\A x \in Threads : thr'[x].frame \in FrameSet) /\ UNCHANGED <<conn, rx>>
<1>1. /\ thr[t].at = "parse" /\ air[t] # <<>> /\ UNCHANGED <<conn, rx, fd, beneath>>
  BY DEF ReadPacket, link, numbers, compositor
<1>2. \/ thr' = [thr EXCEPT ![t].at = "done"]
      \/ thr' = [thr EXCEPT ![t].at = "lock", ![t].frame =
                   [by |-> t, n |-> Head(air[t]).n, big |-> Head(air[t]).kind = "big"]]
      \/ thr' = thr
  BY DEF ReadPacket
<1>3. [by |-> t, n |-> Head(air[t]).n, big |-> Head(air[t]).kind = "big"] \in FrameSet
  BY <1>1, PacketTaken DEF StreamInv, FrameSet, PartSet
<1>4. DOMAIN thr = Threads /\ DOMAIN thr[t] = {"at", "frame", "left", "tries", "new"}
  BY DEF IInv, Shape, ThreadShape
<1>5. /\ \A x \in Threads : thr'[x].frame = thr[x].frame \/ thr'[x].frame \in FrameSet
      /\ \A x \in Threads : x # t => thr'[x] = thr[x]
      /\ thr'[t].at \in {"parse", "done", "lock"}
  BY <1>1, <1>2, <1>3, <1>4
<1>6. InOrder'
  BY <1>1, <1>5, SameConn DEF StreamInv
<1> QED
  BY <1>1, <1>5, <1>6 DEF StreamInv, DataType

LEMMA LockStream ==
  ASSUME IInv, StreamInv, NEW t \in Threads, Lock(t)
  PROVE  InOrder' /\ (\A x \in Threads : thr'[x].frame \in FrameSet) /\ UNCHANGED <<conn, rx>>
<1>1. /\ thr[t].at = "lock" /\ UNCHANGED <<conn, rx, fd, beneath>>
      /\ thr' = [thr EXCEPT ![t] = Quiet] \/ thr' = [thr EXCEPT ![t].at = "header"]
  BY DEF Lock, numbers, compositor
<1>2. DOMAIN thr = Threads /\ DOMAIN thr[t] = {"at", "frame", "left", "tries", "new"}
  BY DEF IInv, Shape, ThreadShape
<1>3. /\ \A x \in Threads : x # t => thr'[x] = thr[x]
      /\ thr'[t].at \in {"parse", "header"} /\ thr'[t].frame \in {None, thr[t].frame}
  BY <1>1, <1>2 DEF Quiet
<1>4. InOrder'
  BY <1>1, <1>3, SameConn DEF StreamInv
<1> QED
  BY <1>1, <1>3, <1>4 DEF StreamInv, DataType, FrameSet

\* While no thread is between a header and the end of its payload, every open
\* connection ends in a whole frame.
LEMMA NobodyWrites ==
  ASSUME StreamInv, NoneWrites, NEW c \in Sockets, conn[c].ours, Intact(c)
  PROVE  Latest(c).part = Payload
BY DEF StreamInv, InOrder, RestTail

-----------------------------------------------------------------------------
(* Writing.                                                                 *)

\* Units that carry on from the last one, at the end of g_compositor_fd.
LEMMA Appends ==
  ASSUME IInv, StreamInv, fd \in Sockets, NEW v \in Seq(UnitSet), v # <<>>, Chain(v, Latest(fd)),
         conn' = [conn EXCEPT ![fd].data = @ \o v], UNCHANGED <<fd, rx, beneath>>
  PROVE  /\ Reading' /\ Continues' /\ Latest(fd)' = v[Len(v)]
         /\ \A c \in Sockets : /\ conn'[c].data \in Seq(UnitSet)
                               /\ conn'[c].ours = conn[c].ours /\ (Intact(c)' => Intact(c))
                               /\ c # fd => Latest(c)' = Latest(c)
<1> DEFINE q == conn[fd].data
<1>1. DOMAIN conn = Sockets /\ \A c \in Sockets : DOMAIN conn[c] = {"ours", "peer", "data"}
  BY DEF IInv, Shape, ConnShape
<1>2. /\ \A c \in Sockets : conn'[c].ours = conn[c].ours /\ conn'[c].peer = conn[c].peer
      /\ \A c \in Sockets : c # fd => conn'[c].data = conn[c].data
      /\ conn'[fd].data = q \o v
  BY <1>1
<1>3. /\ \A c \in Sockets : conn[c].data \in Seq(UnitSet) /\ Before(c) \in UnitSet
      /\ \A c \in Sockets : Before(c)' = Before(c)
  BY BeforeIn DEF StreamInv, DataType, Before, Whole
<1>4. /\ Chain(q \o v, Before(fd)) /\ q \o v \in Seq(UnitSet) /\ q \o v # <<>>
      /\ (q \o v)[Len(q \o v)] = v[Len(v)]
  <2>1. Chain(q, Before(fd)) /\ Latest(fd) = IF q = <<>> THEN Before(fd) ELSE q[Len(q)]
    BY DEF StreamInv, InOrder, Continues, Latest
  <2> QED
    BY <2>1, <1>3, ChainConcat
<1> HIDE DEF q
<1>5. Reading'
  BY <1>2 DEF StreamInv, InOrder, Reading
<1>6. Continues'
  BY <1>2, <1>3, <1>4 DEF StreamInv, InOrder, Continues
<1>7. Latest(fd)' = v[Len(v)] /\ \A c \in Sockets : c # fd => Latest(c)' = Latest(c)
  <2>1. conn'[fd'].data = q \o v
    BY <1>2
  <2>2. Latest(fd)' = v[Len(v)]
    BY <2>1, <1>4 DEF Latest
  <2>3. \A c \in Sockets : c # fd => Latest(c)' = Latest(c)
    BY <1>2, <1>3 DEF Latest
  <2> QED
    BY <2>2, <2>3
<1>8. \A c \in Sockets : conn'[c].data \in Seq(UnitSet) /\ (Intact(c)' => Intact(c))
  BY <1>2, <1>3, <1>4 DEF Intact, Broken
<1> QED
  BY <1>2, <1>5, <1>6, <1>7, <1>8

\* The writer of the frame is alone, and its connection is open.
LEMMA WriterAlone ==
  ASSUME IInv, NEW t \in Threads, thr[t].at \in Sending
  PROVE  /\ fd \in Sockets /\ conn[fd].ours /\ mutex = t
         /\ \A u \in Threads : u # t => thr[u].at \notin Sending
BY DEF IInv, Shape, LinkType, Writer, Owned

\* What it writes goes to that connection, when it goes to one.
LEMMA WritesOwn ==
  ASSUME IInv, StreamInv, NEW t \in Threads, thr[t].at \in Sending, NEW v, Write(v)
  PROVE  /\ fd \in Sockets /\ Intact(fd) /\ conn' = [conn EXCEPT ![fd].data = @ \o v]
         /\ Len(conn[fd].data) + Len(v) <= Room
<1>1. fd \in Sockets
  BY WriterAlone
<1>2. Referent = fd /\ fd \notin beneath
  BY <1>1, GoesToOwn, BoundAssumption DEF Write, StreamInv
<1> QED
  BY <1>1, <1>2 DEF Write, Intact

LEMMA HeaderStream ==
  ASSUME IInv, StreamInv, NEW t \in Threads, WriteHeader(t)
  PROVE  /\ InOrder' /\ (\A x \in Threads : thr'[x].frame \in FrameSet) /\ UNCHANGED rx
         /\ \A c \in Sockets : conn'[c].data \in Seq(UnitSet)
<1> DEFINE f == thr[t].frame
           v == <<Unit(f, 0)>>
<1>13. thr[t].at = "header" /\ Write(v)
  BY DEF WriteHeader
<1>14. Intact(fd) /\ conn' = [conn EXCEPT ![fd].data = @ \o v]
  <2> HIDE DEF v
  <2> QED
    BY <1>13, WritesOwn DEF Sending
<1>1. /\ thr[t].at = "header" /\ Intact(fd) /\ conn' = [conn EXCEPT ![fd].data = @ \o v]
      /\ thr' = [thr EXCEPT ![t].at = "payload", ![t].left = Payload]
      /\ UNCHANGED <<fd, rx, beneath>>
  BY <1>14 DEF WriteHeader, numbers, compositor
<1>2. /\ fd \in Sockets /\ conn[fd].ours
      /\ \A u \in Threads : u # t => thr[u].at \notin Sending
  BY <1>1, WriterAlone DEF Sending
<1>3. NoneWrites
  BY <1>1, <1>2 DEF NoneWrites, Sending
<1>4. Latest(fd).part = Payload
  BY <1>1, <1>2, <1>3, NobodyWrites
<1>5. f \in FrameSet /\ Unit(f, 0) \in UnitSet /\ Unit(f, 0).part = 0
  BY UnitIn DEF StreamInv, DataType, Payload
<1>6. v \in Seq(UnitSet) /\ v # <<>> /\ Len(v) = 1 /\ v[1] = Unit(f, 0)
  BY <1>5
<1>7. Chain(v, Latest(fd))
  BY <1>4, <1>5, <1>6 DEF Chain, Follows
<1>8. /\ Reading' /\ Continues' /\ Latest(fd)' = Unit(f, 0)
      /\ \A c \in Sockets : /\ conn'[c].data \in Seq(UnitSet)
                            /\ conn'[c].ours = conn[c].ours /\ (Intact(c)' => Intact(c))
                            /\ c # fd => Latest(c)' = Latest(c)
  <2> HIDE DEF v
  <2> QED
    BY <1>1, <1>2, <1>6, <1>7, Appends
<1>9. /\ thr'[t].at = "payload" /\ thr'[t].left = Payload /\ thr'[t].frame = f
      /\ \A x \in Threads : x # t => thr'[x] = thr[x]
  BY <1>1 DEF IInv, Shape, ThreadShape
<1>10. WriterTail'
  <2> SUFFICES ASSUME NEW x \in Threads, thr'[x].at = "payload"
               PROVE  /\ thr'[x].left \in 1..Payload
                      /\ Latest(fd)' = Unit(thr'[x].frame, Payload - thr'[x].left)
    BY DEF WriterTail
  <2>1. x = t
    BY <1>2, <1>9 DEF Sending
  <2> QED
    BY <2>1, <1>8, <1>9 DEF Payload
<1>11. RestTail'
  <2> SUFFICES ASSUME NEW c \in Sockets, conn'[c].ours, Intact(c)', c = fd' => NoneWrites'
               PROVE  Latest(c)'.part = Payload
    BY DEF RestTail
  <2>1. ~NoneWrites'
    BY <1>9 DEF NoneWrites
  <2>2. c # fd /\ conn[c].ours /\ Intact(c)
    BY <2>1, <1>1, <1>8
  <2> QED
    BY <2>2, <1>3, <1>8, NobodyWrites
<1>12. \A x \in Threads : thr'[x].frame \in FrameSet
  BY <1>5, <1>9 DEF StreamInv, DataType
<1> QED
  BY <1>1, <1>8, <1>10, <1>11, <1>12 DEF InOrder

LEMMA PayloadStream ==
  ASSUME IInv, StreamInv, NEW t \in Threads, WritePayload(t)
  PROVE  /\ InOrder' /\ (\A x \in Threads : thr'[x].frame \in FrameSet) /\ UNCHANGED rx
         /\ \A c \in Sockets : conn'[c].data \in Seq(UnitSet)
<1> DEFINE f == thr[t].frame
           p == Payload - thr[t].left
<1>2. thr[t].at = "payload" /\ UNCHANGED <<fd, rx, beneath>>
  BY DEF WritePayload, numbers, compositor
<1>13. PICK k \in 1..thr[t].left :
        /\ Write([i \in 1..k |-> Unit(f, p + i)])
        /\ IF k = thr[t].left THEN thr' = [thr EXCEPT ![t] = Quiet]
           ELSE thr' = [thr EXCEPT ![t].left = @ - k]
  BY DEF WritePayload
<1>1. /\ Intact(fd)
      /\ conn' = [conn EXCEPT ![fd].data = @ \o [i \in 1..k |-> Unit(f, p + i)]]
      /\ IF k = thr[t].left THEN thr' = [thr EXCEPT ![t] = Quiet]
         ELSE thr' = [thr EXCEPT ![t].left = @ - k]
  BY <1>2, <1>13, WritesOwn DEF Sending
<1>3. /\ fd \in Sockets /\ conn[fd].ours
      /\ \A u \in Threads : u # t => thr[u].at \notin Sending
  BY <1>2, WriterAlone DEF Sending
<1>4. thr[t].left \in 1..Payload /\ Latest(fd) = Unit(f, p) /\ f \in FrameSet
  BY <1>1, <1>2 DEF StreamInv, DataType, InOrder, WriterTail
<1>5. p \in 0..(Payload - 1) /\ k \in 1..(Payload - p) /\ p = Payload - thr[t].left
      /\ p + k = Payload - (thr[t].left - k)
  BY <1>4 DEF Payload
<1> DEFINE v == Run(f, p, k)
<1>6. v \in Seq(UnitSet) /\ v # <<>> /\ Chain(v, Unit(f, p)) /\ v[Len(v)] = Unit(f, p + k)
  <2>1. f \in FrameSet
    BY <1>4
  <2>2. p \in 0..(Payload - 1) /\ k \in 1..(Payload - p)
    BY <1>5
  <2> HIDE DEF f, p
  <2> QED
    BY <2>1, <2>2, ChainUnits
<1>7. conn' = [conn EXCEPT ![fd].data = @ \o v]
  BY <1>1 DEF Run
<1> HIDE DEF v, f
<1>8. /\ Reading' /\ Continues' /\ Latest(fd)' = Unit(f, p + k)
      /\ \A c \in Sockets : /\ conn'[c].data \in Seq(UnitSet)
                            /\ conn'[c].ours = conn[c].ours /\ (Intact(c)' => Intact(c))
                            /\ c # fd => Latest(c)' = Latest(c)
  BY <1>2, <1>3, <1>4, <1>6, <1>7, Appends
<1>9. /\ \A x \in Threads : x # t => thr'[x] = thr[x]
      /\ IF k = thr[t].left THEN thr'[t].at = "parse" /\ thr'[t].frame = None
         ELSE thr'[t].at = "payload" /\ thr'[t].left = thr[t].left - k /\ thr'[t].frame = f
  BY <1>1, <1>2 DEF IInv, Shape, ThreadShape, Quiet, f
<1>10. WriterTail'
  <2> SUFFICES ASSUME NEW x \in Threads, thr'[x].at = "payload"
               PROVE  /\ thr'[x].left \in 1..Payload
                      /\ Latest(fd)' = Unit(thr'[x].frame, Payload - thr'[x].left)
    BY DEF WriterTail
  <2>1. x = t
    BY <1>3, <1>9 DEF Sending
  <2>2. k # thr[t].left
    BY <2>1, <1>9
  <2>3. thr'[t].left = thr[t].left - k /\ thr'[t].left \in 1..Payload
    BY <2>2, <1>4, <1>9 DEF Payload
  <2> QED
    BY <2>1, <2>2, <2>3, <1>5, <1>8, <1>9
<1>11. RestTail'
  <2> SUFFICES ASSUME NEW c \in Sockets, conn'[c].ours, Intact(c)', c = fd' => NoneWrites'
               PROVE  Latest(c)'.part = Payload
    BY DEF RestTail
  <2>1. CASE c # fd
    BY <2>1, <1>8 DEF StreamInv, InOrder, RestTail
  <2>2. CASE c = fd
    <3>1. k = thr[t].left
      BY <2>2, <1>2, <1>9 DEF NoneWrites
    <3>2. p + k = Payload
      BY <3>1, <1>4 DEF Payload
    <3> QED
      BY <2>2, <3>2, <1>2, <1>8 DEF Unit
  <2> QED
    BY <2>1, <2>2
<1>12. \A x \in Threads : thr'[x].frame \in FrameSet
  BY <1>4, <1>9 DEF StreamInv, DataType, FrameSet
<1> QED
  BY <1>2, <1>8, <1>10, <1>11, <1>12 DEF InOrder

-----------------------------------------------------------------------------
(* Connecting.                                                              *)

\* After EPIPE nothing is left of the connection, and the one that is read is
\* another; what was closed beneath the daemon is read to its end.
LEMMA FailsStream ==
  ASSUME IInv, IInv', StreamInv, NEW t \in Threads, thr[t].at \in Sending, GivesUp(t)
  PROVE  /\ InOrder' /\ (\A x \in Threads : thr'[x].frame \in FrameSet) /\ UNCHANGED rx
         /\ \A c \in Sockets : conn'[c].data \in Seq(UnitSet)
<1>1. /\ conn' = [conn EXCEPT ![fd] = CloseOurs(fd)] /\ Release(fd)
      /\ thr' = [thr EXCEPT ![t] = [Quiet EXCEPT !.at = "connect", !.tries = MaxTries]]
      /\ fd' = None /\ mutex' = None /\ rx' = rx
  BY DEF GivesUp, compositor
<1>2. fd \in Sockets /\ \A u \in Threads : u # t => thr[u].at \notin Sending
  BY WriterAlone
<1>11. \/ conn'[fd].data = <<>> /\ Broken(fd)
       \/ conn'[fd].data = conn[fd].data /\ conn'[fd].peer = conn[fd].peer
  BY <1>1, <1>2 DEF CloseOurs, NoConn, IInv, Shape, ConnShape
<1>3. /\ conn'[fd].ours = FALSE /\ \A c \in Sockets : c # fd => conn'[c] = conn[c]
      /\ \A x \in Threads : thr'[x].frame \in {None, thr[x].frame}
  BY <1>1, <1>2, CloseOursEnds DEF IInv, Shape, ConnShape, ThreadShape, Quiet
<1>4. \A c \in Sockets : conn'[c].data \in Seq(UnitSet)
  <2>1. <<>> \in Seq(UnitSet)
    OBVIOUS
  <2>2. \A c \in Sockets : conn[c].data \in Seq(UnitSet)
    BY DEF StreamInv, DataType
  <2> QED
    BY <2>1, <2>2, <1>3, <1>11
<1>5. Reading'
  <2>1. rx.at # "accept" => rx.conn # fd \/ conn'[fd].peer = conn[fd].peer
    BY <1>11 DEF StreamInv, InOrder, Reading, Broken
  <2> QED
    BY <2>1, <1>1, <1>3 DEF StreamInv, InOrder, Reading
<1>6. \A c : Before(c)' = Before(c)
  BY <1>1 DEF Before, Whole
<1>7. Continues'
  <2>1. \A c \in Sockets : Chain(<<>>, Before(c)) /\ Chain(conn[c].data, Before(c))
    BY DEF Chain, StreamInv, InOrder, Continues
  <2>2. \A c \in Sockets : conn'[c].data \in {<<>>, conn[c].data}
    BY <1>3, <1>11
  <2> QED
    BY <2>1, <2>2, <1>6 DEF Continues
<1>8. NoneWrites'
  BY <1>1, BoundAssumption DEF IInv, Writer, NoneWrites, Sending
<1>9. ASSUME NEW c \in Sockets, conn'[c].ours, Intact(c)' PROVE Latest(c)'.part = Payload
  <2>1. c # fd /\ conn[c].ours /\ conn'[c] = conn[c]
    BY <1>3, <1>9
  <2>2. Intact(c)
    BY <2>1, <1>1, <1>9 DEF Release, Intact, Broken
  <2>3. Latest(c)' = Latest(c)
    BY <2>1, <1>6 DEF Latest
  <2> QED
    BY <2>1, <2>2, <2>3 DEF StreamInv, InOrder, RestTail
<1>10. \A x \in Threads : thr'[x].frame \in FrameSet
  BY <1>3 DEF StreamInv, DataType, FrameSet
<1> QED
  BY <1>1, <1>4, <1>5, <1>7, <1>8, <1>9, <1>10, IdleTails DEF InOrder

\* What goes elsewhere touches no connection, and g_compositor_fd is closed.
LEMMA ElsewhereStream ==
  ASSUME IInv, IInv', StreamInv, NEW t \in Threads, Referent = Other, WroteElsewhere(t)
  PROVE  InOrder' /\ (\A x \in Threads : thr'[x].frame \in FrameSet) /\ UNCHANGED <<conn, rx>>
<1>1. thr[t].at \in Sending /\ UNCHANGED <<conn, rx, fd, beneath>>
  BY DEF WroteElsewhere, numbers, compositor
<1>2. fd \in Sockets /\ \A u \in Threads : u # t => thr[u].at \notin Sending
  BY <1>1, WriterAlone
<1>3. fd \in beneath
  BY <1>2, BoundAssumption DEF Referent
<1>4. /\ \A x \in Threads : x # t => thr'[x] = thr[x]
      /\ \/ thr'[t].at = "payload" /\ thr'[t].left = Payload /\ thr'[t].frame = thr[t].frame
         \/ thr'[t].at = "parse" /\ thr'[t].frame = None
  BY DEF WroteElsewhere, IInv, Shape, ThreadShape, Quiet
<1>5. /\ \A c : Before(c)' = Before(c) /\ Latest(c)' = Latest(c) /\ (Intact(c)' <=> Intact(c))
      /\ ~Intact(fd) /\ ~Intact(fd)'
  BY <1>1, <1>3 DEF Before, Latest, Intact, Broken, Whole
<1>6. Reading' /\ Continues'
  BY <1>1, <1>5 DEF StreamInv, InOrder, Reading, Continues
<1>7. WriterTail'
  <2> SUFFICES ASSUME NEW x \in Threads, thr'[x].at = "payload" PROVE thr'[x].left \in 1..Payload
    BY <1>5 DEF WriterTail
  <2>1. x = t
    BY <1>2, <1>4 DEF Sending
  <2> QED
    BY <2>1, <1>4 DEF Payload
<1>8. RestTail'
  <2> SUFFICES ASSUME NEW c \in Sockets, conn'[c].ours, Intact(c)' PROVE Latest(c)'.part = Payload
    BY DEF RestTail
  <2>1. c # fd /\ conn[c].ours /\ Intact(c)
    BY <1>1, <1>5
  <2> QED
    BY <2>1, <1>5 DEF StreamInv, InOrder, RestTail
<1>9. \A x \in Threads : thr'[x].frame \in FrameSet
  BY <1>4 DEF StreamInv, DataType, FrameSet
<1> QED
  BY <1>1, <1>6, <1>7, <1>8, <1>9 DEF InOrder

\* A new connection is empty, and its reader has not begun: it is none that is
\* read.
LEMMA OpensStream ==
  ASSUME IInv, StreamInv, NEW c \in Free, Connected(c), NoneWrites, NoneWrites', rx' = rx
  PROVE  InOrder' /\ \A d \in Sockets : conn'[d].data \in Seq(UnitSet)
<1>1. c \in Sockets /\ conn[c] = NoConn
  BY DEF Free
<1>2. /\ conn'[c] = [ours |-> TRUE, peer |-> "queued", data |-> <<>>]
      /\ \A d \in Sockets : d # c => conn'[d] = conn[d]
  BY <1>1 DEF Connected, IInv, Shape, ConnShape
<1>3. \A d \in Sockets : conn'[d].data \in Seq(UnitSet)
  <2>1. <<>> \in Seq(UnitSet)
    OBVIOUS
  <2>2. conn'[c].data = <<>> /\ \A d \in Sockets : d # c => conn'[d].data = conn[d].data
    BY <1>2
  <2>3. \A d \in Sockets : conn[d].data \in Seq(UnitSet)
    BY DEF StreamInv, DataType
  <2> QED
    BY <2>1, <2>2, <2>3
<1>4. rx.at # "accept" => rx.conn # c
  BY <1>1 DEF StreamInv, InOrder, Reading, NoConn
<1>5. Reading'
  BY <1>2, <1>4 DEF StreamInv, InOrder, Reading
<1>6. Before(c) = Whole /\ \A d : Before(d)' = Before(d)
  BY <1>4 DEF Before, Whole
<1>7. Continues'
  <2>1. Chain(conn'[c].data, Before(c))
    BY <1>2 DEF Chain
  <2> QED
    BY <2>1, <1>2, <1>6 DEF StreamInv, InOrder, Continues
<1>8. ASSUME NEW d \in Sockets, conn'[d].ours, Intact(d)' PROVE Latest(d)'.part = Payload
  <2>1. CASE d = c
    <3>1. Latest(c)' = Whole
      BY <1>2, <1>6 DEF Latest
    <3> QED
      BY <2>1, <3>1 DEF Whole, Unit
  <2>2. CASE d # c
    <3>1. conn[d].ours /\ Intact(d) /\ Latest(d)' = Latest(d)
      BY <2>2, <1>2, <1>6, <1>8 DEF Intact, Broken, Latest, Connected
    <3> QED
      BY <3>1, NobodyWrites
  <2> QED
    BY <2>1, <2>2
<1> QED
  BY <1>3, <1>5, <1>7, <1>8, IdleTails DEF InOrder

LEMMA ConnectStream ==
  ASSUME IInv, IInv', StreamInv, NEW t \in Threads, Connect(t)
  PROVE  /\ InOrder' /\ (\A x \in Threads : thr'[x].frame \in FrameSet) /\ UNCHANGED rx
         /\ \A c \in Sockets : conn'[c].data \in Seq(UnitSet)
<1>1. /\ thr[t].at = "connect" /\ fd = None /\ UNCHANGED <<fd, mutex, rx>>
  BY DEF Connect, compositor, IInv, OneReconnects, Reconnecting
<1>2. NoneWrites /\ NoneWrites'
  BY <1>1 DEF IInv, Writer, NoneWrites, Sending
<1>3. \A x \in Threads : thr'[x].frame = thr[x].frame
  BY DEF Connect, IInv, Shape, ThreadShape
<1>4. CASE UNCHANGED <<conn, beneath>>
  <2>1. InOrder'
    BY <1>1, <1>2, <1>4, SameConn DEF StreamInv, NoneWrites
  <2> QED
    BY <2>1, <1>1, <1>3, <1>4 DEF StreamInv, DataType
<1>5. ASSUME NEW c \in Free, Connected(c)
      PROVE  InOrder' /\ \A d \in Sockets : conn'[d].data \in Seq(UnitSet)
  BY <1>1, <1>2, <1>5, OpensStream
<1> QED
  BY <1>1, <1>3, <1>4, <1>5 DEF Connect, StreamInv, DataType, numbers

\* The connection installed is empty, and nobody was writing to another.
LEMMA InstallStream ==
  ASSUME IInv, IInv', StreamInv, NEW t \in Threads, Install(t)
  PROVE  /\ InOrder' /\ (\A x \in Threads : thr'[x].frame \in FrameSet) /\ UNCHANGED <<conn, rx>>
<1>1. thr[t].at = "install" /\ mutex = None /\ mutex' = None
  BY DEF Install
<1>2. fd = None
  BY <1>1 DEF IInv, OneReconnects, Reconnecting
<1>3. UNCHANGED <<conn, beneath, rx>> /\ thr' = [thr EXCEPT ![t] = Quiet]
  BY <1>2 DEF Install, numbers, compositor
<1>4. NoneWrites /\ NoneWrites'
  BY <1>1, BoundAssumption DEF IInv, Writer, NoneWrites, Sending
<1>5. \A x \in Threads : thr'[x].frame \in {None, thr[x].frame}
  BY <1>3 DEF IInv, Shape, ThreadShape, Quiet
<1>6. \A c : Before(c)' = Before(c) /\ Latest(c)' = Latest(c) /\ (Intact(c)' => Intact(c))
  BY <1>3 DEF Before, Latest, Intact, Broken, Whole
<1>7. Reading' /\ Continues'
  BY <1>3, <1>6 DEF StreamInv, InOrder, Reading, Continues
<1>8. ASSUME NEW c \in Sockets, conn'[c].ours, Intact(c)' PROVE Latest(c)'.part = Payload
  BY <1>3, <1>4, <1>6, <1>8, NobodyWrites
<1> QED
  BY <1>3, <1>4, <1>5, <1>7, <1>8, IdleTails DEF InOrder, StreamInv, DataType, FrameSet

LEMMA BootStream ==
  ASSUME IInv, IInv', StreamInv, BootConnect
  PROVE  /\ InOrder' /\ UNCHANGED <<thr, rx>>
         /\ \A c \in Sockets : conn'[c].data \in Seq(UnitSet)
<1>1. boot > 0 /\ UNCHANGED <<thr, rx>>
  BY DEF BootConnect, compositor
<1>2. NoneWrites /\ NoneWrites'
  BY <1>1 DEF IInv, Boot, NoneWrites
<1>3. CASE UNCHANGED <<conn, fd, beneath>>
  <2>1. InOrder'
    BY <1>1, <1>3, SameConn DEF StreamInv
  <2> QED
    BY <2>1, <1>1, <1>3 DEF StreamInv, DataType
<1>4. ASSUME NEW c \in Free, Connected(c)
      PROVE  InOrder' /\ \A d \in Sockets : conn'[d].data \in Seq(UnitSet)
  BY <1>1, <1>2, <1>4, OpensStream
<1> QED
  BY <1>1, <1>3, <1>4 DEF BootConnect, numbers

-----------------------------------------------------------------------------
(* The compositor and the restarts.                                         *)

\* The end of a connection that stays open is the same, whoever reads it.
LEMMA ReadTails ==
  ASSUME IInv, StreamInv, UNCHANGED <<thr, fd, beneath>>,
         \A c \in Sockets : conn'[c].ours = conn[c].ours,
         \A c \in Sockets : conn[c].ours /\ Intact(c)' =>
           /\ Intact(c)
           /\ \/ Latest(c)' = Latest(c)
              \/ Latest(c)'.part = Payload /\ Latest(c).part = Payload
  PROVE  WriterTail' /\ RestTail'
<1>1. ASSUME NEW t \in Threads, thr[t].at = "payload"
      PROVE  /\ thr[t].left \in 1..Payload
             /\ Intact(fd)' => Latest(fd)' = Unit(thr[t].frame, Payload - thr[t].left)
  <2>1. fd \in Sockets /\ conn[fd].ours
    BY <1>1, WriterAlone DEF Sending
  <2>2. thr[t].left \in 1..Payload
    BY <1>1 DEF StreamInv, InOrder, WriterTail
  <2>3. ASSUME Intact(fd)' PROVE Latest(fd)' = Unit(thr[t].frame, Payload - thr[t].left)
    <3>1. Intact(fd) /\ Latest(fd) = Unit(thr[t].frame, Payload - thr[t].left)
      BY <2>1, <2>3, <1>1 DEF StreamInv, InOrder, WriterTail
    <3>2. Latest(fd).part # Payload
      BY <2>2, <3>1 DEF Unit, Payload
    <3> QED
      BY <2>1, <2>3, <3>1, <3>2
  <2> QED
    BY <2>2, <2>3
<1>2. NoneWrites' <=> NoneWrites
  BY DEF NoneWrites
<1>3. RestTail'
  BY <1>2 DEF StreamInv, InOrder, RestTail
<1> QED
  BY <1>1, <1>3 DEF WriterTail

LEMMA AcceptStream ==
  ASSUME IInv, StreamInv, Accept
  PROVE  InOrder' /\ rx' \in RxSet /\ \A c \in Sockets : conn'[c].data \in Seq(UnitSet)
<1>1. PICK c \in Sockets : /\ conn[c].peer = "queued"
                           /\ conn' = [conn EXCEPT ![c].peer = "open"]
                           /\ rx' = [Listening EXCEPT !.at = "header", !.conn = c]
  BY DEF Accept
<1>2. rx.at = "accept" /\ UNCHANGED <<thr, fd, beneath>>
  BY DEF numbers, Accept
<1>3. rx' = [at |-> "header", conn |-> c, frame |-> None, got |-> 0]
  BY <1>1 DEF Listening
<1>4. \A d : Before(d)' = Whole /\ Before(d) = Whole
  BY <1>2, <1>3 DEF Before, Whole
<1>5. /\ \A d \in Sockets : conn'[d].data = conn[d].data /\ conn'[d].ours = conn[d].ours
      /\ \A d \in Sockets : conn'[d].peer = IF d = c THEN "open" ELSE conn[d].peer
  BY <1>1 DEF IInv, Shape, ConnShape
<1>6. Reading'
  BY <1>3, <1>5 DEF Reading
<1>7. Continues'
  BY <1>4, <1>5 DEF StreamInv, InOrder, Continues
<1>8. \A d \in Sockets : (Intact(d)' => Intact(d)) /\ Latest(d)' = Latest(d)
  BY <1>1, <1>2, <1>4, <1>5 DEF Intact, Broken, Latest
<1>9. WriterTail' /\ RestTail'
  BY <1>2, <1>5, <1>8, ReadTails
<1>10. rx' \in RxSet
  BY <1>3 DEF RxSet, FrameSet, Payload
<1> QED
  BY <1>5, <1>6, <1>7, <1>9, <1>10 DEF InOrder, StreamInv, DataType

LEMMA LatestSame ==
  ASSUME NEW c, conn'[c].data = conn[c].data, Before(c)' = Before(c)
  PROVE  Latest(c)' = Latest(c)
BY DEF Latest

LEMMA LatestIs ==
  ASSUME NEW c, NEW d, conn'[c].data = d
  PROVE  Latest(c)' = IF d = <<>> THEN Before(c)' ELSE d[Len(d)]
BY DEF Latest

\* The reader has taken the header of frame f.
LEMMA HeaderTaken ==
  ASSUME NEW x \in RxSet, NEW f
  PROVE  [x EXCEPT !.at = "payload", !.frame = f, !.got = 0]
           = [at |-> "payload", conn |-> x.conn, frame |-> f, got |-> 0]
<1>1. DOMAIN x = {"at", "conn", "frame", "got"} /\ x = [i \in DOMAIN x |-> x[i]]
  BY DEF RxSet
<1>2. x = [at |-> x.at, conn |-> x.conn, frame |-> x.frame, got |-> x.got]
  BY <1>1
<1> DEFINE y == [x EXCEPT !.at = "payload", !.frame = f, !.got = 0]
<1>3. /\ DOMAIN y = {"at", "conn", "frame", "got"} /\ y = [i \in DOMAIN y |-> y[i]]
      /\ y.at = "payload" /\ y.conn = x.conn /\ y.frame = f /\ y.got = 0
  BY <1>1
<1> HIDE DEF y
<1>4. y = [at |-> "payload", conn |-> x.conn, frame |-> f, got |-> 0]
  BY <1>3
<1> QED
  BY <1>4 DEF y

\* The reader takes the first unit.
LEMMA TakesStream ==
  ASSUME IInv, StreamInv, UNCHANGED <<thr, fd, beneath>>, NEW r \in Sockets, r = rx.conn,
         rx.at # "accept", rx' \in RxSet, rx'.at # "accept", rx'.conn = r,
         rx'.at = "payload" => rx'.got < Payload,
         conn[r].data # <<>>, conn' = [conn EXCEPT ![r].data = Tail(@)],
         \/ Before(r)' = conn[r].data[1]
         \/ Before(r)'.part = Payload /\ conn[r].data[1].part = Payload
  PROVE  InOrder' /\ \A c \in Sockets : conn'[c].data \in Seq(UnitSet)
<1> DEFINE q == conn[r].data
           w == Before(r)'
<1>1. r \in Sockets /\ conn[r].peer = "open"
  BY DEF StreamInv, InOrder, Reading
<1>2. /\ conn'[r].data = Tail(q) /\ \A c \in Sockets : c # r => conn'[c].data = conn[c].data
      /\ \A c \in Sockets : conn'[c].ours = conn[c].ours /\ conn'[c].peer = conn[c].peer
  BY <1>1 DEF IInv, Shape, ConnShape
<1>3. \A c \in Sockets : c # r => Before(c) = Whole /\ Before(c)' = Whole
  BY DEF Before, Whole
<1>4. /\ q \in Seq(UnitSet) /\ q # <<>> /\ Before(r) \in UnitSet /\ Chain(q, Before(r))
  BY <1>1, BeforeIn DEF StreamInv, DataType, InOrder, Continues
<1>5. w \in UnitSet
  <2>1. Whole \in UnitSet
    BY BeforeIn DEF StreamInv
  <2>2. CASE rx'.at = "payload"
    <3>1. w = Unit(rx'.frame, rx'.got) /\ rx'.frame \in FrameSet /\ rx'.got \in 0..Payload
      BY <2>2 DEF Before, RxSet
    <3> QED
      BY <3>1, UnitIn
  <2>3. CASE rx'.at # "payload"
    BY <2>1, <2>3 DEF Before, Whole
  <2> QED
    BY <2>2, <2>3
<1>6. /\ w = q[1] \/ (w.part = Payload /\ q[1].part = Payload)
      /\ w = IF rx'.at = "payload" THEN Unit(rx'.frame, rx'.got) ELSE Whole
  BY DEF Before, Whole
<1>7. Latest(r) = q[Len(q)] /\ Latest(r)' = IF Tail(q) = <<>> THEN w ELSE Tail(q)[Len(Tail(q))]
  <2>1. Latest(r) = q[Len(q)]
    BY <1>4 DEF Latest
  <2>2. conn'[r].data = Tail(q)
    BY <1>2
  <2>3. Latest(r)' = IF Tail(q) = <<>> THEN w ELSE Tail(q)[Len(Tail(q))]
    BY <2>2, LatestIs
  <2> QED
    BY <2>1, <2>3
<1> HIDE DEF w, q
<1>8. /\ Chain(Tail(q), w) /\ Tail(q) \in Seq(UnitSet)
      /\ IF Tail(q) = <<>> THEN q[Len(q)] = q[1] ELSE Tail(q)[Len(Tail(q))] = q[Len(q)]
  BY <1>4, <1>5, <1>6, ChainTail
<1>9. Reading'
  BY <1>1, <1>2 DEF Reading
<1>10. Continues'
  <2>1. Chain(conn'[r].data, Before(r)')
    BY <1>2, <1>8 DEF w
  <2> QED
    BY <2>1, <1>2, <1>3 DEF StreamInv, InOrder, Continues
<1>11. \/ Latest(r)' = Latest(r)
       \/ Latest(r)'.part = Payload /\ Latest(r).part = Payload
  BY <1>6, <1>7, <1>8
<1>12. \A c \in Sockets : (Intact(c)' => Intact(c)) /\ (c # r => Latest(c)' = Latest(c))
  <2> TAKE c \in Sockets
  <2>1. Intact(c)' => Intact(c)
    BY <1>2 DEF Intact, Broken
  <2>2. ASSUME c # r PROVE Latest(c)' = Latest(c)
    <3>1. conn'[c].data = conn[c].data /\ Before(c)' = Before(c)
      BY <2>2, <1>2, <1>3
    <3> QED
      BY <3>1, LatestSame
  <2> QED
    BY <2>1, <2>2
<1>13. WriterTail' /\ RestTail'
  BY <1>2, <1>11, <1>12, ReadTails
<1>14. \A c \in Sockets : conn'[c].data \in Seq(UnitSet)
  <2>1. \A c \in Sockets : conn[c].data \in Seq(UnitSet)
    BY DEF StreamInv, DataType
  <2> QED
    BY <2>1, <1>2, <1>8
<1> QED
  BY <1>9, <1>10, <1>13, <1>14 DEF InOrder

\* A connection the reader closes ends there.
LEMMA ClosesStream ==
  ASSUME IInv, StreamInv, UNCHANGED <<thr, fd, beneath>>, rx.at # "accept", rx' = Listening,
         Close(rx.conn)
  PROVE  InOrder' /\ rx' \in RxSet /\ \A c \in Sockets : conn'[c].data \in Seq(UnitSet)
<1> DEFINE r == rx.conn
<1>1. r \in Sockets /\ conn[r].peer = "open"
  BY DEF StreamInv, InOrder, Reading
<1>2. /\ \A c \in Sockets : c # r => conn'[c] = conn[c]
      /\ conn'[r].data = <<>> /\ conn'[r].ours = conn[r].ours
      /\ conn[r].ours => conn'[r].peer = "closed"
  BY <1>1 DEF Close, NoConn, IInv, Shape, ConnShape
<1>3. \A c : Before(c)' = Whole /\ (c # r => Before(c) = Whole)
  BY DEF Before, Whole, Listening
<1>4. Reading'
  BY DEF Reading, Listening
<1>5. Continues'
  <2>1. Chain(conn'[r].data, Before(r)')
    BY <1>2 DEF Chain
  <2> QED
    BY <2>1, <1>2, <1>3 DEF StreamInv, InOrder, Continues
<1>6. \A c \in Sockets : conn[c].ours /\ Intact(c)' => Intact(c) /\ Latest(c)' = Latest(c)
  <2> SUFFICES ASSUME NEW c \in Sockets, conn[c].ours, Intact(c)'
               PROVE  Intact(c) /\ Latest(c)' = Latest(c)
    OBVIOUS
  <2>1. c # r /\ conn'[c] = conn[c]
    BY <1>2 DEF Intact, Broken
  <2>2. Before(c)' = Before(c)
    BY <2>1, <1>3
  <2> QED
    BY <2>1, <2>2 DEF Intact, Broken, Latest
<1>7. WriterTail' /\ RestTail'
  BY <1>2, <1>6, ReadTails
<1>8. \A c \in Sockets : conn'[c].data \in Seq(UnitSet)
  <2>1. <<>> \in Seq(UnitSet)
    OBVIOUS
  <2>2. \A c \in Sockets : conn[c].data \in Seq(UnitSet)
    BY DEF StreamInv, DataType
  <2> QED
    BY <2>1, <2>2, <1>2
<1>9. rx' \in RxSet
  BY DEF Listening, RxSet, FrameSet, Payload
<1> QED
  BY <1>4, <1>5, <1>7, <1>8, <1>9 DEF InOrder

\* A header is what comes where a header is read, and its payload behind it.
LEMMA FirstUnit ==
  ASSUME StreamInv, rx.at # "accept", conn[rx.conn].data # <<>>
  PROVE  /\ Next1 \in UnitSet
         /\ rx.at = "header" => Next1.part = 0
         /\ rx.at = "payload" => Next1 = Unit(rx.frame, rx.got + 1)
<1> DEFINE q == conn[rx.conn].data
<1>1. q \in Seq(UnitSet) /\ q # <<>> /\ Chain(q, Before(rx.conn)) /\ Whole \in UnitSet
  BY BeforeIn DEF StreamInv, DataType, InOrder, Reading, Continues
<1>2. 1 \in 1..Len(q) /\ q[1] \in UnitSet /\ Next1 = q[1]
  BY <1>1 DEF Next1
<1>3. Follows(Before(rx.conn), q[1])
  BY <1>1, <1>2 DEF Chain
<1>4. ASSUME rx.at = "header" PROVE Next1.part = 0
  <2>1. Follows(Whole, q[1]) /\ Whole.part = Payload
    BY <1>3, <1>4 DEF Before, Whole, Unit
  <2> QED
    BY <2>1, <1>1, <1>2, HeaderNext
<1>5. ASSUME rx.at = "payload" PROVE Next1 = Unit(rx.frame, rx.got + 1)
  <2>1. rx.got \in Nat /\ rx.got < Payload /\ Follows(Unit(rx.frame, rx.got), q[1])
    BY <1>3, <1>5 DEF Before, StreamInv, InOrder, Reading, DataType, RxSet
  <2> QED
    BY <2>1, <1>2 DEF Follows, Unit
<1> QED
  BY <1>2, <1>4, <1>5

LEMMA RxHeaderStream ==
  ASSUME IInv, StreamInv, RxHeader
  PROVE  InOrder' /\ rx' \in RxSet /\ \A c \in Sockets : conn'[c].data \in Seq(UnitSet)
<1>1. rx.at = "header" /\ conn[rx.conn].data # <<>> /\ UNCHANGED <<thr, fd, beneath>>
  BY DEF numbers, RxHeader
<1>4. PICK r \in Sockets : r = rx.conn
  BY <1>1 DEF StreamInv, InOrder, Reading
<1>2. CASE Close(rx.conn) /\ rx' = Listening
  BY <1>1, <1>2, ClosesStream
<1>3. CASE /\ conn' = [conn EXCEPT ![rx.conn].data = Tail(@)]
           /\ rx' = [rx EXCEPT !.at = "payload", !.frame = Next1.frame, !.got = 0]
  <2>1. Next1 \in UnitSet /\ Next1.part = 0 /\ Next1.frame \in FrameSet
        /\ Next1 = Unit(Next1.frame, 0)
    BY <1>1, FirstUnit, UnitParts
  <2>2. PICK f \in FrameSet : f = Next1.frame
    BY <2>1
  <2>3. rx' = [rx EXCEPT !.at = "payload", !.frame = f, !.got = 0] /\ rx \in RxSet
    BY <1>3, <2>2 DEF StreamInv, DataType
  <2>4. /\ rx' \in RxSet /\ rx'.at = "payload" /\ rx'.conn = rx.conn /\ rx'.got = 0
        /\ rx'.frame = f
    <3>1. rx' = [at |-> "payload", conn |-> rx.conn, frame |-> f, got |-> 0]
      BY <2>3, HeaderTaken
    <3>2. rx.conn \in Sockets \cup {None}
      BY <2>3 DEF RxSet
    <3> QED
      BY <3>1, <3>2 DEF RxSet, Payload
  <2>5. Before(r)' = conn[r].data[1]
    BY <1>4, <2>1, <2>2, <2>4 DEF Before, Next1
  <2>6. 0 < Payload /\ conn' = [conn EXCEPT ![r].data = Tail(@)]
    BY <1>3, <1>4 DEF Payload
  <2> QED
    BY <1>1, <1>4, <2>4, <2>5, <2>6, TakesStream
<1> QED
  BY <1>2, <1>3 DEF RxHeader

LEMMA RxPayloadStream ==
  ASSUME IInv, StreamInv, RxPayload
  PROVE  InOrder' /\ rx' \in RxSet /\ \A c \in Sockets : conn'[c].data \in Seq(UnitSet)
<1>1. /\ rx.at = "payload" /\ conn[rx.conn].data # <<>> /\ UNCHANGED <<thr, fd, beneath>>
      /\ conn' = [conn EXCEPT ![rx.conn].data = Tail(@)]
  BY DEF numbers, RxPayload
<1>2. /\ rx.got \in Nat /\ rx.got < Payload /\ rx.frame \in FrameSet
      /\ rx.conn \in Sockets
  BY <1>1 DEF StreamInv, DataType, RxSet, InOrder, Reading
<1>3. Next1 = Unit(rx.frame, rx.got + 1)
  BY <1>1, FirstUnit
<1>6. PICK r \in Sockets : r = rx.conn
  BY <1>2
<1>4. CASE rx.got + 1 < Payload /\ rx' = [rx EXCEPT !.got = @ + 1]
  <2>1. /\ rx' \in RxSet /\ rx'.at = "payload" /\ rx'.conn = rx.conn /\ rx'.got = rx.got + 1
        /\ rx'.frame = rx.frame
    BY <1>1, <1>2, <1>4 DEF StreamInv, DataType, RxSet, Payload
  <2>2. Before(r)' = conn[r].data[1]
    BY <1>3, <1>6, <2>1 DEF Before, Next1
  <2> QED
    BY <1>1, <1>4, <1>6, <2>1, <2>2, TakesStream
<1>5. CASE /\ ~(rx.got + 1 < Payload)
           /\ rx' = [Listening EXCEPT !.at = "header", !.conn = rx.conn]
  <2>1. rx' = [at |-> "header", conn |-> rx.conn, frame |-> None, got |-> 0]
    BY <1>5 DEF Listening
  <2>2. rx' \in RxSet
    BY <2>1, <1>2 DEF RxSet, FrameSet, Payload
  <2>3. Before(r)'.part = Payload
    BY <2>1 DEF Before, Whole, Unit
  <2>4. conn[r].data[1].part = Payload
    BY <1>6, <1>2, <1>3, <1>5 DEF Next1, Unit, Payload
  <2> QED
    BY <1>1, <1>6, <2>1, <2>2, <2>3, <2>4, TakesStream
<1> QED
  BY <1>4, <1>5 DEF RxPayload

LEMMA CrashStream ==
  ASSUME IInv, StreamInv, Crash
  PROVE  InOrder' /\ rx' \in RxSet /\ \A c \in Sockets : conn'[c].data \in Seq(UnitSet)
<1>1. /\ rx' = Listening /\ UNCHANGED <<thr, fd, beneath>>
      /\ \A c \in Sockets : /\ conn'[c].data = <<>> /\ conn'[c].ours = conn[c].ours
                            /\ conn[c].ours => conn'[c].peer = "closed"
  BY DEF numbers, Crash, NoConn, IInv, Shape, ConnShape
<1>2. Reading'
  BY <1>1 DEF Reading, Listening
<1>3. Continues'
  BY <1>1 DEF Continues, Chain
<1>4. WriterTail' /\ RestTail'
  BY <1>1, ReadTails DEF Intact, Broken
<1>5. rx' \in RxSet
  BY <1>1 DEF Listening, RxSet, FrameSet, Payload
<1>6. <<>> \in Seq(UnitSet)
  OBVIOUS
<1> QED
  BY <1>1, <1>2, <1>3, <1>4, <1>5, <1>6 DEF InOrder

\* The daemon's ends close, wherever its threads are in their frames; what they
\* have written stays to be read.
LEMMA DaemonRestartStream ==
  ASSUME IInv, StreamInv, DaemonRestart
  PROVE  /\ InOrder' /\ (\A x \in Threads : thr'[x].frame \in FrameSet) /\ UNCHANGED rx
         /\ \A c \in Sockets : conn'[c].data \in Seq(UnitSet)
<1>1. /\ UNCHANGED rx
      /\ \A x \in Threads : thr'[x].at = "parse" /\ thr'[x].frame = None
  BY DEF DaemonRestart, Quiet
<1>2. /\ \A c \in Sockets : conn'[c].ours = FALSE
      /\ \A c \in Sockets : \/ conn'[c].data = conn[c].data /\ conn'[c].peer = conn[c].peer
                            \/ conn'[c].data = <<>> /\ conn[c].peer = "closed"
  BY DEF DaemonRestart, CloseOurs, Intact, Broken, NoConn, IInv, Shape, ConnShape
<1>3. \A c : Before(c)' = Before(c)
  BY <1>1 DEF Before, Whole
<1>4. Reading'
  BY <1>1, <1>2 DEF StreamInv, InOrder, Reading
<1>5. Continues'
  <2>1. \A c \in Sockets : Chain(<<>>, Before(c))
    BY DEF Chain
  <2> QED
    BY <2>1, <1>2, <1>3 DEF StreamInv, InOrder, Continues
<1>6. WriterTail' /\ RestTail'
  BY <1>1, <1>2 DEF WriterTail, RestTail
<1>7. \A c \in Sockets : conn'[c].data \in Seq(UnitSet)
  <2>1. <<>> \in Seq(UnitSet)
    OBVIOUS
  <2>2. \A c \in Sockets : conn[c].data \in Seq(UnitSet)
    BY DEF StreamInv, DataType
  <2> QED
    BY <2>1, <2>2, <1>2
<1> QED
  BY <1>1, <1>4, <1>5, <1>6, <1>7 DEF InOrder, FrameSet

LEMMA NextStream == ASSUME IInv, StreamInv, [Next]_vars PROVE StreamInv'
<1>1. IInv' /\ AirType' /\ ZeroInv' /\ sent' \in [Threads -> Nat]
  BY NextIInv, NextZero, MirrorKeeps DEF StreamInv
<1>2. ASSUME /\ InOrder' /\ rx' \in RxSet /\ \A x \in Threads : thr'[x].frame \in FrameSet
             /\ \A c \in Sockets : conn'[c].data \in Seq(UnitSet)
      PROVE  StreamInv'
  BY <1>1, <1>2 DEF StreamInv, DataType
<1>3. /\ rx \in RxSet /\ \A x \in Threads : thr[x].frame \in FrameSet
      /\ \A c \in Sockets : conn[c].data \in Seq(UnitSet)
  BY DEF StreamInv, DataType
<1>4. ASSUME NEW t \in Threads, ReadPacket(t) \/ Cleanup(t) \/ Send(t) \/ WriteElsewhere(t)
      PROVE  StreamInv'
  <2>1. CASE ReadPacket(t) \/ Cleanup(t)
    BY <1>2, <1>3, <2>1, ReadStream, CleanupStream
  <2>2. CASE Lock(t) \/ WriteHeader(t) \/ WritePayload(t)
    BY <1>2, <1>3, <2>2, LockStream, HeaderStream, PayloadStream
  <2>3. CASE WriteFails(t) \/ WriteElsewhere(t)
    <3>1. \/ thr[t].at \in Sending /\ GivesUp(t)
          \/ Referent = Other /\ WroteElsewhere(t)
      BY <2>3, ElsewhereIs DEF WriteFails, CannotWrite, Sending
    <3> QED
      BY <1>1, <1>2, <1>3, <3>1, FailsStream, ElsewhereStream
  <2>4. CASE Connect(t) \/ Install(t)
    BY <1>1, <1>2, <1>3, <2>4, ConnectStream, InstallStream
  <2> QED
    BY <1>4, <2>1, <2>2, <2>3, <2>4 DEF Send
<1>5. CASE BootConnect
  BY <1>1, <1>2, <1>3, <1>5, BootStream
<1>6. CASE RxEnd
  BY <1>2, <1>3, <1>6, ClosesStream DEF RxEnd, numbers
<1>7. CASE Receive \/ Crash
  <2>1. UNCHANGED thr
    BY <1>7 DEF Receive, Accept, RxHeader, RxPayload, RxEnd, Crash
  <2> QED
    BY <2>1, <1>2, <1>3, <1>6, <1>7, AcceptStream, RxHeaderStream, RxPayloadStream, CrashStream
    DEF Receive
<1>8. CASE DaemonRestart
  BY <1>2, <1>3, <1>8, DaemonRestartStream
<1>9. ASSUME UNCHANGED <<thr, conn, fd, rx, beneath>> PROVE StreamInv'
  <2>1. InOrder'
    BY <1>9, SameConn DEF StreamInv
  <2> QED
    BY <2>1, <1>2, <1>3, <1>9
<1>10. CASE \/ OtherOpens \/ OtherCloses \/ Restart \/ UNCHANGED vars
            \/ \E t \in Threads : \E kind \in Kinds : SendPacket(t, kind)
  BY <1>9, <1>10
  DEF OtherOpens, OtherCloses, Restart, vars, SendPacket, link, numbers, compositor
<1> QED
  BY <1>4, <1>5, <1>7, <1>8, <1>10 DEF Next

\* The compositor never takes a payload for a header nor puts a frame together
\* from two, whatever connection broke or was closed as descriptor 0 in the
\* middle of a frame, and whichever program was restarted (compositor_send_video,
\* carplay_recv_thread).
THEOREM ReadersInStep == Spec => []InStep
<1>1. IInv /\ StreamInv /\ [Next]_vars => IInv' /\ StreamInv'
  BY NextIInv, NextStream
<1>2. Init => IInv /\ StreamInv
  BY InitIInv, InitStream
<1>3. IInv /\ StreamInv => InStep
  BY InStepHolds
<1> QED
  BY <1>1, <1>2, <1>3, PTL DEF Spec

-----------------------------------------------------------------------------
(* The numbers and the bounds.  A frame that is under way anywhere is one   *)
(* of a session's and has a number its phone has given; the sockets, the    *)
(* tries and the restarts keep within their bounds.                         *)

FrameRecord == [by : Threads, n : Nat, big : BOOLEAN]
Known(f, s) == f \in FrameRecord /\ f.n <= s[f.by]
AllKnown(q, s) == \A i \in 1..Len(q) : Known(q[i].frame, s)

Numbers(s) == s \in [Threads -> Nat] /\ \A t \in Threads : s[t] <= MaxFrames[t]

Shown == shown \in [Threads -> Nat] /\ \A t \in Threads : shown[t] <= sent[t]
AirKnown == \A t \in Threads : \A i \in 1..Len(air[t]) : air[t][i].n <= sent[t]
ThrKnown == \A t \in Threads : thr[t].at \in {"lock", "header", "payload"}
                                 => Known(thr[t].frame, sent)
ConnKnown == \A c \in Sockets : AllKnown(conn[c].data, sent)
RxKnown == rx.at = "payload" => Known(rx.frame, sent)

NumberInv == Numbers(sent) /\ Shown /\ AirKnown /\ ThrKnown /\ ConnKnown /\ RxKnown

Peers == {"none", "queued", "open", "closed"}

ThreadBounds == \A t \in Threads : /\ thr[t].left \in 0..Payload /\ thr[t].tries \in 0..MaxTries
                                   /\ thr[t].at = "connect" => thr[t].tries > 0
ConnBounds == \A c \in Sockets : conn[c].peer \in Peers /\ Len(conn[c].data) <= Room
Rest == up \in BOOLEAN /\ restarts \in 0..MaxRestarts

BoundInv == ThreadBounds /\ ConnBounds /\ Rest

\* A frame that was known stays so: numbers only grow.
LEMMA KnownStays ==
  ASSUME NEW s \in [Threads -> Nat], NEW z \in [Threads -> Nat],
         \A t \in Threads : s[t] <= z[t], NEW f, Known(f, s)
  PROVE  Known(f, z)
<1>1. f.by \in Threads /\ f.n \in Nat /\ f.n <= s[f.by] /\ s[f.by] \in Nat /\ z[f.by] \in Nat
  BY DEF Known, FrameRecord
<1>2. f.n <= z[f.by]
  BY <1>1
<1> QED
  BY <1>2 DEF Known

\* The phones number their frames one by one, up to the last.
LEMMA SentGrows ==
  ASSUME NumberInv, [Next]_vars
  PROVE  Numbers(sent)' /\ \A t \in Threads : sent[t] <= sent'[t]
<1>1. /\ sent \in [Threads -> Nat] /\ \A t \in Threads : sent[t] \in Nat
      /\ \A t \in Threads : sent[t] <= MaxFrames[t] /\ MaxFrames[t] \in Nat
  BY BoundAssumption DEF NumberInv, Numbers
<1>2. ASSUME NEW t \in Threads, NEW kind \in Kinds, SendPacket(t, kind)
      PROVE  Numbers(sent)' /\ \A u \in Threads : sent[u] <= sent'[u]
  BY <1>1, <1>2 DEF SendPacket, Numbers
<1>3. ASSUME UNCHANGED sent PROVE Numbers(sent)' /\ \A u \in Threads : sent[u] <= sent'[u]
  BY <1>1, <1>3 DEF Numbers
<1>4. CASE \E t \in Threads : ReadPacket(t)
  BY <1>3, <1>4 DEF ReadPacket
<1>5. CASE DaemonRestart
  BY <1>3, <1>5 DEF DaemonRestart
<1> QED
  BY <1>2, <1>3, <1>4, <1>5, PhonesLeft

\* The packet sent carries the number given last, in all its units.
LEMMA AirStays ==
  ASSUME StreamInv, NumberInv, [Next]_vars PROVE AirKnown'
<1>1. \A t \in Threads : sent[t] <= sent'[t] /\ sent[t] \in Nat /\ sent'[t] \in Nat
  BY SentGrows DEF NumberInv, Numbers
<1>9. ASSUME NEW t \in Threads, NEW i \in 1..Len(air[t]) PROVE air[t][i].n <= sent'[t]
  <2>1. air[t] \in Seq(PartSet)
    BY DEF StreamInv, AirType
  <2>2. air[t][i] \in PartSet
    BY <2>1
  <2>3. air[t][i].n \in Nat /\ air[t][i].n <= sent[t]
    BY <2>2 DEF PartSet, NumberInv, AirKnown
  <2> QED
    BY <1>1, <2>3
<1>2. ASSUME NEW t \in Threads, NEW q, \A u \in Threads : air'[u] = air[u] \/ (u = t /\ air'[u] = q),
             \A i \in 1..Len(q) : q[i].n <= sent'[t]
      PROVE  AirKnown'
  <2>1. ASSUME NEW u \in Threads, NEW i \in 1..Len(air'[u]) PROVE air'[u][i].n <= sent'[u]
    <3>1. CASE air'[u] = air[u]
      BY <1>9, <2>1, <3>1
    <3>2. CASE u = t /\ air'[u] = q
      BY <1>2, <2>1, <3>2
    <3> QED
      BY <1>2, <3>1, <3>2
  <2> QED
    BY <2>1 DEF AirKnown
<1>3. ASSUME NEW t \in Threads, NEW kind \in Kinds, SendPacket(t, kind) PROVE AirKnown'
  <2>1. PICK k \in {1, Units(kind)} :
          air' = [air EXCEPT ![t] = SubSeq(Packet(kind, sent'[t]), 1, k)]
    BY <1>3 DEF SendPacket
  <2>2. PICK q : q = SubSeq(Packet(kind, sent'[t]), 1, k)
    OBVIOUS
  <2>3. sent'[t] \in Nat
    BY <1>1
  <2>4. \A i \in 1..Len(q) : q[i].n = sent'[t]
    <3>1. PICK n \in Nat : n = sent'[t]
      BY <2>3
    <3>2. q = SubSeq(Packet(kind, n), 1, k)
      BY <2>2, <3>1
    <3>3. AllNumbered(q, n)
      BY <3>2, PacketParts
    <3> QED
      BY <3>1, <3>3 DEF AllNumbered
  <2>5. \A i \in 1..Len(q) : q[i].n <= sent'[t]
    BY <2>3, <2>4
  <2>6. \A u \in Threads : air'[u] = air[u] \/ (u = t /\ air'[u] = q)
    BY <2>1, <2>2
  <2> QED
    BY <1>2, <2>5, <2>6
<1>4. ASSUME NEW t \in Threads, ReadPacket(t) PROVE AirKnown'
  <2>1. air[t] # <<>>
    BY <1>4 DEF ReadPacket
  <2>2. PICK r : r = SubSeq(air[t], 1 + Taken(Head(air[t]).kind) + 1, Len(air[t]))
    OBVIOUS
  <2>3. \A i \in 1..Len(r) : \E j \in 1..Len(air[t]) : r[i] = air[t][j]
    BY <2>1, <2>2, PacketTaken DEF StreamInv
  <2>4. air' = [air EXCEPT ![t] = <<>>] \/ air' = [air EXCEPT ![t] = r]
    BY <1>4, <2>2 DEF ReadPacket
  <2>5. \A i \in 1..Len(r) : r[i].n <= sent'[t]
    BY <1>9, <2>3
  <2>6. \A i \in 1..Len(<<>>) : (<<>>)[i].n <= sent'[t]
    OBVIOUS
  <2>7. CASE air' = [air EXCEPT ![t] = r]
    <3>1. \A u \in Threads : air'[u] = air[u] \/ (u = t /\ air'[u] = r)
      BY <2>7
    <3> QED
      BY <1>2, <2>5, <3>1
  <2>8. CASE air' = [air EXCEPT ![t] = <<>>]
    <3>1. \A u \in Threads : air'[u] = air[u] \/ (u = t /\ air'[u] = <<>>)
      BY <2>8
    <3> QED
      BY <1>2, <2>6, <3>1
  <2> QED
    BY <2>4, <2>7, <2>8
<1>5. CASE DaemonRestart
  <2>1. \A t \in Threads : air'[t] = <<>>
    BY <1>5 DEF DaemonRestart
  <2> QED
    BY <2>1 DEF AirKnown
<1>6. ASSUME UNCHANGED air PROVE AirKnown'
  BY <1>6, <1>9 DEF AirKnown
<1> QED
  BY <1>3, <1>4, <1>5, <1>6, PhonesLeft

\* A thread takes its frame from its stream and holds it until it is written,
\* dropped or lost with the connection.
LEMMA ThrStays ==
  ASSUME IInv, StreamInv, NumberInv, [Next]_vars PROVE ThrKnown'
<1>1. /\ Numbers(sent) /\ Numbers(sent)' /\ \A t \in Threads : sent[t] <= sent'[t]
      /\ DOMAIN thr = Threads
      /\ \A t \in Threads : DOMAIN thr[t] = {"at", "frame", "left", "tries", "new"}
  BY SentGrows DEF NumberInv, IInv, Shape, ThreadShape
<1> DEFINE Same(u) == thr'[u].frame = thr[u].frame /\ thr[u].at \in {"lock", "header", "payload"}
           Idle(u) == thr'[u].at \notin {"lock", "header", "payload"}
<1>2. ASSUME NEW t \in Threads, Idle(t) \/ Same(t) \/ Known(thr'[t].frame, sent),
             \A u \in Threads : u # t => thr'[u] = thr[u]
      PROVE  ThrKnown'
  <2>1. ASSUME NEW u \in Threads, ~Idle(u) PROVE Known(thr'[u].frame, sent)
    BY <1>2, <2>1 DEF NumberInv, ThrKnown
  <2>2. ASSUME NEW u \in Threads, ~Idle(u) PROVE Known(thr'[u].frame, sent')
    BY <1>1, <2>1, <2>2, KnownStays DEF Numbers
  <2> QED
    BY <2>2 DEF ThrKnown
<1>3. ASSUME UNCHANGED thr PROVE ThrKnown'
  <2>1. ASSUME NEW u \in Threads, thr[u].at \in {"lock", "header", "payload"}
        PROVE  Known(thr[u].frame, sent')
    BY <1>1, <2>1, KnownStays DEF Numbers, NumberInv, ThrKnown
  <2> QED
    BY <1>3, <2>1 DEF ThrKnown
<1>4. ASSUME NEW t \in Threads, ReadPacket(t) PROVE ThrKnown'
  <2> DEFINE f == [by |-> t, n |-> Head(air[t]).n, big |-> Head(air[t]).kind = "big"]
  <2>1. air[t] # <<>> /\ thr[t].at = "parse"
    BY <1>4 DEF ReadPacket
  <2>2. Head(air[t]).n \in Nat /\ Head(air[t]).n <= sent[t]
    BY <2>1, PacketTaken DEF StreamInv, NumberInv, AirKnown, PartSet
  <2>3. Known(f, sent)
    BY <2>2 DEF Known, FrameRecord
  <2>4. \/ thr' = [thr EXCEPT ![t].at = "done"]
        \/ thr' = [thr EXCEPT ![t].at = "lock", ![t].frame = f]
        \/ thr' = thr
    BY <1>4 DEF ReadPacket
  <2> HIDE DEF f
  <2>5. thr'[t].frame = f \/ Idle(t)
    BY <1>1, <2>1, <2>4
  <2>6. \A u \in Threads : u # t => thr'[u] = thr[u]
    BY <2>4, <1>1
  <2> QED
    BY <1>2, <2>3, <2>5, <2>6
<1>5. ASSUME NEW t \in Threads, Send(t) \/ WriteElsewhere(t) \/ Cleanup(t) PROVE ThrKnown'
  <2>1. CASE Lock(t) \/ WriteHeader(t)
    <3>1. /\ thr[t].at \in {"lock", "header"}
          /\ \/ thr' = [thr EXCEPT ![t] = Quiet] \/ thr' = [thr EXCEPT ![t].at = "header"]
             \/ thr' = [thr EXCEPT ![t].at = "payload", ![t].left = Payload]
      BY <2>1 DEF Lock, WriteHeader
    <3>2. Idle(t) \/ Same(t)
      BY <3>1, <1>1 DEF Quiet
    <3>3. \A u \in Threads : u # t => thr'[u] = thr[u]
      BY <3>1, <1>1
    <3> QED
      BY <1>2, <3>2, <3>3
  <2>2. CASE WritePayload(t)
    <3>1. /\ thr[t].at = "payload"
          /\ \/ thr' = [thr EXCEPT ![t] = Quiet]
             \/ \E k \in 1..thr[t].left : thr' = [thr EXCEPT ![t].left = @ - k]
      BY <2>2 DEF WritePayload
    <3>2. Idle(t) \/ Same(t)
      BY <3>1, <1>1 DEF Quiet
    <3>3. \A u \in Threads : u # t => thr'[u] = thr[u]
      BY <3>1, <1>1
    <3> QED
      BY <1>2, <3>2, <3>3
  <2>5. CASE WroteElsewhere(t)
    <3>1. /\ thr[t].at \in {"header", "payload"}
          /\ \/ thr' = [thr EXCEPT ![t] = Quiet]
             \/ thr' = [thr EXCEPT ![t].at = "payload", ![t].left = Payload]
      BY <2>5 DEF WroteElsewhere, Sending
    <3>2. Idle(t) \/ Same(t)
      BY <3>1, <1>1 DEF Quiet
    <3>3. \A u \in Threads : u # t => thr'[u] = thr[u]
      BY <3>1, <1>1
    <3> QED
      BY <1>2, <3>2, <3>3
  <2>6. CASE Cleanup(t)
    <3>1. Idle(t) /\ \A u \in Threads : u # t => thr'[u] = thr[u]
      BY <2>6, <1>1 DEF Cleanup
    <3> QED
      BY <1>2, <3>1
  <2>3. CASE GivesUp(t) \/ Install(t)
    <3>1. PICK w : thr' = [thr EXCEPT ![t] = w] /\ w.at \in {"parse", "connect"}
      <4>1. CASE GivesUp(t)
        <5>1. thr' = [thr EXCEPT ![t] = [Quiet EXCEPT !.at = "connect", !.tries = MaxTries]]
          BY <4>1 DEF GivesUp
        <5>2. [Quiet EXCEPT !.at = "connect", !.tries = MaxTries].at = "connect"
          BY DEF Quiet
        <5> QED
          BY <5>1, <5>2
      <4>2. CASE Install(t)
        <5>1. thr' = [thr EXCEPT ![t] = Quiet] /\ Quiet.at = "parse"
          BY <4>2 DEF Install, Quiet
        <5> QED
          BY <5>1
      <4> QED
        BY <2>3, <4>1, <4>2
    <3>2. Idle(t)
      BY <3>1, <1>1
    <3>3. \A u \in Threads : u # t => thr'[u] = thr[u]
      BY <3>1, <1>1
    <3> QED
      BY <1>2, <3>2, <3>3
  <2>4. CASE Connect(t)
    <3>1. Idle(t) /\ \A u \in Threads : u # t => thr'[u] = thr[u]
      BY <2>4, <1>1 DEF Connect
    <3> QED
      BY <1>2, <3>1
  <2> QED
    BY <1>5, <2>1, <2>2, <2>3, <2>4, <2>5, <2>6, ElsewhereIs DEF Send, WriteFails
<1>6. CASE \E t \in Threads : \E kind \in Kinds : SendPacket(t, kind)
  BY <1>3, <1>6 DEF SendPacket
<1>7. CASE Receive \/ BootConnect \/ Crash \/ Restart \/ OtherOpens \/ OtherCloses
  BY <1>3, <1>7, OthersLeave
<1>8. CASE UNCHANGED vars
  BY <1>3, <1>8 DEF vars
<1>9. CASE DaemonRestart
  BY <1>9 DEF DaemonRestart, ThrKnown, Quiet
<1> QED
  BY <1>4, <1>5, <1>6, <1>7, <1>8, <1>9 DEF Next

LEMMA AllKnownStays ==
  ASSUME NEW s \in [Threads -> Nat], NEW z \in [Threads -> Nat],
         \A t \in Threads : s[t] <= z[t], NEW q, AllKnown(q, s)
  PROVE  AllKnown(q, z)
BY KnownStays DEF AllKnown

LEMMA NothingUnknown == ASSUME NEW s PROVE AllKnown(<<>>, s)
BY DEF AllKnown

LEMMA ConcatKnown ==
  ASSUME NEW s, NEW q \in Seq(UnitSet), NEW v \in Seq(UnitSet), AllKnown(q, s), AllKnown(v, s)
  PROVE  AllKnown(q \o v, s)
<1>1. /\ Len(q \o v) = Len(q) + Len(v) /\ Len(q) \in Nat /\ Len(v) \in Nat
      /\ \A i \in 1..Len(q) : (q \o v)[i] = q[i]
      /\ \A i \in 1..Len(v) : (q \o v)[Len(q) + i] = v[i]
  OBVIOUS
<1>2. ASSUME NEW i \in 1..Len(q \o v) PROVE Known((q \o v)[i].frame, s)
  <2>1. CASE i <= Len(q)
    BY <2>1, <1>1 DEF AllKnown
  <2>2. CASE i > Len(q)
    <3>1. i - Len(q) \in 1..Len(v) /\ (q \o v)[i] = v[i - Len(q)]
      <4>1. i - Len(q) \in 1..Len(v) /\ Len(q) + (i - Len(q)) = i
        BY <2>2, <1>1
      <4> QED
        BY <4>1, <1>1
    <3> QED
      BY <3>1 DEF AllKnown
  <2> QED
    BY <2>1, <2>2, <1>1
<1> QED
  BY <1>2 DEF AllKnown

LEMMA TailKnown ==
  ASSUME NEW s, NEW q \in Seq(UnitSet), q # <<>>, AllKnown(q, s)
  PROVE  AllKnown(Tail(q), s) /\ Known(q[1].frame, s)
<1>1. /\ Len(q) \in Nat /\ Len(q) > 0 /\ Len(Tail(q)) = Len(q) - 1
      /\ \A i \in 1..Len(Tail(q)) : Tail(q)[i] = q[i + 1] /\ i + 1 \in 1..Len(q)
  OBVIOUS
<1> QED
  BY <1>1 DEF AllKnown

\* Some units behind what a connection holds.
LEMMA WritesKnown ==
  ASSUME IInv, StreamInv, NumberInv, fd \in Sockets, NEW v \in Seq(UnitSet), AllKnown(v, sent),
         conn' = [conn EXCEPT ![fd].data = @ \o v]
  PROVE  \A c \in Sockets : AllKnown(conn'[c].data, sent)
<1>1. DOMAIN conn = Sockets /\ \A c \in Sockets : DOMAIN conn[c] = {"ours", "peer", "data"}
  BY DEF IInv, Shape, ConnShape
<1>2. /\ \A c \in Sockets : c # fd => conn'[c].data = conn[c].data
      /\ conn'[fd].data = conn[fd].data \o v
  BY <1>1
<1>3. conn[fd].data \in Seq(UnitSet) /\ \A c \in Sockets : AllKnown(conn[c].data, sent)
  BY DEF StreamInv, DataType, NumberInv, ConnKnown
<1> QED
  BY <1>2, <1>3, ConcatKnown

\* A connection is as it was, or empty.
LEMMA KeepsKnown ==
  ASSUME NumberInv, \A c \in Sockets : conn'[c].data = conn[c].data \/ conn'[c].data = <<>>
  PROVE  \A c \in Sockets : AllKnown(conn'[c].data, sent)
BY NothingUnknown DEF NumberInv, ConnKnown

LEMMA RunKnown ==
  ASSUME NEW s, NEW f \in FrameSet, Known(f, s), NEW p \in 0..Payload, NEW k \in 0..(Payload - p),
         NEW v, v = Run(f, p, k)
  PROVE  v \in Seq(UnitSet) /\ AllKnown(v, s)
<1>1. k \in Nat /\ \A i \in 1..k : p + i \in 0..Payload
  BY DEF Payload
<1>2. \A i \in 1..k : Unit(f, p + i) \in UnitSet /\ Unit(f, p + i).frame = f
  BY <1>1, UnitIn DEF Unit
<1>3. v \in [1..k -> UnitSet] /\ \A i \in 1..k : v[i].frame = f
  BY <1>2 DEF Run
<1>4. v \in Seq(UnitSet) /\ Len(v) = k
  BY <1>1, <1>3, SeqOfLength
<1> QED
  BY <1>3, <1>4 DEF AllKnown

LEMMA HeaderKnown ==
  ASSUME NEW s, NEW f \in FrameSet, Known(f, s)
  PROVE  <<Unit(f, 0)>> \in Seq(UnitSet) /\ AllKnown(<<Unit(f, 0)>>, s)
<1>1. Unit(f, 0) \in UnitSet /\ Unit(f, 0).frame = f
  <2>1. 0 \in 0..Payload
    BY DEF Payload
  <2> QED
    BY <2>1, UnitIn DEF Unit
<1> DEFINE v == <<Unit(f, 0)>>
<1>2. v \in Seq(UnitSet) /\ Len(v) = 1 /\ v[1] = Unit(f, 0)
  BY <1>1
<1>3. AllKnown(v, s)
  <2> HIDE DEF v
  <2> QED
    BY <1>1, <1>2 DEF AllKnown
<1> QED
  BY <1>2, <1>3

\* What a thread writes is of its own frame.
LEMMA SendKnown ==
  ASSUME IInv, IInv', StreamInv, NumberInv, NEW t \in Threads, Send(t) \/ WriteElsewhere(t)
  PROVE  \A c \in Sockets : AllKnown(conn'[c].data, sent)
<1>1. DOMAIN conn = Sockets /\ \A c \in Sockets : DOMAIN conn[c] = {"ours", "peer", "data"}
  BY DEF IInv, Shape, ConnShape
<1>2. CASE WriteHeader(t)
  <2>6. thr[t].at = "header" /\ Write(<<Unit(thr[t].frame, 0)>>)
    BY <1>2 DEF WriteHeader
  <2>1. thr[t].at = "header" /\ conn' = [conn EXCEPT ![fd].data = @ \o <<Unit(thr[t].frame, 0)>>]
    BY <2>6, WritesOwn DEF Sending
  <2>2. fd \in Sockets /\ Known(thr[t].frame, sent) /\ thr[t].frame \in FrameSet
    BY <2>1, WriterAlone DEF Sending, NumberInv, ThrKnown, StreamInv, DataType
  <2>3. PICK v : v = <<Unit(thr[t].frame, 0)>>
    OBVIOUS
  <2>4. v \in Seq(UnitSet) /\ AllKnown(v, sent)
    BY <2>2, <2>3, HeaderKnown
  <2>5. conn' = [conn EXCEPT ![fd].data = @ \o v]
    BY <2>1, <2>3
  <2> QED
    BY <2>2, <2>4, <2>5, WritesKnown
<1>3. CASE WritePayload(t)
  <2>1. thr[t].at = "payload"
    BY <1>3 DEF WritePayload
  <2>2. /\ thr[t].left \in 1..Payload /\ fd \in Sockets /\ Known(thr[t].frame, sent)
        /\ thr[t].frame \in FrameSet
    BY <2>1, WriterAlone DEF Sending, NumberInv, ThrKnown, StreamInv, DataType, InOrder, WriterTail
  <2>3. PICK k \in 1..thr[t].left :
          Write([i \in 1..k |-> Unit(thr[t].frame, Payload - thr[t].left + i)])
    BY <1>3 DEF WritePayload
  <2>4. PICK p : p = Payload - thr[t].left
    OBVIOUS
  <2>5. p \in 0..Payload /\ k \in 0..(Payload - p)
    BY <2>2, <2>4 DEF Payload
  <2>6. PICK v : v = Run(thr[t].frame, p, k)
    OBVIOUS
  <2>7. v \in Seq(UnitSet) /\ AllKnown(v, sent)
    BY <2>2, <2>5, <2>6, RunKnown
  <2>9. Write(v)
    BY <2>3, <2>4, <2>6 DEF Run
  <2>8. conn' = [conn EXCEPT ![fd].data = @ \o v]
    BY <2>1, <2>9, WritesOwn DEF Sending
  <2> QED
    BY <2>2, <2>7, <2>8, WritesKnown
<1>4. CASE Lock(t) \/ Install(t) \/ WroteElsewhere(t)
  <2>1. UNCHANGED conn
    BY <1>4, InstallStream DEF Lock, WroteElsewhere
  <2> QED
    BY <2>1, KeepsKnown
<1>5. CASE GivesUp(t)
  <2>1. conn' = [conn EXCEPT ![fd] = CloseOurs(fd)]
    BY <1>5 DEF GivesUp
  <2>2. \A c \in Sockets : conn'[c].data = conn[c].data \/ conn'[c].data = <<>>
    BY <1>1, <2>1 DEF CloseOurs, NoConn
  <2> QED
    BY <2>2, KeepsKnown
<1>6. CASE Connect(t)
  <2>1. \A c \in Sockets : conn'[c].data = conn[c].data \/ conn'[c].data = <<>>
    BY <1>1, <1>6 DEF Connect, Connected, Free
  <2> QED
    BY <2>1, KeepsKnown
<1> QED
  BY <1>2, <1>3, <1>4, <1>5, <1>6, ElsewhereIs DEF Send, WriteFails

\* Closing its end, the compositor empties the connection or leaves it.
LEMMA CloseEmpties ==
  ASSUME IInv, NEW r, Close(r)
  PROVE  \A c \in Sockets : conn'[c].data = conn[c].data \/ conn'[c].data = <<>>
BY DEF IInv, Shape, ConnShape, Close, NoConn

\* The compositor takes one unit off a connection at most.
LEMMA ReceiveKnown ==
  ASSUME IInv, StreamInv, NumberInv, Receive
  PROVE  \A c \in Sockets : AllKnown(conn'[c].data, sent)
<1>1. DOMAIN conn = Sockets /\ \A c \in Sockets : DOMAIN conn[c] = {"ours", "peer", "data"}
  BY DEF IInv, Shape, ConnShape
<1>2. ASSUME rx.at # "accept", conn[rx.conn].data # <<>>,
             conn' = [conn EXCEPT ![rx.conn].data = Tail(@)]
      PROVE  \A c \in Sockets : AllKnown(conn'[c].data, sent)
  <2>1. PICK r \in Sockets : r = rx.conn
    BY <1>2 DEF StreamInv, InOrder, Reading
  <2>2. /\ conn'[r].data = Tail(conn[r].data)
        /\ \A c \in Sockets : c # r => conn'[c].data = conn[c].data
    BY <1>1, <1>2, <2>1
  <2>3. /\ conn[r].data \in Seq(UnitSet) /\ conn[r].data # <<>>
        /\ \A c \in Sockets : AllKnown(conn[c].data, sent)
    BY <1>2, <2>1 DEF StreamInv, DataType, NumberInv, ConnKnown
  <2> QED
    BY <2>2, <2>3, TailKnown
<1>3. CASE RxPayload
  BY <1>2, <1>3 DEF RxPayload
<1>4. CASE RxHeader
  <2>1. CASE Close(rx.conn)
    BY <2>1, CloseEmpties, KeepsKnown
  <2>2. CASE conn' = [conn EXCEPT ![rx.conn].data = Tail(@)]
    <3>1. rx.at # "accept" /\ conn[rx.conn].data # <<>>
      BY <1>4 DEF RxHeader
    <3> QED
      BY <1>2, <2>2, <3>1
  <2> QED
    BY <1>4, <2>1, <2>2 DEF RxHeader
<1>5. CASE RxEnd
  BY <1>5, CloseEmpties, KeepsKnown DEF RxEnd
<1>6. CASE Accept
  <2>1. \A c \in Sockets : conn'[c].data = conn[c].data
    BY <1>1, <1>6 DEF Accept
  <2> QED
    BY <2>1, KeepsKnown
<1> QED
  BY <1>3, <1>4, <1>5, <1>6 DEF Receive

LEMMA CrashEmpties ==
  ASSUME IInv, Crash
  PROVE  rx' = Listening /\ UNCHANGED shown /\ \A c \in Sockets : conn'[c].data = <<>>
<1>1. /\ DOMAIN conn = Sockets
      /\ \A c \in Sockets : DOMAIN conn[c] = {"ours", "peer", "data"} /\ conn[c].ours \in BOOLEAN
  BY DEF IInv, Shape, ConnShape
<1>2. rx' = Listening /\ UNCHANGED shown
  BY Zenon DEF Crash
<1>3. conn' = [c \in Sockets |->
                IF conn[c].ours THEN [conn[c] EXCEPT !.peer = "closed", !.data = <<>>] ELSE NoConn]
  BY Zenon DEF Crash
<1>4. ASSUME NEW c \in Sockets PROVE conn'[c].data = <<>>
  <2>1. CASE conn[c].ours
    <3>1. conn'[c] = [conn[c] EXCEPT !.peer = "closed", !.data = <<>>]
      BY <1>3, <2>1, Zenon
    <3> QED
      BY <1>1, <3>1
  <2>2. CASE ~conn[c].ours
    <3>1. conn'[c] = NoConn
      BY <1>3, <2>2, Zenon
    <3> QED
      BY <3>1 DEF NoConn
  <2> QED
    BY <2>1, <2>2
<1> QED
  BY <1>2, <1>4

LEMMA ConnStays ==
  ASSUME IInv, StreamInv, NumberInv, [Next]_vars PROVE ConnKnown'
<1>1. IInv' /\ sent \in [Threads -> Nat] /\ sent' \in [Threads -> Nat]
      /\ \A t \in Threads : sent[t] <= sent'[t]
  BY NextIInv, SentGrows DEF NumberInv, Numbers
<1>2. ASSUME \A c \in Sockets : AllKnown(conn'[c].data, sent) PROVE ConnKnown'
  <2>1. \A c \in Sockets : AllKnown(conn'[c].data, sent')
    BY <1>1, <1>2, AllKnownStays
  <2> QED
    BY <2>1 DEF ConnKnown
<1>3. CASE Receive
  BY <1>2, <1>3, ReceiveKnown
<1>4. CASE \E t \in Threads : Send(t) \/ WriteElsewhere(t)
  BY <1>1, <1>2, <1>4, SendKnown
<1>5. ASSUME UNCHANGED conn PROVE ConnKnown'
  BY <1>2, <1>5, KeepsKnown
<1>6. CASE BootConnect
  <2>1. \A c \in Sockets : conn'[c].data = conn[c].data \/ conn'[c].data = <<>>
    BY <1>6 DEF BootConnect, Connected, Free, IInv, Shape, ConnShape
  <2> QED
    BY <1>2, <2>1, KeepsKnown
<1>7. CASE Crash
  <2>1. \A c \in Sockets : conn'[c].data = <<>>
    BY <1>7, CrashEmpties
  <2> QED
    BY <1>2, <2>1, KeepsKnown
<1>8. CASE DaemonRestart
  <2>1. \A c \in Sockets : conn'[c].data = conn[c].data \/ conn'[c].data = <<>>
    BY <1>8 DEF DaemonRestart, CloseOurs, Broken, NoConn, IInv, Shape, ConnShape
  <2> QED
    BY <1>2, <2>1, KeepsKnown
<1>9. CASE \E t \in Threads : \/ ReadPacket(t) \/ Cleanup(t)
                              \/ \E kind \in Kinds : SendPacket(t, kind)
  BY <1>5, <1>9 DEF ReadPacket, SendPacket, Cleanup, link
<1>10. CASE Restart \/ OtherOpens \/ OtherCloses \/ UNCHANGED vars
  BY <1>5, <1>10 DEF Restart, OtherOpens, OtherCloses, link, vars
<1> QED
  BY <1>3, <1>4, <1>6, <1>7, <1>8, <1>9, <1>10 DEF Next

\* The frame being read comes out of a connection, and what has been shown has
\* been read.
LEMMA RxStays ==
  ASSUME IInv, StreamInv, NumberInv, [Next]_vars PROVE RxKnown' /\ Shown'
<1>1. /\ sent \in [Threads -> Nat] /\ sent' \in [Threads -> Nat] /\ shown \in [Threads -> Nat]
      /\ \A t \in Threads : sent[t] <= sent'[t] /\ shown[t] <= sent[t]
  BY SentGrows DEF NumberInv, Numbers, Shown
<1>2. ASSUME rx'.at = "payload" => Known(rx'.frame, sent) PROVE RxKnown'
  BY <1>1, <1>2, KnownStays DEF RxKnown
<1>3. ASSUME UNCHANGED shown PROVE Shown'
  <2>1. \A t \in Threads : shown[t] \in Nat /\ sent[t] \in Nat /\ sent'[t] \in Nat
    BY <1>1
  <2> QED
    BY <1>1, <1>3, <2>1 DEF Shown
<1>4. ASSUME UNCHANGED <<rx, shown>> PROVE RxKnown' /\ Shown'
  BY <1>2, <1>3, <1>4 DEF NumberInv, RxKnown
<1>5. CASE RxHeader
  <2>1. UNCHANGED shown /\ rx.at = "header" /\ conn[rx.conn].data # <<>>
    BY <1>5 DEF RxHeader
  <2>2. PICK r \in Sockets : r = rx.conn
    BY <2>1 DEF StreamInv, InOrder, Reading
  <2>3. Known(Next1.frame, sent)
    <3>1. conn[r].data \in Seq(UnitSet) /\ AllKnown(conn[r].data, sent)
      BY DEF StreamInv, DataType, NumberInv, ConnKnown
    <3> QED
      BY <3>1, <2>1, <2>2, TailKnown DEF Next1
  <2>4. rx' = Listening \/ rx' = [rx EXCEPT !.at = "payload", !.frame = Next1.frame, !.got = 0]
    BY <1>5 DEF RxHeader
  <2>5. rx'.at = "payload" => rx'.frame = Next1.frame
    <3>1. rx \in RxSet
      BY DEF StreamInv, DataType
    <3>2. PICK f \in FrameSet : f = Next1.frame
      BY <2>1, FirstUnit, UnitParts
    <3>3. CASE rx' = Listening
      BY <3>3 DEF Listening
    <3>4. CASE rx' = [rx EXCEPT !.at = "payload", !.frame = f, !.got = 0]
      <4>1. rx' = [at |-> "payload", conn |-> rx.conn, frame |-> f, got |-> 0]
        BY <3>1, <3>4, HeaderTaken, Zenon
      <4> QED
        BY <3>2, <4>1
    <3> QED
      BY <2>4, <3>2, <3>3, <3>4
  <2> QED
    BY <1>2, <1>3, <2>1, <2>3, <2>5
<1>6. CASE RxPayload
  <2>1. rx.at = "payload" /\ Known(rx.frame, sent) /\ rx \in RxSet
    BY <1>6 DEF RxPayload, NumberInv, RxKnown, StreamInv, DataType
  <2>2. \/ rx' = [rx EXCEPT !.got = @ + 1] /\ UNCHANGED shown
        \/ /\ rx' = [Listening EXCEPT !.at = "header", !.conn = rx.conn]
           /\ shown' = [shown EXCEPT ![rx.frame.by] = rx.frame.n]
    BY <1>6 DEF RxPayload
  <2>3. rx'.at = "payload" => rx'.frame = rx.frame
    BY <2>1, <2>2 DEF Listening, RxSet
  <2>4. RxKnown'
    BY <1>2, <2>1, <2>3
  <2>5. ASSUME shown' = [shown EXCEPT ![rx.frame.by] = rx.frame.n] PROVE Shown'
    <3>1. PICK u \in Threads, n \in Nat : u = rx.frame.by /\ n = rx.frame.n /\ n <= sent[u]
      BY <2>1 DEF Known, FrameRecord
    <3>2. shown' = [shown EXCEPT ![u] = n]
      BY <2>5, <3>1
    <3>3. shown' \in [Threads -> Nat] /\ \A t \in Threads : shown'[t] <= sent[t]
      BY <1>1, <3>1, <3>2
    <3>4. \A t \in Threads : shown'[t] \in Nat /\ sent[t] \in Nat /\ sent'[t] \in Nat
      BY <1>1, <3>3
    <3> QED
      BY <1>1, <3>3, <3>4 DEF Shown
  <2> QED
    BY <1>3, <2>2, <2>4, <2>5
<1>7. CASE Accept
  BY <1>2, <1>3, <1>7 DEF Accept, Listening
<1>8. CASE RxEnd
  BY <1>2, <1>3, <1>8 DEF RxEnd, Listening
<1>9. CASE Crash
  BY <1>2, <1>3, <1>9, CrashEmpties DEF Listening
<1>10. CASE \E t \in Threads : Send(t) \/ WriteElsewhere(t)
  <2>1. UNCHANGED compositor
    BY <1>10 DEF Send, Lock, WriteHeader, WritePayload, WriteFails, GivesUp, Connect, Install,
       WriteElsewhere
  <2> QED
    BY <1>4, <2>1 DEF compositor
<1>11. CASE \E t \in Threads : \/ ReadPacket(t) \/ Cleanup(t)
                               \/ \E kind \in Kinds : SendPacket(t, kind)
  BY <1>4, <1>11 DEF ReadPacket, SendPacket, Cleanup, compositor
<1>12. CASE BootConnect \/ OtherOpens \/ OtherCloses
  BY <1>4, <1>12 DEF BootConnect, OtherOpens, OtherCloses, compositor
<1>13. CASE Restart \/ DaemonRestart
  BY <1>4, <1>13 DEF Restart, DaemonRestart
<1>14. CASE UNCHANGED vars
  BY <1>4, <1>14 DEF vars
<1> QED
  BY <1>5, <1>6, <1>7, <1>8, <1>9, <1>10, <1>11, <1>12, <1>13, <1>14 DEF Next, Receive

\* A write leaves less to write, a failed connect a try less.
LEMMA ThreadBoundsStay ==
  ASSUME IInv, StreamInv, ThreadBounds, [Next]_vars PROVE ThreadBounds'
<1>1. /\ DOMAIN thr = Threads /\ MaxTries \in Nat /\ MaxTries > 0
      /\ \A t \in Threads : DOMAIN thr[t] = {"at", "frame", "left", "tries", "new"}
  BY BoundAssumption DEF IInv, Shape, ThreadShape
<1> DEFINE Bounded(w) == /\ w.left \in 0..Payload /\ w.tries \in 0..MaxTries
                         /\ w.at = "connect" => w.tries > 0
<1>2. ASSUME NEW t \in Threads, Bounded(thr'[t]), \A u \in Threads : u # t => thr'[u] = thr[u]
      PROVE  ThreadBounds'
  BY <1>2 DEF ThreadBounds
<1>3. /\ Bounded(Quiet) /\ Bounded([Quiet EXCEPT !.at = "connect", !.tries = MaxTries])
      /\ \A t \in Threads : Bounded(thr[t])
  BY <1>1 DEF Quiet, Payload, ThreadBounds
<1>4. ASSUME NEW t \in Threads, NEW w, Bounded(w), thr' = [thr EXCEPT ![t] = w]
      PROVE  ThreadBounds'
  <2> HIDE DEF Bounded
  <2>1. thr'[t] = w /\ \A u \in Threads : u # t => thr'[u] = thr[u]
    BY <1>1, <1>4
  <2> QED
    BY <1>2, <1>4, <2>1
<1>5. ASSUME UNCHANGED thr PROVE ThreadBounds'
  BY <1>5 DEF ThreadBounds
<1>6. ASSUME NEW t \in Threads, thr'[t].left = thr[t].left, thr'[t].tries = thr[t].tries,
             thr'[t].at # "connect", \A u \in Threads : u # t => thr'[u] = thr[u]
      PROVE  ThreadBounds'
  BY <1>3, <1>6 DEF ThreadBounds
<1>7. ASSUME NEW t \in Threads, ReadPacket(t) \/ Cleanup(t) PROVE ThreadBounds'
  <2>1. thr[t].at \in {"parse", "done"}
    BY <1>7 DEF ReadPacket, Cleanup
  <2>2. PICK f : \/ thr' = [thr EXCEPT ![t].at = "done"]
                 \/ thr' = [thr EXCEPT ![t].at = "parse"]
                 \/ thr' = [thr EXCEPT ![t].at = "lock", ![t].frame = f]
                 \/ thr' = thr
    BY <1>7 DEF ReadPacket, Cleanup
  <2>3. /\ thr'[t].left = thr[t].left /\ thr'[t].tries = thr[t].tries /\ thr'[t].at # "connect"
        /\ \A u \in Threads : u # t => thr'[u] = thr[u]
    BY <1>1, <2>1, <2>2
  <2> QED
    BY <1>6, <2>3
<1>8. ASSUME NEW t \in Threads, Send(t) \/ WriteElsewhere(t) PROVE ThreadBounds'
  <2>1. ASSUME thr' = [thr EXCEPT ![t] = Quiet] PROVE ThreadBounds'
    BY <1>3, <1>4, <2>1
  <2>2. CASE Lock(t)
    <3>1. ASSUME thr' = [thr EXCEPT ![t].at = "header"] PROVE ThreadBounds'
      <4>1. /\ thr'[t].left = thr[t].left /\ thr'[t].tries = thr[t].tries /\ thr'[t].at # "connect"
            /\ \A u \in Threads : u # t => thr'[u] = thr[u]
        BY <1>1, <3>1
      <4> QED
        BY <1>6, <4>1
    <3> QED
      BY <2>1, <2>2, <3>1 DEF Lock
  <2>3. ASSUME thr' = [thr EXCEPT ![t].at = "payload", ![t].left = Payload] PROVE ThreadBounds'
    <3>2. /\ thr'[t].left = Payload /\ thr'[t].tries = thr[t].tries /\ thr'[t].at = "payload"
          /\ \A u \in Threads : u # t => thr'[u] = thr[u]
      BY <1>1, <2>3
    <3>3. Bounded(thr'[t])
      BY <1>3, <3>2 DEF Payload
    <3> QED
      BY <1>2, <3>2, <3>3
  <2>4. CASE WritePayload(t)
    <3>1. /\ thr[t].at = "payload"
          /\ \/ thr' = [thr EXCEPT ![t] = Quiet]
             \/ \E k \in 1..thr[t].left : thr' = [thr EXCEPT ![t].left = @ - k]
      BY <2>4 DEF WritePayload
    <3>2. ASSUME NEW k \in 1..thr[t].left, thr' = [thr EXCEPT ![t].left = @ - k]
          PROVE  ThreadBounds'
      <4>1. /\ thr'[t].left = thr[t].left - k /\ thr'[t].tries = thr[t].tries
            /\ thr'[t].at = "payload" /\ \A u \in Threads : u # t => thr'[u] = thr[u]
        BY <1>1, <3>1, <3>2
      <4>2. Bounded(thr'[t])
        <5>1. thr[t].left \in 0..Payload /\ thr[t].tries \in 0..MaxTries
          BY <1>3
        <5> QED
          BY <4>1, <5>1 DEF Payload
      <4> QED
        BY <1>2, <4>1, <4>2
    <3> QED
      BY <2>1, <3>1, <3>2
  <2>5. CASE GivesUp(t)
    <3>1. thr' = [thr EXCEPT ![t] = [Quiet EXCEPT !.at = "connect", !.tries = MaxTries]]
      BY <2>5 DEF GivesUp
    <3> QED
      BY <1>3, <1>4, <3>1
  <2>6. CASE Connect(t)
    <3>1. /\ thr[t].at = "connect"
          /\ \/ \E c : thr' = [thr EXCEPT ![t].at = "install", ![t].new = c]
             \/ thr' = [thr EXCEPT ![t].tries = @ - 1,
                              ![t].at = IF thr[t].tries = 1 THEN "install" ELSE "connect"]
             \/ thr' = [thr EXCEPT ![t].at = "install"]
      BY <2>6 DEF Connect
    <3>2. thr[t].tries \in 1..MaxTries
      BY <1>1, <1>3, <3>1
    <3>3. ASSUME NEW c, thr' = [thr EXCEPT ![t].at = "install", ![t].new = c]
          PROVE  ThreadBounds'
      <4>1. /\ thr'[t].left = thr[t].left /\ thr'[t].tries = thr[t].tries
            /\ thr'[t].at # "connect" /\ \A u \in Threads : u # t => thr'[u] = thr[u]
        BY <1>1, <3>3
      <4> QED
        BY <1>6, <4>1
    <3>4. ASSUME thr' = [thr EXCEPT ![t].tries = @ - 1,
                              ![t].at = IF thr[t].tries = 1 THEN "install" ELSE "connect"]
          PROVE  ThreadBounds'
      <4>1. /\ thr'[t].left = thr[t].left /\ thr'[t].tries = thr[t].tries - 1
            /\ thr'[t].at = IF thr[t].tries = 1 THEN "install" ELSE "connect"
            /\ \A u \in Threads : u # t => thr'[u] = thr[u]
        BY <1>1, <3>4
      <4>2. Bounded(thr'[t])
        BY <1>1, <1>3, <3>2, <4>1
      <4> QED
        BY <1>2, <4>1, <4>2
    <3>5. ASSUME thr' = [thr EXCEPT ![t].at = "install"] PROVE ThreadBounds'
      <4>1. /\ thr'[t].left = thr[t].left /\ thr'[t].tries = thr[t].tries
            /\ thr'[t].at # "connect" /\ \A u \in Threads : u # t => thr'[u] = thr[u]
        BY <1>1, <3>5
      <4> QED
        BY <1>6, <4>1
    <3> QED
      BY <3>1, <3>3, <3>4, <3>5
  <2>7. CASE Install(t)
    BY <2>1, <2>7 DEF Install
  <2>8. CASE WriteHeader(t) \/ WroteElsewhere(t)
    BY <2>1, <2>3, <2>8 DEF WriteHeader, WroteElsewhere
  <2> QED
    BY <1>8, <2>2, <2>4, <2>5, <2>6, <2>7, <2>8, ElsewhereIs DEF Send, WriteFails
<1>9. CASE \E t \in Threads : \E kind \in Kinds : SendPacket(t, kind)
  BY <1>5, <1>9 DEF SendPacket
<1>10. CASE Receive \/ BootConnect \/ Crash \/ Restart \/ OtherOpens \/ OtherCloses
  BY <1>5, <1>10, OthersLeave
<1>11. CASE DaemonRestart
  <2>1. \A t \in Threads : thr'[t] = Quiet
    BY <1>11 DEF DaemonRestart
  <2> QED
    BY <1>3, <2>1 DEF ThreadBounds
<1>12. CASE UNCHANGED vars
  BY <1>5, <1>12 DEF vars
<1> QED
  BY <1>7, <1>8, <1>9, <1>10, <1>11, <1>12 DEF Next

\* A write waits for room, and nothing else adds to what a socket holds.
LEMMA ConnBoundsStay ==
  ASSUME IInv, StreamInv, ConnBounds, [Next]_vars PROVE ConnBounds'
<1>1. /\ DOMAIN conn = Sockets /\ Room \in Nat
      /\ \A c \in Sockets : DOMAIN conn[c] = {"ours", "peer", "data"}
      /\ \A c \in Sockets : conn[c].data \in Seq(UnitSet)
      /\ \A c \in Sockets : conn[c].peer \in Peers /\ Len(conn[c].data) <= Room
  BY BoundAssumption DEF IInv, Shape, ConnShape, StreamInv, DataType, ConnBounds
<1> DEFINE Bounded(w) == w.peer \in Peers /\ Len(w.data) <= Room
<1>2. /\ Len(<<>>) <= Room /\ Bounded(NoConn)
      /\ Bounded([ours |-> TRUE, peer |-> "queued", data |-> <<>>])
  BY <1>1 DEF NoConn, Peers
<1>3. ASSUME \A c \in Sockets : Bounded(conn'[c]) PROVE ConnBounds'
  BY <1>3 DEF ConnBounds
<1>4. \A c \in Sockets : Bounded(conn[c]) /\ Bounded(CloseOurs(c))
  <2>1. \A c \in Sockets : Bounded(conn[c])
    BY <1>1
  <2>2. ASSUME NEW c \in Sockets PROVE Bounded(CloseOurs(c))
    <3>1. CASE Broken(c)
      BY <1>2, <3>1 DEF CloseOurs
    <3>2. CASE ~Broken(c)
      <4>1. CloseOurs(c).peer = conn[c].peer /\ CloseOurs(c).data = conn[c].data
        BY <1>1, <3>2 DEF CloseOurs
      <4> QED
        BY <1>1, <4>1
    <3> QED
      BY <3>1, <3>2
  <2> QED
    BY <2>1, <2>2
<1>5. ASSUME NEW c, NEW w, Bounded(w), conn' = [conn EXCEPT ![c] = w] PROVE ConnBounds'
  <2> HIDE DEF Bounded
  <2>1. \A d \in Sockets : conn'[d] = conn[d] \/ conn'[d] = w
    BY <1>1, <1>5
  <2> QED
    BY <1>3, <1>4, <1>5, <2>1
<1>6. ASSUME UNCHANGED conn PROVE ConnBounds'
  BY <1>6 DEF ConnBounds
<1>7. ASSUME NEW t \in Threads, thr[t].at \in Sending, NEW v, Write(v), v \in Seq(UnitSet)
      PROVE  ConnBounds'
  <2>4. /\ fd \in Sockets /\ conn' = [conn EXCEPT ![fd].data = @ \o v]
        /\ Len(conn[fd].data) + Len(v) <= Room
    BY <1>7, WritesOwn
  <2>1. /\ \A c \in Sockets : c # fd => conn'[c] = conn[c]
        /\ conn'[fd].peer = conn[fd].peer /\ conn'[fd].data = conn[fd].data \o v
        /\ Len(conn[fd].data) + Len(v) <= Room
    BY <1>1, <2>4
  <2>2. Len(conn[fd].data \o v) = Len(conn[fd].data) + Len(v)
    BY <1>1, <1>7, <2>4
  <2>3. Bounded(conn'[fd])
    BY <1>1, <2>1, <2>2, <2>4
  <2> QED
    BY <1>3, <1>4, <2>1, <2>3
<1>8. ASSUME NEW t \in Threads, Send(t) \/ WriteElsewhere(t) PROVE ConnBounds'
  <2>1. CASE WriteHeader(t)
    <3>1. thr[t].at = "header" /\ Write(<<Unit(thr[t].frame, 0)>>)
      BY <2>1 DEF WriteHeader
    <3>2. fd \in Sockets /\ thr[t].frame \in FrameSet
      BY <3>1, WriterAlone DEF Sending, StreamInv, DataType
    <3>3. Unit(thr[t].frame, 0) \in UnitSet
      <4>1. 0 \in 0..Payload
        BY DEF Payload
      <4> QED
        BY <3>2, <4>1, UnitIn
    <3>4. <<Unit(thr[t].frame, 0)>> \in Seq(UnitSet)
      BY <3>3
    <3> QED
      BY <1>7, <3>1, <3>4 DEF Sending
  <2>2. CASE WritePayload(t)
    <3>1. thr[t].at = "payload"
      BY <2>2 DEF WritePayload
    <3>2. thr[t].left \in 1..Payload /\ fd \in Sockets /\ thr[t].frame \in FrameSet
      BY <3>1, WriterAlone DEF Sending, StreamInv, DataType, InOrder, WriterTail
    <3>3. PICK k \in 1..thr[t].left :
            Write([i \in 1..k |-> Unit(thr[t].frame, Payload - thr[t].left + i)])
      BY <2>2 DEF WritePayload
    <3>4. PICK p : p = Payload - thr[t].left
      OBVIOUS
    <3>5. p \in 0..(Payload - 1) /\ k \in 1..(Payload - p)
      BY <3>2, <3>4 DEF Payload
    <3>6. Run(thr[t].frame, p, k) \in Seq(UnitSet) /\ Write(Run(thr[t].frame, p, k))
      <4>1. Run(thr[t].frame, p, k) \in Seq(UnitSet)
        BY <3>2, <3>5, ChainUnits
      <4> QED
        BY <3>3, <3>4, <4>1 DEF Run
    <3> QED
      BY <1>7, <3>1, <3>6 DEF Sending
  <2>3. CASE Lock(t) \/ Install(t) \/ WroteElsewhere(t)
    BY <1>6, <2>3, NextIInv, InstallStream DEF Lock, WroteElsewhere
  <2>4. CASE thr[t].at \in Sending /\ GivesUp(t)
    <3>1. conn' = [conn EXCEPT ![fd] = CloseOurs(fd)] /\ fd \in Sockets
      BY <2>4, WriterAlone DEF GivesUp
    <3> QED
      BY <1>4, <1>5, <3>1
  <2>5. CASE Connect(t)
    <3>1. \/ UNCHANGED conn
          \/ \E c : conn' = [conn EXCEPT ![c] = [ours |-> TRUE, peer |-> "queued", data |-> <<>>]]
      BY <2>5 DEF Connect, Connected
    <3> QED
      BY <1>2, <1>5, <1>6, <3>1
  <2> QED
    BY <1>8, <2>1, <2>2, <2>3, <2>4, <2>5, ElsewhereIs DEF Send, WriteFails, CannotWrite, Sending
<1>9. ASSUME NEW r \in Sockets, Close(r) PROVE ConnBounds'
  <2>1. \/ conn' = [conn EXCEPT ![r] = [conn[r] EXCEPT !.peer = "closed", !.data = <<>>]]
        \/ conn' = [conn EXCEPT ![r] = NoConn]
    BY <1>9 DEF Close
  <2>2. DOMAIN conn[r] = {"ours", "peer", "data"}
    BY <1>1
  <2>3. PICK w : w = [conn[r] EXCEPT !.peer = "closed", !.data = <<>>]
    OBVIOUS
  <2>4. Bounded(w)
    <3>1. w.peer = "closed" /\ w.data = <<>>
      BY <2>2, <2>3
    <3> QED
      BY <1>2, <3>1 DEF Peers
  <2> HIDE DEF Bounded
  <2> QED
    BY <1>2, <1>5, <2>1, <2>3, <2>4
<1>10. ASSUME rx.at # "accept", conn[rx.conn].data # <<>>,
              conn' = [conn EXCEPT ![rx.conn].data = Tail(@)]
       PROVE  ConnBounds'
  <2>1. PICK r \in Sockets : r = rx.conn
    BY <1>10 DEF StreamInv, InOrder, Reading
  <2>2. /\ \A c \in Sockets : c # r => conn'[c] = conn[c]
        /\ conn'[r].peer = conn[r].peer /\ conn'[r].data = Tail(conn[r].data)
    BY <1>1, <1>10, <2>1
  <2>3. Len(Tail(conn[r].data)) <= Room
    <3>1. PICK q \in Seq(UnitSet) : q = conn[r].data /\ q # <<>> /\ Len(q) <= Room
      BY <1>1, <1>10, <2>1
    <3>2. Len(q) \in Nat /\ Len(Tail(q)) = Len(q) - 1
      BY <3>1
    <3> QED
      BY <1>1, <3>1, <3>2
  <2>4. Bounded(conn'[r])
    BY <1>1, <2>2, <2>3
  <2> QED
    BY <1>3, <1>4, <2>2, <2>4
<1>11. CASE RxHeader
  <2>1. rx.at # "accept" /\ conn[rx.conn].data # <<>> /\ rx.conn \in Sockets
    BY <1>11 DEF RxHeader, StreamInv, InOrder, Reading
  <2> QED
    BY <1>9, <1>10, <1>11, <2>1 DEF RxHeader
<1>12. CASE RxPayload
  BY <1>10, <1>12 DEF RxPayload
<1>13. CASE RxEnd
  BY <1>9, <1>13 DEF RxEnd, StreamInv, InOrder, Reading
<1>14. CASE Accept
  <2>1. ASSUME NEW c \in Sockets PROVE Bounded(conn'[c])
    <3>1. conn'[c].data = conn[c].data /\ conn'[c].peer \in {conn[c].peer, "open"}
      BY <1>1, <1>14 DEF Accept
    <3> QED
      BY <1>1, <3>1 DEF Peers
  <2> QED
    BY <1>3, <2>1
<1>15. CASE BootConnect
  <2>1. \/ UNCHANGED conn
        \/ \E c : conn' = [conn EXCEPT ![c] = [ours |-> TRUE, peer |-> "queued", data |-> <<>>]]
    BY <1>15 DEF BootConnect, Connected
  <2> QED
    BY <1>2, <1>5, <1>6, <2>1
<1>16. CASE Crash
  <2>1. conn' = [c \in Sockets |->
                  IF conn[c].ours THEN [conn[c] EXCEPT !.peer = "closed", !.data = <<>>] ELSE NoConn]
    BY <1>16, Zenon DEF Crash
  <2>2. ASSUME NEW c \in Sockets PROVE Bounded(conn'[c])
    <3>1. CASE conn[c].ours
      <4>1. conn'[c] = [conn[c] EXCEPT !.peer = "closed", !.data = <<>>]
        BY <2>1, <3>1, Zenon
      <4>2. conn'[c].peer = "closed" /\ conn'[c].data = <<>>
        BY <1>1, <4>1
      <4> QED
        BY <1>2, <4>2 DEF Peers
    <3>2. CASE ~conn[c].ours
      <4>1. conn'[c] = NoConn
        BY <2>1, <3>2, Zenon
      <4> QED
        BY <1>2, <4>1
    <3> QED
      BY <3>1, <3>2
  <2> QED
    BY <1>3, <2>2
<1>17. CASE DaemonRestart
  <2>1. conn' = [c \in Sockets |-> IF conn[c].ours THEN CloseOurs(c) ELSE conn[c]]
    BY <1>17, Zenon DEF DaemonRestart
  <2> HIDE DEF Bounded
  <2>2. \A c \in Sockets : conn'[c] = CloseOurs(c) \/ conn'[c] = conn[c]
    BY <2>1, Zenon
  <2> QED
    BY <1>3, <1>4, <2>2
<1>18. CASE \E t \in Threads : \/ ReadPacket(t) \/ Cleanup(t)
                               \/ \E kind \in Kinds : SendPacket(t, kind)
  BY <1>6, <1>18 DEF ReadPacket, SendPacket, Cleanup, link
<1>19. CASE Restart \/ OtherOpens \/ OtherCloses \/ UNCHANGED vars
  BY <1>6, <1>19 DEF Restart, OtherOpens, OtherCloses, link, vars
<1> QED
  BY <1>8, <1>11, <1>12, <1>13, <1>14, <1>15, <1>16, <1>17, <1>18, <1>19 DEF Next, Receive

LEMMA RestStays == ASSUME Rest, [Next]_vars PROVE Rest'
<1>1. MaxRestarts \in Nat
  BY BoundAssumption
<1>2. CASE \E t \in Threads : Send(t) \/ WriteElsewhere(t)
  <2>1. UNCHANGED <<phone, compositor>>
    BY <1>2 DEF Send, Lock, WriteHeader, WritePayload, WriteFails, GivesUp, Connect, Install,
       WriteElsewhere
  <2> QED
    BY <2>1 DEF Rest, phone, compositor
<1>3. CASE \E t \in Threads : \/ ReadPacket(t) \/ Cleanup(t)
                              \/ \E kind \in Kinds : SendPacket(t, kind)
  BY <1>3 DEF Rest, ReadPacket, SendPacket, Cleanup, compositor
<1>4. CASE Receive \/ BootConnect \/ Crash \/ Restart
  <2>1. UNCHANGED restarts /\ up' \in BOOLEAN
    <3>2. CASE Accept
      BY <3>2, Zenon DEF Accept, Rest
    <3>3. CASE RxHeader
      BY <3>3, Zenon DEF RxHeader, Rest
    <3>4. CASE RxPayload
      BY <3>4, Zenon DEF RxPayload, Rest
    <3>5. CASE RxEnd
      BY <3>5, Zenon DEF RxEnd, Rest
    <3>6. CASE BootConnect
      <4>1. UNCHANGED compositor
        BY <3>6, Zenon DEF BootConnect
      <4> QED
        BY <4>1 DEF compositor, Rest
    <3>7. CASE Crash
      BY <3>7, Zenon DEF Crash, Rest
    <3>8. CASE Restart
      BY <3>8, Zenon DEF Restart, Rest
    <3> QED
      BY <1>4, <3>2, <3>3, <3>4, <3>5, <3>6, <3>7, <3>8 DEF Receive
  <2> QED
    BY <2>1 DEF Rest
<1>5. CASE DaemonRestart
  <2>1. restarts < MaxRestarts /\ restarts' = restarts + 1 /\ up' = up
    BY <1>5, Zenon DEF DaemonRestart
  <2> QED
    BY <1>1, <2>1 DEF Rest
<1>6. CASE OtherOpens \/ OtherCloses \/ UNCHANGED vars
  BY <1>6 DEF Rest, OtherOpens, OtherCloses, phone, compositor, vars
<1> QED
  BY <1>2, <1>3, <1>4, <1>5, <1>6 DEF Next

LEMMA InitBounds == ASSUME Init PROVE NumberInv /\ BoundInv
<1>1. /\ \A t \in Threads : air[t] = <<>> /\ thr[t].at = "parse" /\ thr[t].left = 0
                            /\ thr[t].tries = 0 /\ sent[t] = 0 /\ shown[t] = 0
      /\ sent \in [Threads -> Nat] /\ shown \in [Threads -> Nat]
      /\ \A c \in Sockets : conn[c].data = <<>> /\ conn[c].peer = "none"
      /\ up \in BOOLEAN /\ rx.at = "accept" /\ restarts = 0
  BY DEF Init, Quiet, NoConn, Listening
<1>2. /\ \A t \in Threads : MaxFrames[t] \in Nat
      /\ MaxTries \in Nat /\ Room \in Nat /\ MaxRestarts \in Nat /\ Len(<<>>) = 0
  BY BoundAssumption
<1>3. NumberInv
  BY <1>1, <1>2, NothingUnknown
  DEF NumberInv, Numbers, Shown, AirKnown, ThrKnown, ConnKnown, RxKnown
<1>4. ThreadBounds
  <2>1. 0 \in 0..Payload /\ 0 \in 0..MaxTries
    BY <1>2 DEF Payload
  <2> QED
    BY <1>1, <2>1 DEF ThreadBounds
<1>5. ConnBounds /\ Rest
  BY <1>1, <1>2 DEF ConnBounds, Rest, Peers
<1> QED
  BY <1>3, <1>4, <1>5 DEF BoundInv

LEMMA TypesFollow == ASSUME IInv, StreamInv, NumberInv, BoundInv PROVE TypeOK
<1>1. \A t \in Threads : sent[t] \in 0..MaxFrames[t] /\ shown[t] \in 0..MaxFrames[t]
  <2> TAKE t \in Threads
  <2>1. /\ sent[t] \in Nat /\ shown[t] \in Nat /\ MaxFrames[t] \in Nat
        /\ shown[t] <= sent[t] /\ sent[t] <= MaxFrames[t]
    BY BoundAssumption DEF NumberInv, Numbers, Shown
  <2> QED
    BY <2>1
<1>2. rx.at \in {"accept", "header", "payload"}
  BY DEF StreamInv, DataType, RxSet
<1>3. \A t \in Threads :
       /\ thr[t].at \in {"parse", "lock", "header", "payload", "connect", "install", "done"}
       /\ thr[t].left \in 0..Payload /\ thr[t].tries \in 0..MaxTries
       /\ thr[t].new \in Sockets \cup {None}
  BY DEF IInv, Shape, ThreadShape, Places, BoundInv, ThreadBounds
<1>4. /\ fd \in Sockets \cup {None} /\ mutex \in Threads \cup {None} /\ boot \in 0..MaxTries
      /\ \A c \in Sockets : /\ conn[c].ours \in BOOLEAN
                            /\ conn[c].peer \in {"none", "queued", "open", "closed"}
                            /\ Len(conn[c].data) <= Room
  BY DEF IInv, Shape, LinkType, ConnShape, BoundInv, ConnBounds, Peers
<1>5. /\ up \in BOOLEAN /\ restarts \in 0..MaxRestarts
      /\ zero \in Sockets \cup {None, Other} /\ beneath \subseteq Sockets
  BY DEF BoundInv, Rest, StreamInv, ZeroInv
<1> QED
  BY <1>1, <1>2, <1>3, <1>4, <1>5 DEF TypeOK

\* The type of the state: a frame is published only with a number its phone has
\* given, no socket holds more than it takes, and nobody tries to connect more
\* often than COMPOSITOR_CONNECT_RETRIES (compositor_connect, write_all,
\* carplay_recv_thread).
THEOREM TypeCorrect == Spec => []TypeOK
<1> DEFINE I == IInv /\ StreamInv /\ NumberInv /\ BoundInv
<1>1. ASSUME I, [Next]_vars PROVE I'
  <2>1. IInv' /\ StreamInv'
    BY <1>1, NextIInv, NextStream
  <2>2. NumberInv'
    BY <1>1, SentGrows, AirStays, ThrStays, ConnStays, RxStays DEF NumberInv
  <2>3. BoundInv'
    BY <1>1, ThreadBoundsStay, ConnBoundsStay, RestStays DEF BoundInv
  <2> QED
    BY <2>1, <2>2, <2>3
<1>2. Init => I
  BY InitIInv, InitStream, InitBounds
<1>3. I => TypeOK
  BY TypesFollow
<1> HIDE DEF I
<1> QED
  BY <1>1, <1>2, <1>3, PTL DEF Spec

\* No frame is published before its phone has sent it: what the compositor shows
\* of a session is never ahead of the session, whatever was written in part, lost
\* or left in a socket over the restarts of both programs (carplay_recv_thread).
THEOREM NeverAhead == Spec => [](\A t \in Threads : shown[t] <= sent[t])
<1> DEFINE I == IInv /\ StreamInv /\ NumberInv
<1>1. ASSUME I, [Next]_vars PROVE I'
  <2>1. IInv' /\ StreamInv'
    BY <1>1, NextIInv, NextStream
  <2>2. NumberInv'
    BY <1>1, SentGrows, AirStays, ThrStays, ConnStays, RxStays DEF NumberInv
  <2> QED
    BY <2>1, <2>2
<1>2. Init => I
  BY InitIInv, InitStream, InitBounds
<1>3. I => \A t \in Threads : shown[t] <= sent[t]
  BY DEF NumberInv, Shown
<1> HIDE DEF I
<1> QED
  BY <1>1, <1>2, <1>3, PTL DEF Spec
=============================================================================
