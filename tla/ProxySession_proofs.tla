------------------------ MODULE ProxySession_proofs ------------------------
(***************************************************************************)
(* Proofs about aa-proxy's sessions and the compositor's connection, for    *)
(* any number of sessions, restarts and crashes and any socket buffer, and  *)
(* about what one session relays (Relay), for any messages.                 *)
(***************************************************************************)
EXTENDS ProxySession, Relay, WellFoundedInduction, TLAPS

MaxConns == 1 + MaxRestarts + MaxCrashes

-----------------------------------------------------------------------------
(* The inductive invariant.                                                 *)

\* A connection belongs to a session that has been created, as does the
\* listener; no connection is numbered that has not been made.
HomeInv ==
  /\ bound <= sid
  /\ \A k \in Sessions : task[k] # "none" => k <= sid
  /\ \A c \in Conns : home[c] <= sid /\ (home[c] # 0 => c <= nconn)
  /\ InSession => sid # 0

\* A task reads a connection of its own, and none of its own is older: they are
\* accepted in the order they were made, one at a time.
ReadingInv ==
  \A k \in Sessions : \A c \in reading[k] :
    home[c] = k /\ \A d \in Conns : home[d] = k => c <= d

\* No connection of the present session is older than the one the car was
\* last shown.
ShownInv == shown <= nconn /\ \A c \in Conns : home[c] = sid => shown <= c

IInv == TypeOK /\ HomeInv /\ ReadingInv /\ FrameFromCurrentConnection /\ ShownInv

-----------------------------------------------------------------------------
LEMMA ConstantsType ==
  /\ MaxSessions \in Nat /\ MaxConns \in Nat /\ Cap \in Nat
  /\ Sessions = 1 .. MaxSessions /\ Conns = 1 .. MaxConns
BY BoundsAssumption DEF MaxConns, Sessions, Conns

\* No session, no connection, no frame.
LEMMA InitIInv == Init => IInv
BY ConstantsType, BoundsAssumption
DEF Init, IInv, TypeOK, HomeInv, ReadingInv, FrameFromCurrentConnection, ShownInv, InSession,
    Sessions, Conns

-----------------------------------------------------------------------------
(* The loop of main.rs.                                                     *)

\* Between the sessions nothing is shown and no connection changes hands; a new
\* session has no connection yet.
LEMMA MainKeeps ==
  ASSUME IInv, CarConnects \/ PhoneInTime \/ PhoneTimeout \/ PhoneFails \/ SessionEnds
  PROVE  IInv'
<1> USE ConstantsType DEF IInv
<1>1. CASE CarConnects \/ PhoneFails \/ SessionEnds
  <2>1. main' \in {"wait_car", "wait_phone"} /\ UNCHANGED <<sid, task, bound, reading, frame, shown>>
        /\ UNCHANGED <<nconn, home, open, pipe, fd, restarts, crashes>>
    BY <1>1 DEF CarConnects, PhoneFails, SessionEnds, linkVars, faults
  <2>2. TypeOK'
    BY <2>1 DEF TypeOK
  <2>3. HomeInv'
    BY <2>1 DEF HomeInv, InSession
  <2>4. ReadingInv' /\ FrameFromCurrentConnection'
    BY <2>1 DEF ReadingInv, FrameFromCurrentConnection
  <2>5. ShownInv'
    BY <2>1 DEF ShownInv
  <2> QED
    BY <2>2, <2>3, <2>4, <2>5
<1>2. ASSUME NEW mode \in {"proxy", "standalone"}, NewSession(mode) PROVE IInv'
  <2>1. /\ sid < MaxSessions /\ sid' = sid + 1 /\ main' = mode
        /\ task' = [task EXCEPT ![sid + 1] = "spawned"]
        /\ UNCHANGED <<bound, reading, frame, shown, nconn, home, open, pipe, fd, restarts, crashes>>
    BY <1>2 DEF NewSession, linkVars, faults
  <2>2. sid \in Nat /\ sid' \in 0 .. MaxSessions
    BY <2>1 DEF TypeOK
  <2>3. TypeOK'
    BY <2>1, <2>2 DEF TypeOK
  <2>4. HomeInv'
    <3>1. bound' <= sid'
      BY <2>1, <2>2 DEF TypeOK, HomeInv
    <3>2. \A k \in Sessions : task'[k] # "none" => k <= sid'
      BY <2>1, <2>2 DEF TypeOK, HomeInv
    <3>3. \A c \in Conns : home[c] \in Nat /\ home[c] <= sid
      BY DEF TypeOK, HomeInv
    <3>4. \A c \in Conns : home'[c] <= sid' /\ (home'[c] # 0 => c <= nconn')
      BY <2>1, <2>2, <3>3 DEF HomeInv
    <3>5. sid' # 0
      BY <2>1, <2>2
    <3> QED
      BY <3>1, <3>2, <3>4, <3>5 DEF HomeInv
  <2>5. ReadingInv' /\ FrameFromCurrentConnection'
    BY <2>1 DEF ReadingInv, FrameFromCurrentConnection
  <2>6. ShownInv'
    BY <2>1, <2>2 DEF TypeOK, HomeInv, ShownInv
  <2> QED
    BY <2>3, <2>4, <2>5, <2>6
<1> QED
  BY <1>1, <1>2 DEF PhoneInTime, PhoneTimeout

\* What the car is shown is of the oldest connection the session still has.
LEMMA ShowKeeps == ASSUME IInv, PhoneVideo \/ Tick PROVE IInv' /\ (shown' = 0 \/ shown' >= shown)
<1> USE ConstantsType DEF IInv
<1>1. /\ InSession /\ shown' = frame[sid]
      /\ UNCHANGED <<main, sid, task, bound, reading, frame, nconn, home, open, pipe, fd>>
      /\ UNCHANGED <<restarts, crashes>>
  BY DEF PhoneVideo, Tick, InSession, linkVars, faults
<1>2. sid \in Sessions
  BY <1>1 DEF HomeInv, TypeOK
<1>3. frame[sid] # 0 => /\ frame[sid] \in Conns /\ home[frame[sid]] = sid
                        /\ \A d \in Conns : home[d] = sid => frame[sid] <= d
  BY <1>2 DEF TypeOK, FrameFromCurrentConnection, ReadingInv
<1>4. frame[sid] # 0 => shown <= frame[sid] /\ frame[sid] <= nconn
  BY <1>2, <1>3 DEF HomeInv, ShownInv
<1>5. TypeOK'
  BY <1>1, <1>2 DEF TypeOK, MaxConns
<1>6. HomeInv' /\ ReadingInv' /\ FrameFromCurrentConnection'
  BY <1>1 DEF HomeInv, ReadingInv, FrameFromCurrentConnection, InSession
<1>7. shown \in Nat /\ nconn \in Nat /\ Conns \subseteq Nat
  BY DEF TypeOK
<1>8. ShownInv'
  BY <1>1, <1>3, <1>4, <1>7 DEF ShownInv
<1> QED
  BY <1>1, <1>4, <1>5, <1>6, <1>7, <1>8

-----------------------------------------------------------------------------
(* The task of a session.                                                   *)

LEMMA BindKeeps == ASSUME IInv, NEW k \in Sessions, Bind(k) PROVE IInv'
<1> USE ConstantsType DEF IInv
<1>1. /\ task[k] = "spawned" /\ task' = [task EXCEPT ![k] = "listening"] /\ bound' = k
      /\ UNCHANGED <<main, sid, reading, frame, shown, nconn, home, open, pipe, fd>>
      /\ UNCHANGED <<restarts, crashes>>
  BY DEF Bind, linkVars, faults
<1>2. k <= sid
  BY <1>1 DEF HomeInv
<1>3. TypeOK'
  BY <1>1 DEF TypeOK
<1>4. HomeInv'
  BY <1>1, <1>2 DEF HomeInv, TypeOK, InSession
<1>5. ReadingInv' /\ FrameFromCurrentConnection' /\ ShownInv'
  BY <1>1 DEF ReadingInv, FrameFromCurrentConnection, ShownInv
<1> QED
  BY <1>3, <1>4, <1>5

\* The connection accepted is the oldest one there.
LEMMA AcceptKeeps == ASSUME IInv, NEW k \in Sessions, Accept(k) PROVE IInv'
<1> USE ConstantsType DEF IInv
<1>1. PICK c \in Backlog(k) : /\ \A d \in Backlog(k) : c <= d
                              /\ reading' = [reading EXCEPT ![k] = @ \cup {c}]
  BY DEF Accept, AcceptNext
<1>2. /\ reading[k] = {}
      /\ UNCHANGED <<main, sid, task, bound, frame, shown, nconn, home, open, pipe, fd>>
      /\ UNCHANGED <<restarts, crashes>>
  BY DEF Accept, AcceptNext, linkVars, faults
<1>3. c \in Conns /\ home[c] = k /\ \A d \in Conns : home[d] = k => c <= d
  BY <1>1, <1>2 DEF Backlog
<1>4. TypeOK'
  BY <1>1, <1>2, <1>3 DEF TypeOK
<1>5. HomeInv' /\ ShownInv'
  BY <1>2 DEF HomeInv, ShownInv, InSession
<1>6. reading'[k] = {c} /\ \A j \in Sessions : j # k => reading'[j] = reading[j]
  BY <1>1, <1>2 DEF TypeOK
<1>7. ReadingInv'
  BY <1>2, <1>3, <1>6 DEF ReadingInv
<1>8. FrameFromCurrentConnection'
  BY <1>2, <1>6 DEF FrameFromCurrentConnection
<1> QED
  BY <1>4, <1>5, <1>7, <1>8

LEMMA ReceiveKeeps == ASSUME IInv, NEW k \in Sessions, Receive(k) PROVE IInv'
<1> USE ConstantsType DEF IInv
<1>1. PICK c \in reading[k] : ReceiveFrom(k, c)
  BY DEF Receive
<1>2. /\ pipe[c] > 0 /\ pipe' = [pipe EXCEPT ![c] = @ - 1] /\ frame' = [frame EXCEPT ![k] = c]
      /\ UNCHANGED <<main, sid, task, bound, reading, shown, nconn, home, open, fd>>
      /\ UNCHANGED <<restarts, crashes>>
  BY <1>1 DEF ReceiveFrom, faults
<1>3. c \in Conns /\ c \in 0 .. MaxConns
  BY DEF TypeOK
<1>4. TypeOK'
  <2>3. pipe[c] \in 0 .. Cap
    BY <1>3 DEF TypeOK
  <2>1. pipe[c] - 1 \in 0 .. Cap
    BY <1>2, <2>3
  <2>2. pipe' \in [Conns -> 0 .. Cap] /\ frame' \in [Sessions -> 0 .. MaxConns]
    BY <1>2, <1>3, <2>1 DEF TypeOK, MaxConns
  <2> QED
    BY <1>2, <2>2 DEF TypeOK, MaxConns
<1>5. HomeInv' /\ ReadingInv' /\ ShownInv'
  BY <1>2 DEF HomeInv, ReadingInv, ShownInv, InSession
<1>6. FrameFromCurrentConnection'
  BY <1>2 DEF TypeOK, FrameFromCurrentConnection
<1> QED
  BY <1>4, <1>5, <1>6

\* The frame goes with the connection.
LEMMA EndOfStreamKeeps == ASSUME IInv, NEW k \in Sessions, EndOfStream(k) PROVE IInv'
<1> USE ConstantsType DEF IInv
<1>1. PICK c \in reading[k] : CloseStream(k, c)
  BY DEF EndOfStream
<1>2. /\ reading' = [reading EXCEPT ![k] = @ \ {c}] /\ home' = [home EXCEPT ![c] = 0]
      /\ frame' = [frame EXCEPT ![k] = 0]
      /\ UNCHANGED <<main, sid, task, bound, shown, nconn, open, pipe, fd, restarts, crashes>>
  BY <1>1 DEF EndOfStream, CloseStream, faults
<1>3. c \in Conns /\ home[c] = k /\ 0 \notin Sessions /\ k <= sid /\ sid # 0
  BY DEF TypeOK, ReadingInv, HomeInv
<1>4. TypeOK'
  <2>1. /\ reading' \in [Sessions -> SUBSET Conns] /\ home' \in [Conns -> 0 .. MaxSessions]
        /\ frame' \in [Sessions -> 0 .. MaxConns]
    BY <1>2, <1>3 DEF TypeOK, MaxConns
  <2> QED
    BY <1>2, <2>1 DEF TypeOK, MaxConns
<1>9. \A d \in Conns : home'[d] = IF d = c THEN 0 ELSE home[d]
  BY <1>2 DEF TypeOK
<1>5. HomeInv'
  <2>1. bound' <= sid' /\ (\A j \in Sessions : task'[j] # "none" => j <= sid')
    BY <1>2 DEF HomeInv
  <2>2. sid \in Nat
    BY DEF TypeOK
  <2>3. \A d \in Conns : home'[d] <= sid' /\ (home'[d] # 0 => d <= nconn')
    BY <1>2, <1>9, <2>2 DEF HomeInv
  <2>4. InSession' => sid' # 0
    BY <1>2 DEF HomeInv, InSession
  <2> QED
    BY <2>1, <2>3, <2>4 DEF HomeInv
<1>6. ReadingInv'
  <2>1. \A j \in Sessions : \A d \in reading'[j] : d \in reading[j] /\ d # c
    <3> TAKE j \in Sessions
    <3>1. CASE j = k
      BY <1>2, <3>1 DEF TypeOK
    <3>2. CASE j # k
      BY <1>2, <1>3, <3>2 DEF TypeOK, ReadingInv
    <3> QED
      BY <3>1, <3>2
  <2>2. \A j \in Sessions : \A d \in reading'[j] : d \in Conns /\ home'[d] = j
    BY <1>9, <2>1 DEF ReadingInv, TypeOK
  <2>3. \A d \in Conns : home'[d] \in Sessions => home[d] = home'[d]
    BY <1>3, <1>9
  <2> QED
    BY <2>1, <2>2, <2>3 DEF ReadingInv
<1>7. FrameFromCurrentConnection'
  BY <1>2 DEF TypeOK, FrameFromCurrentConnection
<1>8. ShownInv'
  BY <1>2, <1>3, <1>9 DEF ShownInv
<1> QED
  BY <1>4, <1>5, <1>6, <1>7, <1>8

-----------------------------------------------------------------------------
(* The compositor and the faults.                                           *)

\* A new connection is newer than every other, and than what was ever shown.
LEMMA CompConnectKeeps == ASSUME IInv, CompConnect PROVE IInv'
<1> USE ConstantsType DEF IInv
<1> DEFINE c == nconn + 1
<1>1. /\ bound # 0 /\ nconn < MaxConns /\ nconn' = c /\ fd' = c
      /\ home' = [home EXCEPT ![c] = bound] /\ open' = [open EXCEPT ![c] = TRUE]
      /\ UNCHANGED <<pipe, main, sid, task, bound, reading, frame, shown, restarts, crashes>>
  BY DEF CompConnect, proxyVars, faults, MaxConns
<1>2. nconn \in Nat /\ c \in Conns /\ c \in 0 .. MaxConns /\ bound \in Sessions
  BY <1>1 DEF TypeOK
<1>3. \A d \in Conns : home'[d] = IF d = c THEN bound ELSE home[d]
  BY <1>1 DEF TypeOK
<1>4. home[c] = 0
  BY <1>2 DEF TypeOK, HomeInv
<1> HIDE DEF c
<1>5. TypeOK'
  <2>1. home' \in [Conns -> 0 .. MaxSessions] /\ open' \in [Conns -> BOOLEAN]
    BY <1>1, <1>2 DEF TypeOK
  <2>2. fd' \in 0 .. nconn' /\ nconn' \in 0 .. MaxConns
    BY <1>1, <1>2
  <2> QED
    BY <1>1, <2>1, <2>2 DEF TypeOK, MaxConns
<1>6. c = nconn + 1
  BY DEF c
<1>7. HomeInv'
  <2>1. bound <= sid /\ (\A k \in Sessions : task[k] # "none" => k <= sid)
    BY DEF HomeInv
  <2>2. \A d \in Conns : home'[d] <= sid' /\ (home'[d] # 0 => d <= nconn')
    BY <1>1, <1>2, <1>3, <1>6, <2>1 DEF HomeInv
  <2> QED
    BY <1>1, <2>1, <2>2 DEF HomeInv, InSession
<1>8. ReadingInv'
  <2> SUFFICES ASSUME NEW k \in Sessions, NEW b \in reading[k]
               PROVE  home'[b] = k /\ \A d \in Conns : home'[d] = k => b <= d
    BY <1>1 DEF ReadingInv
  <2>1. b \in Conns /\ home[b] = k /\ home[b] # 0
    BY DEF TypeOK, ReadingInv
  <2>2. b \in Nat /\ b <= nconn
    BY <2>1 DEF HomeInv
  <2>3. b < c
    BY <1>2, <1>6, <2>2
  <2>4. home'[b] = k
    BY <1>2, <1>3, <2>1, <2>2, <2>3
  <2>5. ASSUME NEW d \in Conns, home'[d] = k PROVE b <= d
    <3>1. CASE d = c
      BY <1>2, <2>2, <2>3, <3>1
    <3>2. CASE d # c
      BY <1>3, <2>5, <3>2 DEF ReadingInv
    <3> QED
      BY <3>1, <3>2
  <2> QED
    BY <2>4, <2>5
<1>9. FrameFromCurrentConnection'
  BY <1>1 DEF FrameFromCurrentConnection
<1>10. ShownInv'
  <2>1. shown \in Nat /\ shown <= c
    BY <1>2, <1>6 DEF ShownInv, TypeOK
  <2> QED
    BY <1>1, <1>2, <1>3, <2>1 DEF ShownInv
<1> QED
  BY <1>5, <1>7, <1>8, <1>9, <1>10

LEMMA CompositorKeeps ==
  ASSUME IInv, CompSend \/ CompSendFails \/ CompRestart PROVE IInv'
<1> USE ConstantsType DEF IInv
<1>1. UNCHANGED <<main, sid, task, bound, reading, frame, shown, nconn, home, crashes>>
  BY DEF CompSend, WriteFrame, CompSendFails, CompRestart, proxyVars, faults
<1>2. pipe' \in [Conns -> 0 .. Cap]
  <2>1. CASE CompSend
    <3>1. fd # 0 /\ pipe[fd] < Cap /\ pipe' = [pipe EXCEPT ![fd] = @ + 1]
      BY <2>1 DEF CompSend, WriteFrame
    <3>2. nconn \in 0 .. MaxConns /\ fd \in 0 .. nconn /\ pipe \in [Conns -> 0 .. Cap]
      BY DEF TypeOK, MaxConns
    <3>3. fd \in Conns
      BY <3>1, <3>2
    <3>4. pipe[fd] + 1 \in 0 .. Cap
      BY <3>1, <3>2, <3>3
    <3> QED
      BY <3>1, <3>2, <3>4
  <2> QED
    BY <2>1 DEF CompSendFails, CompRestart, TypeOK
<1>3. open' \in [Conns -> BOOLEAN] /\ fd' \in 0 .. nconn
  <2>1. nconn \in Nat /\ open \in [Conns -> BOOLEAN] /\ fd \in 0 .. nconn
    BY DEF TypeOK
  <2>2. \/ UNCHANGED <<open, fd>>
        \/ open' = [open EXCEPT ![fd] = FALSE] /\ fd' = 0
        \/ open' = [c \in Conns |-> FALSE] /\ fd' = 0
    BY DEF CompSend, WriteFrame, CompSendFails, CompRestart
  <2>3. open' \in [Conns -> BOOLEAN]
    BY <2>1, <2>2
  <2>4. fd' \in 0 .. nconn
    BY <2>1, <2>2
  <2> QED
    BY <2>3, <2>4
<1>6. restarts' \in 0 .. MaxRestarts
  BY BoundsAssumption DEF CompSend, WriteFrame, CompSendFails, CompRestart, faults, TypeOK
<1>4. TypeOK'
  BY <1>1, <1>2, <1>3, <1>6 DEF TypeOK
<1>5. HomeInv' /\ ReadingInv' /\ FrameFromCurrentConnection' /\ ShownInv'
  BY <1>1 DEF HomeInv, ReadingInv, FrameFromCurrentConnection, ShownInv, InSession
<1> QED
  BY <1>4, <1>5

\* A crash of aa-proxy closes all connections and forgets what was shown.
LEMMA CrashKeeps == ASSUME IInv, ProxyCrash PROVE IInv' /\ shown' = 0
<1> USE ConstantsType DEF IInv
<1>1. /\ main' = "wait_car" /\ bound' = 0 /\ shown' = 0 /\ crashes' \in 0 .. MaxCrashes
      /\ task' = [k \in Sessions |-> "none"] /\ reading' = [k \in Sessions |-> {}]
      /\ frame' = [k \in Sessions |-> 0] /\ home' = [c \in Conns |-> 0]
      /\ pipe' = [c \in Conns |-> 0]
      /\ UNCHANGED <<sid, nconn, open, fd, restarts>>
  BY BoundsAssumption DEF ProxyCrash, TypeOK
<1>2. TypeOK'
  BY <1>1 DEF TypeOK, MaxConns
<1>3. HomeInv' /\ ShownInv'
  BY <1>1 DEF TypeOK, HomeInv, ShownInv, InSession
<1>4. ReadingInv' /\ FrameFromCurrentConnection'
  BY <1>1 DEF ReadingInv, FrameFromCurrentConnection
<1> QED
  BY <1>1, <1>2, <1>3, <1>4

-----------------------------------------------------------------------------
LEMMA NextIInv == IInv /\ [Next]_vars => IInv' /\ (shown' # shown => shown' = 0 \/ shown' >= shown)
<1> SUFFICES ASSUME IInv, [Next]_vars
             PROVE  IInv' /\ (shown' # shown => shown' = 0 \/ shown' >= shown)
  OBVIOUS
<1>1. CASE CarConnects \/ PhoneInTime \/ PhoneTimeout \/ PhoneFails \/ SessionEnds
  BY <1>1, MainKeeps
  DEF CarConnects, PhoneInTime, PhoneTimeout, NewSession, PhoneFails, SessionEnds
<1>2. CASE PhoneVideo \/ Tick
  BY <1>2, ShowKeeps
<1>3. ASSUME NEW k \in Sessions, TaskStep(k)
      PROVE  IInv' /\ UNCHANGED shown
  <2>1. UNCHANGED shown
    BY <1>3 DEF TaskStep, Bind, Accept, AcceptNext, Receive, ReceiveFrom, EndOfStream, CloseStream
  <2> QED
    BY <1>3, <2>1, BindKeeps, AcceptKeeps, ReceiveKeeps, EndOfStreamKeeps DEF TaskStep
<1>4. CASE CompConnect \/ CompSend \/ CompSendFails \/ CompRestart
  BY <1>4, CompConnectKeeps, CompositorKeeps
  DEF CompConnect, CompSend, WriteFrame, CompSendFails, CompRestart, proxyVars
<1>5. CASE ProxyCrash
  BY <1>5, CrashKeeps
<1>6. CASE UNCHANGED vars
  BY <1>6 DEF vars, IInv, TypeOK, HomeInv, ReadingInv, FrameFromCurrentConnection, ShownInv,
     InSession, Backlog
<1> QED
  BY <1>1, <1>2, <1>3, <1>4, <1>5, <1>6 DEF Next

\* Every variable of the reconnection loop, the tasks and the connections keeps
\* its type, for any number of sessions and faults.
THEOREM TypeCorrect == Spec => []TypeOK
<1>1. IInv => TypeOK
  BY DEF IInv
<1> QED
  BY <1>1, InitIInv, NextIInv, PTL DEF Spec

\* A session holds a composited frame only of the connection it is reading,
\* however the tasks of several sessions, reconnects and crashes overlap
\* (compositor_output_task of mitm.rs).
THEOREM FramesAreCurrent == Spec => []FrameFromCurrentConnection
<1>1. IInv => FrameFromCurrentConnection
  BY DEF IInv
<1> QED
  BY <1>1, InitIInv, NextIInv, PTL DEF Spec

\* What the car is shown never goes back to an older connection of the
\* compositor: connections are accepted in order, one at a time, and a new
\* session has newer ones only (process_phone_to_car, compositor_output_task).
THEOREM ConnectionsGoForward == Spec => NeverShowsOlderConnection
<1>1. IInv /\ [Next]_vars => [shown' = 0 \/ shown' >= shown]_shown
  BY NextIInv
<1> QED
  BY <1>1, InitIInv, NextIInv, PTL DEF Spec, NeverShowsOlderConnection

-----------------------------------------------------------------------------
(* What the proofs about a session use of numbers and sequences.            *)

\* T has a least element.
Least(T) == \E x \in T : \A y \in T : x <= y
LEMMA LeastElement == ASSUME NEW T \in SUBSET Nat, T # {} PROVE Least(T)
<1> DEFINE R == OpToRel(<, Nat)
<1>1. IsWellFoundedOn(R, Nat)
  BY NatLessThanWellFounded
<1>2. \A x, y \in Nat : y < x => <<y, x>> \in R
  BY DEF OpToRel
<1> HIDE DEF R
<1>3. PICK x \in T : \A y \in T : ~ (<<y, x>> \in R)
  BY <1>1, WFMin
<1>4. ASSUME NEW y \in T PROVE x <= y
  <2>1. x \in Nat /\ y \in Nat
    OBVIOUS
  <2>2. ~ (<<y, x>> \in R)
    BY <1>3
  <2>3. ~ (y < x)
    BY <1>2, <2>1, <2>2
  <2> QED
    BY <2>1, <2>3
<1> QED
  BY <1>4 DEF Least

\* Induction up to N, over a set.
LEMMA UpTo ==
  ASSUME NEW N \in Nat, NEW P, 0 \in P, \A n \in 1..N : n - 1 \in P => n \in P
  PROVE  \A n \in 0..N : n \in P
<1> DEFINE Bad == {n \in 0..N : n \notin P}
<1>1. SUFFICES ASSUME Bad # {} PROVE FALSE
  OBVIOUS
<1>2. PICK n \in Bad : \A k \in Bad : n <= k
  <2>1. Bad \in SUBSET Nat
    OBVIOUS
  <2> HIDE DEF Bad
  <2> QED
    BY <1>1, <2>1, LeastElement DEF Least
<1>3. n \in 1..N /\ n - 1 \in 0..N /\ n - 1 \notin Bad
  BY <1>2
<1> QED
  BY <1>2, <1>3

\* A function given by its value at 0 and a step exists.
IsStep(N, V, a, H) == N \in Nat /\ a \in V /\ H \in [(1..N) \X V -> V]
IsChain(N, V, a, H, f) == f \in [0..N -> V] /\ f[0] = a /\ \A n \in 1..N : f[n] = H[<<n, f[n - 1]>>]
LEMMA RecursiveFunction ==
  ASSUME NEW N, NEW V, NEW a, NEW H, IsStep(N, V, a, H) PROVE \E f : IsChain(N, V, a, H, f)
<1>0. N \in Nat /\ a \in V /\ H \in [(1..N) \X V -> V]
  BY DEF IsStep
<1> DEFINE Solves(k, f) == f[0] = a /\ \A n \in 1..k : f[n] = H[<<n, f[n - 1]>>]
           P == {k \in 0..N : \E f \in [0..k -> V] : Solves(k, f)}
<1>1. 0 \in P
  <2>1. [i \in 0..0 |-> a] \in [0..0 -> V] /\ Solves(0, [i \in 0..0 |-> a])
    BY <1>0
  <2>2. 0 \in 0..N
    BY <1>0
  <2> HIDE DEF Solves
  <2> QED
    BY <2>1, <2>2
<1>2. ASSUME NEW k \in 1..N, k - 1 \in P PROVE k \in P
  <2>1. k \in Nat /\ k - 1 \in Nat /\ k \in 0..N
    BY <1>0
  <2> HIDE DEF Solves
  <2>2. PICK f \in [0..(k - 1) -> V] : Solves(k - 1, f)
    BY <1>2
  <2> USE DEF Solves
  <2> DEFINE g == [i \in 0..k |-> IF i = k THEN H[<<k, f[k - 1]>>] ELSE f[i]]
  <2>3. g \in [0..k -> V]
    BY <1>0, <2>1
  <2>4. g[0] = a /\ g[k] = H[<<k, f[k - 1]>>] /\ \A n \in 0..(k - 1) : g[n] = f[n]
    BY <2>1, <2>2
  <2>5. ASSUME NEW n \in 1..k PROVE g[n] = H[<<n, g[n - 1]>>]
    <3>1. n - 1 \in 0..(k - 1) /\ (n = k \/ n \in 1..(k - 1))
      BY <2>1
    <3> HIDE DEF g
    <3>2. CASE n = k
      BY <3>1, <3>2, <2>4
    <3>3. CASE n \in 1..(k - 1)
      <4>1. n \in 0..(k - 1) /\ f[n] = H[<<n, f[n - 1]>>]
        BY <2>1, <2>2, <3>3
      <4> QED
        BY <3>1, <4>1, <2>4
    <3> QED
      BY <3>1, <3>2, <3>3
  <2>6. Solves(k, g)
    <3> HIDE DEF g
    <3> QED
      BY <2>4, <2>5
  <2> HIDE DEF g, Solves
  <2> QED
    BY <2>1, <2>3, <2>6
<1>3. N \in P
  <2>1. N \in 0..N
    BY <1>0
  <2> HIDE DEF P
  <2> QED
    BY <1>0, <1>1, <1>2, <2>1, UpTo
<1> QED
  BY <1>3 DEF IsChain

\* Concatenation, as a name.
Joined(p, q) == p \o q
LEMMA CatIsSeq == ASSUME NEW S, NEW p \in Seq(S), NEW q \in Seq(S)
                  PROVE  Joined(p, q) \in Seq(S) /\ Len(Joined(p, q)) = Len(p) + Len(q)
BY DEF Joined
LEMMA CatIndex == ASSUME NEW S, NEW p \in Seq(S), NEW q \in Seq(S)
                  PROVE  \A i \in 1..Len(p) : Joined(p, q)[i] = p[i]
BY DEF Joined
LEMMA CatIndex2 == ASSUME NEW S, NEW p \in Seq(S), NEW q \in Seq(S)
                   PROVE  \A i \in (Len(p) + 1)..(Len(p) + Len(q)) : Joined(p, q)[i] = q[i - Len(p)]
BY DEF Joined

-----------------------------------------------------------------------------
(* The streams that encode_frames makes.                                    *)

\* Frames of a message, and the header of frame i.
Frames(n) == IF n = 0 THEN 1 ELSE n
FrameHead(m, i, n) == Header(m, i, Frames(n), IF n = 0 THEN 0 ELSE 1)
Cell ==
  {FrameHead(m, i, n) : m \in Nat, i \in Nat, n \in Nat} \cup {Body(m, i) : m \in Nat, i \in Nat}

\* What the fields of a cell are.
LEMMA CellFields ==
  /\ \A m, i, n :
       /\ FrameHead(m, i, n).part = "header" /\ FrameHead(m, i, n).m = m
       /\ FrameHead(m, i, n).i = i /\ FrameHead(m, i, n).first = (i = 1)
       /\ FrameHead(m, i, n).last = (i = Frames(n))
       /\ FrameHead(m, i, n).len = IF n = 0 THEN 0 ELSE 1
  /\ \A m, i : Body(m, i).part = "body" /\ Body(m, i).m = m /\ Body(m, i).i = i
BY DEF FrameHead, Header, Flags, Fragment, Body

LEMMA Single == ASSUME NEW S, NEW c \in S PROVE <<c>> \in Seq(S)
OBVIOUS

\* An empty message takes one frame, which is its header.
LEMMA EncodedOne == ASSUME NEW m \in Nat
                    PROVE  /\ EncodeFrames(m, 0) = << FrameHead(m, 1, 0) >>
                           /\ EncodeFrames(m, 0) \in Seq(Cell)
<1>1. EncodeFrames(m, 0) = << FrameHead(m, 1, 0) >>
  BY DEF EncodeFrames, FrameHead, Frames
<1>2. FrameHead(m, 1, 0) \in Cell
  BY DEF Cell
<1> QED
  BY <1>1, <1>2, Single

\* Any other takes two cells per chunk.
LEMMA EncodedMany ==
  ASSUME NEW m \in Nat, NEW n \in Nat \ {0}
  PROVE  /\ EncodeFrames(m, n) \in Seq(Cell) /\ Len(EncodeFrames(m, n)) = 2 * n
         /\ \A k \in 1..(2 * n) : EncodeFrames(m, n)[k] =
              IF k % 2 = 1 THEN FrameHead(m, (k + 1) \div 2, n) ELSE Body(m, k \div 2)
<1> DEFINE E == EncodeFrames(m, n)
           e(k) == IF k % 2 = 1 THEN FrameHead(m, (k + 1) \div 2, n) ELSE Body(m, k \div 2)
<1>1. E = [k \in 1..(2 * n) |-> e(k)]
  BY DEF EncodeFrames, FrameHead, Frames
<1>2. 2 * n \in Nat
  OBVIOUS
<1>3. \A k \in 1..(2 * n) : e(k) \in Cell
  <2> SUFFICES ASSUME NEW k \in 1..(2 * n) PROVE e(k) \in Cell
    OBVIOUS
  <2>1. (k + 1) \div 2 \in Nat /\ k \div 2 \in Nat
    OBVIOUS
  <2> QED
    BY <2>1 DEF Cell
<1> HIDE DEF e
<1>4. [k \in 1..(2 * n) |-> e(k)] \in [1..(2 * n) -> Cell]
  BY <1>3
<1>5. E \in Seq(Cell) /\ Len(E) = 2 * n
  <2> HIDE DEF E
  <2> QED
    BY <1>1, <1>2, <1>4
<1>6. \A k \in 1..(2 * n) : E[k] = e(k)
  BY <1>1
<1> QED
  BY <1>5, <1>6 DEF e

\* Every place is that of a header or of a payload.
LEMMA Halves ==
  ASSUME NEW n \in Nat, NEW k \in 1..(2 * n)
  PROVE  \/ k % 2 = 1 /\ \E i \in 1..n : k = 2 * i - 1 /\ (k + 1) \div 2 = i
         \/ k % 2 = 0 /\ \E i \in 1..n : k = 2 * i /\ k \div 2 = i
OBVIOUS

\* The cell that ends frame i.
EndCell(m, i, n) == IF n > 0 THEN Body(m, i) ELSE FrameHead(m, i, n)

\* What follows what in the frames of one message.
InMessage(E, m, n) ==
  /\ E \in Seq(Cell) /\ Len(E) > 0 /\ E[1] = FrameHead(m, 1, n)
  /\ \A k \in 1..Len(E) : E[k].m = m
  /\ \A i \in 1..Frames(n), k \in 1..Len(E) :
       /\ E[k] = FrameHead(m, i, n) /\ n > 0 => k < Len(E) /\ E[k + 1] = Body(m, i)
       /\ E[k] = EndCell(m, i, n) =>
            /\ i < Frames(n) => k < Len(E) /\ E[k + 1] = FrameHead(m, i + 1, n)
            /\ i = Frames(n) => k = Len(E)

\* The frames of one message follow each other as encode_frames makes them.
LEMMA EncodedFollows == ASSUME NEW m \in Nat, NEW n \in Nat
                        PROVE InMessage(EncodeFrames(m, n), m, n)
<1> DEFINE E == EncodeFrames(m, n)
<1>1. CASE n = 0
  <2>1. E = << FrameHead(m, 1, 0) >> /\ E \in Seq(Cell)
    BY <1>1, EncodedOne
  <2>2. Len(E) = 1 /\ E[1] = FrameHead(m, 1, 0)
    BY <2>1
  <2> HIDE DEF E
  <2>3. Frames(n) = 1
    BY <1>1 DEF Frames
  <2>4. \A k \in 1..Len(E) : k = 1
    BY <2>2
  <2>5. E[1].m = m
    BY <2>2, CellFields
  <2>6. InMessage(E, m, n)
    BY <1>1, <2>1, <2>2, <2>3, <2>4, <2>5 DEF InMessage
  <2> QED
    BY <2>6 DEF E
<1>2. CASE n # 0
  <2>1. n \in Nat \ {0}
    BY <1>2
  <2>2. /\ E \in Seq(Cell) /\ Len(E) = 2 * n
        /\ \A k \in 1..(2 * n) :
             E[k] = IF k % 2 = 1 THEN FrameHead(m, (k + 1) \div 2, n) ELSE Body(m, k \div 2)
    BY <2>1, EncodedMany
  <2> HIDE DEF E
  <2>3. ASSUME NEW i \in 1..n
        PROVE  /\ 2 * i - 1 \in 1..Len(E) /\ E[2 * i - 1] = FrameHead(m, i, n)
               /\ 2 * i \in 1..Len(E) /\ E[2 * i] = Body(m, i)
    <3>1. /\ 2 * i - 1 \in 1..(2 * n) /\ 2 * i \in 1..(2 * n)
          /\ (2 * i - 1) % 2 = 1 /\ ((2 * i - 1) + 1) \div 2 = i
          /\ (2 * i) % 2 = 0 /\ (2 * i) \div 2 = i
      BY <2>1
    <3>2. E[2 * i - 1] = FrameHead(m, i, n)
      BY <2>2, <3>1
    <3>3. E[2 * i] = Body(m, i)
      BY <2>2, <3>1
    <3> QED
      BY <2>2, <3>1, <3>2, <3>3
  <2>4. ASSUME NEW k \in 1..Len(E)
        PROVE  \E i \in 1..n : k = 2 * i - 1 \/ k = 2 * i
    BY <2>1, <2>2, Halves
  <2>5. Frames(n) = n
    BY <1>2 DEF Frames
  <2>6. Len(E) > 0 /\ E[1] = FrameHead(m, 1, n)
    <3>1. 1 \in 1..n /\ 2 * 1 - 1 = 1 /\ 2 * n > 0
      BY <2>1
    <3>2. E[2 * 1 - 1] = FrameHead(m, 1, n)
      BY <2>3, <3>1
    <3> QED
      BY <2>2, <3>1, <3>2
  <2>7. ASSUME NEW k \in 1..Len(E) PROVE E[k].m = m
    <3>1. PICK i \in 1..n : k = 2 * i - 1 \/ k = 2 * i
      BY <2>4
    <3>2. E[k] = FrameHead(m, i, n) \/ E[k] = Body(m, i)
      BY <2>3, <3>1
    <3> QED
      BY <3>2, CellFields
  <2>8. ASSUME NEW i \in 1..n, NEW k \in 1..Len(E), E[k] = FrameHead(m, i, n)
        PROVE  k < Len(E) /\ E[k + 1] = Body(m, i)
    <3>1. PICK j \in 1..n : k = 2 * j - 1 \/ k = 2 * j
      BY <2>4
    <3>2. k = 2 * j - 1
      <4>1. k = 2 * j => E[k] = Body(m, j)
        BY <2>3
      <4> QED
        BY <3>1, <4>1, <2>8, CellFields
    <3>3. E[k] = FrameHead(m, j, n)
      BY <2>3, <3>2
    <3>4. j = i
      <4>1. FrameHead(m, i, n).i = i /\ FrameHead(m, j, n).i = j
        BY CellFields
      <4> QED
        BY <2>8, <3>3, <4>1
    <3>5. k + 1 = 2 * i /\ k < 2 * n
      BY <3>2, <3>4
    <3> QED
      BY <2>2, <2>3, <3>5
  <2>9. ASSUME NEW i \in 1..n, NEW k \in 1..Len(E), E[k] = Body(m, i)
        PROVE  /\ i < n => k < Len(E) /\ E[k + 1] = FrameHead(m, i + 1, n)
               /\ i = n => k = Len(E)
    <3>1. PICK j \in 1..n : k = 2 * j - 1 \/ k = 2 * j
      BY <2>4
    <3>2. k = 2 * j
      <4>1. k = 2 * j - 1 => E[k] = FrameHead(m, j, n)
        BY <2>3
      <4> QED
        BY <3>1, <4>1, <2>9, CellFields
    <3>3. E[k] = Body(m, j)
      BY <2>3, <3>2
    <3>4. j = i
      <4>1. Body(m, i).i = i /\ Body(m, j).i = j
        BY CellFields
      <4> QED
        BY <2>9, <3>3, <4>1
    <3>5. i = n => k = Len(E)
      BY <2>2, <3>2, <3>4
    <3>6. ASSUME i < n PROVE k < Len(E) /\ E[k + 1] = FrameHead(m, i + 1, n)
      <4>1. i + 1 \in 1..n /\ k + 1 = 2 * (i + 1) - 1 /\ k < 2 * n
        BY <2>1, <3>2, <3>4, <3>6
      <4>2. E[2 * (i + 1) - 1] = FrameHead(m, i + 1, n)
        BY <2>3, <4>1
      <4> QED
        BY <2>2, <4>1, <4>2
    <3> QED
      BY <3>5, <3>6
  <2>10. \A i : EndCell(m, i, n) = Body(m, i)
    BY <2>1 DEF EndCell
  <2>11. InMessage(E, m, n)
    BY <2>1, <2>2, <2>5, <2>6, <2>7, <2>8, <2>9, <2>10 DEF InMessage
  <2> QED
    BY <2>11 DEF E
<1> QED
  BY <1>1, <1>2

\* What follows what in a stream of L messages of C.
After(T, C, L, m, i, p) ==
  /\ i < Frames(C[m]) => p < Len(T) /\ T[p + 1] = FrameHead(m, i + 1, C[m])
  /\ i = Frames(C[m]) /\ m < L => p < Len(T) /\ T[p + 1] = FrameHead(m + 1, 1, C[m + 1])
  /\ i = Frames(C[m]) /\ m = L => p = Len(T)
Place(T, C, L, m, i, p) ==
  /\ T[p] = FrameHead(m, i, C[m]) /\ C[m] > 0 => p < Len(T) /\ T[p + 1] = Body(m, i)
  /\ T[p] = EndCell(m, i, C[m]) => After(T, C, L, m, i, p)
InStream(T, C, L) ==
  /\ T \in Seq(Cell)
  /\ L = 0 => T = <<>>
  /\ L > 0 => Len(T) > 0 /\ T[1] = FrameHead(1, 1, C[1])
  /\ \A p \in 1..Len(T) : T[p].m \in 1..L
  /\ \A m \in 1..L : \A i \in 1..Frames(C[m]), p \in 1..Len(T) : Place(T, C, L, m, i, p)

\* A message takes a frame at least.
LEMMA FramesType == \A n \in Nat : Frames(n) \in Nat \ {0}
BY DEF Frames

\* One message more at the end of a stream.
LEMMA StreamGrows ==
  ASSUME NEW C \in Seq(Nat), NEW L \in 1..Len(C), NEW T, InStream(T, C, L - 1),
         NEW E, InMessage(E, L, C[L])
  PROVE  InStream(Joined(T, E), C, L)
<1> DEFINE U == Joined(T, E)
           N == Len(T)
<1>1. T \in Seq(Cell) /\ E \in Seq(Cell) /\ Len(T) \in Nat /\ Len(E) \in Nat /\ Len(E) > 0
  <2>1. T \in Seq(Cell) /\ E \in Seq(Cell) /\ Len(E) > 0
    BY DEF InStream, InMessage
  <2> QED
    BY <2>1
<1>2. U \in Seq(Cell) /\ Len(U) = N + Len(E)
  BY <1>1, CatIsSeq
<1>3. \A p \in 1..N : U[p] = T[p]
  BY <1>1, CatIndex
<1>4. \A p \in (N + 1)..Len(U) : U[p] = E[p - N]
  <2>1. \A p \in (N + 1)..(N + Len(E)) : U[p] = E[p - N]
    BY <1>1, CatIndex2
  <2> QED
    BY <1>2, <2>1
<1> HIDE DEF U
<1>5. L \in Nat /\ L > 0 /\ L - 1 \in Nat /\ C[L] \in Nat /\ Len(C) \in Nat
  OBVIOUS
<1>6. U[N + 1] = E[1] /\ N + 1 \in 1..Len(U) /\ E[1] = FrameHead(L, 1, C[L])
  <2>1. N + 1 \in (N + 1)..Len(U) /\ (N + 1) - N = 1 /\ N + 1 \in 1..Len(U)
    BY <1>1, <1>2
  <2>2. U[N + 1] = E[(N + 1) - N]
    BY <1>4, <2>1
  <2> QED
    BY <2>1, <2>2 DEF InMessage
<1>7. Len(U) > 0 /\ U[1] = FrameHead(1, 1, C[1])
  <2>1. CASE L - 1 = 0
    <3>1. N = 0 /\ L = 1
      BY <1>5, <2>1 DEF InStream
    <3> QED
      BY <1>1, <1>2, <1>6, <3>1
  <2>2. CASE L - 1 # 0
    <3>1. N > 0 /\ T[1] = FrameHead(1, 1, C[1])
      BY <1>5, <2>2 DEF InStream
    <3>2. 1 \in 1..N
      BY <1>1, <3>1
    <3> QED
      BY <1>1, <1>2, <1>3, <3>1, <3>2
  <2> QED
    BY <2>1, <2>2
<1>8. ASSUME NEW p \in 1..Len(U)
      PROVE  /\ U[p].m \in 1..L
             /\ (p \in 1..N => U[p].m \in 1..(L - 1)) /\ (p \notin 1..N => U[p].m = L)
  <2>1. CASE p \in 1..N
    <3>1. U[p].m \in 1..(L - 1)
      BY <1>3, <2>1 DEF InStream
    <3> QED
      BY <1>5, <2>1, <3>1
  <2>2. CASE p \notin 1..N
    <3>1. p \in (N + 1)..Len(U) /\ p - N \in 1..Len(E)
      BY <1>1, <1>2, <2>2
    <3>2. U[p].m = L
      BY <1>4, <3>1 DEF InMessage
    <3> QED
      BY <1>5, <2>2, <3>2
  <2> QED
    BY <2>1, <2>2
<1>9. ASSUME NEW m \in 1..L, NEW i \in 1..Frames(C[m]), NEW p \in 1..Len(U)
      PROVE Place(U, C, L, m, i, p)
  <2>1. CASE p \in 1..N
    <3>1. U[p] = T[p] /\ p \in Nat /\ p <= N
      BY <1>1, <1>3, <2>1
    <3>2. CASE m = L
      <4>1. U[p] # FrameHead(m, i, C[m]) /\ U[p] # EndCell(m, i, C[m])
        <5>1. U[p].m # m
          BY <1>5, <1>8, <2>1, <3>2
        <5>2. FrameHead(m, i, C[m]).m = m /\ EndCell(m, i, C[m]).m = m
          BY CellFields DEF EndCell
        <5> QED
          BY <5>1, <5>2
      <4> QED
        BY <4>1 DEF Place
    <3>3. CASE m # L
      <4>1. m \in 1..(L - 1) /\ m \in Nat
        BY <1>5, <3>3
      <4>2. Place(T, C, L - 1, m, i, p)
        BY <2>1, <4>1 DEF InStream
      <4>3. p < N => p < Len(U) /\ p + 1 \in 1..N /\ U[p + 1] = T[p + 1]
        <5>1. p < N => p < Len(U) /\ p + 1 \in 1..N
          BY <1>1, <1>2, <3>1
        <5> QED
          BY <1>3, <5>1
      <4>4. p = N => p < Len(U) /\ U[p + 1] = FrameHead(L, 1, C[L])
        BY <1>1, <1>2, <1>6
      <4>5. U[p] = FrameHead(m, i, C[m]) /\ C[m] > 0 => p < Len(U) /\ U[p + 1] = Body(m, i)
        BY <3>1, <4>2, <4>3 DEF Place
      <4>6. ASSUME U[p] = EndCell(m, i, C[m]) PROVE After(U, C, L, m, i, p)
        <5>1. After(T, C, L - 1, m, i, p)
          BY <3>1, <4>2, <4>6 DEF Place
        <5>2. i < Frames(C[m]) => p < Len(U) /\ U[p + 1] = FrameHead(m, i + 1, C[m])
          BY <4>3, <5>1 DEF After
        <5>3. ASSUME i = Frames(C[m]) PROVE p < Len(U) /\ U[p + 1] = FrameHead(m + 1, 1, C[m + 1])
          <6>1. CASE m < L - 1
            BY <4>3, <5>1, <5>3, <6>1 DEF After
          <6>2. CASE m = L - 1
            <7>1. p = N
              BY <5>1, <5>3, <6>2 DEF After
            <7>2. m + 1 = L
              BY <1>5, <6>2
            <7> QED
              BY <4>4, <7>1, <7>2
          <6> QED
            BY <1>5, <4>1, <6>1, <6>2
        <5> QED
          BY <3>3, <5>2, <5>3 DEF After
      <4> QED
        BY <4>5, <4>6 DEF Place
    <3> QED
      BY <3>2, <3>3
  <2>2. CASE p \notin 1..N
    <3> DEFINE k == p - N
    <3>1. p \in (N + 1)..Len(U) /\ k \in 1..Len(E) /\ p \in Nat /\ U[p] = E[k]
      BY <1>1, <1>2, <1>4, <2>2
    <3>2. k < Len(E) => p < Len(U) /\ U[p + 1] = E[k + 1]
      <4> SUFFICES ASSUME k < Len(E) PROVE p < Len(U) /\ U[p + 1] = E[k + 1]
        OBVIOUS
      <4>1. p < Len(U) /\ p + 1 \in (N + 1)..Len(U) /\ (p + 1) - N = k + 1
        BY <1>1, <1>2, <3>1
      <4>2. U[p + 1] = E[(p + 1) - N]
        BY <1>4, <4>1
      <4> QED
        BY <4>1, <4>2
    <3>3. k = Len(E) => p = Len(U)
      BY <1>1, <1>2, <3>1
    <3> HIDE DEF k
    <3>4. CASE m # L
      <4>1. U[p] # FrameHead(m, i, C[m]) /\ U[p] # EndCell(m, i, C[m])
        <5>1. U[p].m = L
          BY <1>8, <2>2
        <5>2. FrameHead(m, i, C[m]).m = m /\ EndCell(m, i, C[m]).m = m
          BY CellFields DEF EndCell
        <5> QED
          BY <3>4, <5>1, <5>2
      <4> QED
        BY <4>1 DEF Place
    <3>5. CASE m = L
      <4>1. U[p] = FrameHead(m, i, C[m]) /\ C[m] > 0 => p < Len(U) /\ U[p + 1] = Body(m, i)
        BY <3>1, <3>2, <3>5 DEF InMessage
      <4>2. ASSUME U[p] = EndCell(m, i, C[m]) PROVE After(U, C, L, m, i, p)
        <5>1. /\ i < Frames(C[m]) => k < Len(E) /\ E[k + 1] = FrameHead(m, i + 1, C[m])
              /\ i = Frames(C[m]) => k = Len(E)
          BY <3>1, <3>5, <4>2 DEF InMessage
        <5>2. ~(m < L)
          BY <1>5, <3>5
        <5> QED
          BY <3>2, <3>3, <5>1, <5>2 DEF After
      <4> QED
        BY <4>1, <4>2 DEF Place
    <3> QED
      BY <3>4, <3>5
  <2> QED
    BY <2>1, <2>2
<1>10. InStream(U, C, L)
  BY <1>2, <1>5, <1>7, <1>8, <1>9 DEF InStream
<1> QED
  BY <1>10 DEF U

\* The function that appends one message after another.
Starts(C) == [p \in (1..Len(C)) \X Seq(Cell) |-> p[2] \o EncodeFrames(p[1], C[p[1]])]

LEMMA EncodedIsSeq == ASSUME NEW m \in Nat, NEW n \in Nat PROVE EncodeFrames(m, n) \in Seq(Cell)
BY EncodedFollows DEF InMessage

\* The streams of d, up to each message, exist and are what the definition says.
LEMMA StreamsExist ==
  ASSUME NEW d \in Sides
  PROVE  LET C == Chunks[d] IN
           /\ C \in Seq(Nat) /\ StreamTo[d][0] = <<>> /\ Stream[d] = StreamTo[d][Len(C)]
           /\ \A m \in 1..Len(C) :
                StreamTo[d][m] = StreamTo[d][m - 1] \o EncodeFrames(m, C[m])
<1> DEFINE C == Chunks[d]
           N == Len(C)
           V == Seq(Cell)
           H == Starts(C)
           Is(f) ==
             f = [m \in 0..N |-> IF m = 0 THEN <<>> ELSE f[m - 1] \o EncodeFrames(m, C[m])]
           to == CHOOSE f : Is(f)
<1>1. C \in Seq(Nat) /\ N \in Nat /\ \A m \in 1..N : C[m] \in Nat
  BY ChunksAssumption
<1> HIDE DEF C
<1>2. H \in [(1..N) \X V -> V]
  <2>1. ASSUME NEW m \in 1..N, NEW q \in V PROVE q \o EncodeFrames(m, C[m]) \in V
    <3>1. m \in Nat /\ C[m] \in Nat
      BY <1>1
    <3>2. EncodeFrames(m, C[m]) \in Seq(Cell)
      BY <3>1, EncodedIsSeq
    <3> QED
      BY <3>2
  <2> QED
    BY <2>1 DEF Starts
<1>3. PICK g \in [0..N -> V] : g[0] = <<>> /\ \A m \in 1..N : g[m] = H[<<m, g[m - 1]>>]
  <2>1. N \in Nat /\ <<>> \in V
    BY <1>1
  <2> HIDE DEF N, V, H
  <2>2. IsStep(N, V, <<>>, H)
    BY <2>1, <1>2 DEF IsStep
  <2>3. \E f : IsChain(N, V, <<>>, H, f)
    BY <2>2, RecursiveFunction
  <2> QED
    BY <2>3 DEF IsChain
<1>4. \A m \in 1..N : g[m] = g[m - 1] \o EncodeFrames(m, C[m])
  <2> SUFFICES ASSUME NEW m \in 1..N PROVE g[m] = g[m - 1] \o EncodeFrames(m, C[m])
    OBVIOUS
  <2>0. m - 1 \in 0..N
    BY <1>1
  <2>1. g[m - 1] \in V /\ <<m, g[m - 1]>> \in (1..N) \X V
    <3> HIDE DEF N, V
    <3> QED
      BY <1>3, <2>0
  <2>2. H[<<m, g[m - 1]>>] = g[m - 1] \o EncodeFrames(m, C[m])
    BY <2>1 DEF Starts
  <2> QED
    BY <1>3, <2>2
<1>5. Is(g)
  <2> DEFINE r == [m \in 0..N |-> IF m = 0 THEN <<>> ELSE g[m - 1] \o EncodeFrames(m, C[m])]
  <2>1. ASSUME NEW m \in 0..N PROVE r[m] = g[m]
    <3>1. CASE m = 0
      BY <1>3, <3>1
    <3>2. CASE m # 0
      <4>1. m \in 1..N
        BY <1>1, <3>2
      <4> QED
        BY <1>4, <3>2, <4>1
    <3> QED
      BY <3>1, <3>2
  <2> QED
    BY <1>3, <2>1
<1>6. Is(to)
  <2> HIDE DEF Is
  <2> QED
    BY <1>5
<1>7. to[0] = <<>> /\ \A m \in 1..N : to[m] = to[m - 1] \o EncodeFrames(m, C[m])
  <2>1. ASSUME NEW h, Is(h)
        PROVE  h[0] = <<>> /\ \A m \in 1..N : h[m] = h[m - 1] \o EncodeFrames(m, C[m])
    <3>1. h[0] = <<>>
      <4>1. 0 \in 0..N
        BY <1>1
      <4> QED
        BY <2>1, <4>1
    <3>2. ASSUME NEW m \in 1..N PROVE h[m] = h[m - 1] \o EncodeFrames(m, C[m])
      <4>1. m \in 0..N /\ m # 0
        BY <1>1
      <4> QED
        BY <2>1, <4>1
    <3> QED
      BY <3>1, <3>2
  <2> HIDE DEF Is, to
  <2> QED
    BY <1>6, <2>1
<1>9. StreamTo[d] = to
  BY DEF StreamTo, C
<1>10. Stream[d] = StreamTo[d][N]
  BY DEF Stream, C
<1> QED
  <2> HIDE DEF to
  <2> QED
    BY <1>1, <1>7, <1>9, <1>10 DEF C

\* So in the stream of d each frame is followed by the next one of its message, and the
\* last of a message by the first of the next message.
LEMMA StreamFollows ==
  ASSUME NEW d \in Sides
  PROVE InStream(Stream[d], Chunks[d], Len(Chunks[d]))
<1> DEFINE C == Chunks[d]
           P == {m \in 0..Len(C) : InStream(StreamTo[d][m], C, m)}
<1>1. /\ C \in Seq(Nat) /\ StreamTo[d][0] = <<>> /\ Stream[d] = StreamTo[d][Len(C)]
      /\ \A m \in 1..Len(C) :
           StreamTo[d][m] = StreamTo[d][m - 1] \o EncodeFrames(m, C[m])
  BY StreamsExist
<1> HIDE DEF C
<1>2. Len(C) \in Nat /\ \A m \in 1..Len(C) : C[m] \in Nat
  BY <1>1
<1>3. 0 \in P
  <2>1. InStream(<<>>, C, 0)
    <3>1. <<>> \in Seq(Cell) /\ Len(<<>>) = 0
      OBVIOUS
    <3> QED
      BY <3>1 DEF InStream
  <2> QED
    BY <1>1, <1>2, <2>1
<1>4. ASSUME NEW m \in 1..Len(C), m - 1 \in P PROVE m \in P
  <2>1. InMessage(EncodeFrames(m, C[m]), m, C[m])
    BY <1>2, EncodedFollows
  <2>2. InStream(StreamTo[d][m - 1], C, m - 1)
    BY <1>4
  <2>3. InStream(Joined(StreamTo[d][m - 1], EncodeFrames(m, C[m])), C, m)
    BY <1>1, <2>1, <2>2, StreamGrows
  <2>4. m \in 0..Len(C)
    BY <1>2
  <2> QED
    BY <1>1, <2>3, <2>4 DEF Joined
<1>5. \A m \in 0..Len(C) : m \in P
  <2> HIDE DEF P
  <2> QED
    BY <1>2, <1>3, <1>4, UpTo
<1>6. Len(C) \in P
  BY <1>2, <1>5
<1> QED
  BY <1>1, <1>6 DEF C

-----------------------------------------------------------------------------
(* The inductive invariant of a session.                                    *)

\* The first i chunks of message m.
Whole(m, i) == [m |-> m, data |-> [j \in 1..i |-> Body(m, j)]]
CellMessages == {[m |-> m, data |-> s] : m \in Nat, s \in Seq(Cell)}

\* i frames of message m are together.
Together(d, m, i) == \/ i = 0 /\ reassembly[d] = NoMessage
                     \/ i > 0 /\ reassembly[d] = Whole(m, i)

\* The next cell is the end of the stream, the header of frame i + 1 of message m, or its
\* payload.
Expects(d, m, i) ==
  \/ pos[d] = Len(Stream[d]) /\ m = Len(Chunks[d]) + 1 /\ i = 0 /\ pending[d] = NoHeader
  \/ /\ pos[d] < Len(Stream[d]) /\ m \in 1..Len(Chunks[d]) /\ i + 1 \in 1..Frames(Chunks[d][m])
     /\ \/ /\ pending[d] = NoHeader
           /\ Stream[d][pos[d] + 1] = FrameHead(m, i + 1, Chunks[d][m])
        \/ /\ pending[d] = FrameHead(m, i + 1, Chunks[d][m]) /\ Chunks[d][m] > 0
           /\ Stream[d][pos[d] + 1] = Body(m, i + 1)

\* Message m is the one after those forwarded, and i of its frames are read.
ReaderAt(d, m, i) == Together(d, m, i) /\ Expects(d, m, i)
ReaderInv(d) == \E i \in Nat : ReaderAt(d, Len(out[d]) + 1, i)

\* A side of which no frame was dropped half-read: what was forwarded of it, and, while
\* the session runs, where its reader is.  Nothing is known of another side.
SideInv(d) == ~dropped[d] => InOrder(d) /\ (end = "running" => ReaderInv(d))

RelayInv ==
  /\ RelayTypeOK
  /\ \A d \in Sides : SideInv(d)
  /\ end = "invalid_data" => \E d \in Sides : dropped[d]

\* There are two sides.
LEMMA Others == ASSUME NEW d \in Sides
                PROVE  /\ Other(d) \in Sides /\ Other(d) # d
                       /\ Other(Other(d)) = d
                       /\ \A e \in Sides : e = d \/ e = Other(d)
<1>1. \A e \in Sides : \E f \in Sides : f # e
  BY DEF Sides
<1>2. \A e \in Sides : Other(e) \in Sides /\ Other(e) # e
  BY <1>1 DEF Other
<1> QED
  BY <1>2 DEF Sides

\* Types of what the sides send.
LEMMA StreamType ==
  ASSUME NEW d \in Sides
  PROVE  /\ Stream[d] \in Seq(Cell) /\ Len(Stream[d]) \in Nat
         /\ Chunks[d] \in Seq(Nat) /\ Len(Chunks[d]) \in Nat
         /\ \A m \in 1..Len(Chunks[d]) : Chunks[d][m] \in Nat /\ Frames(Chunks[d][m]) \in Nat \ {0}
<1>1. Chunks[d] \in Seq(Nat)
  BY ChunksAssumption
<1>2. Stream[d] \in Seq(Cell)
  BY StreamFollows DEF InStream
<1>3. \A m \in 1..Len(Chunks[d]) : Chunks[d][m] \in Nat
  BY <1>1
<1>4. Len(Stream[d]) \in Nat /\ Len(Chunks[d]) \in Nat
  BY <1>1, <1>2
<1>5. ASSUME NEW m \in 1..Len(Chunks[d]) PROVE Frames(Chunks[d][m]) \in Nat \ {0}
  BY <1>3, FramesType
<1> QED
  BY <1>1, <1>2, <1>3, <1>4, <1>5

\* The first chunks of a message, put together, are a message.
LEMMA WholeTyped == ASSUME NEW m \in Nat, NEW i \in Nat
                    PROVE  /\ Whole(m, i) \in CellMessages /\ Whole(m, i).m = m
                           /\ Len(Whole(m, i).data) = i
<1> DEFINE s == [j \in 1..i |-> Body(m, j)]
<1>1. \A j \in 1..i : Body(m, j) \in Cell
  BY DEF Cell
<1>2. s \in [1..i -> Cell]
  BY <1>1
<1>3. s \in Seq(Cell) /\ Len(s) = i
  BY <1>2
<1> HIDE DEF s
<1>4. [m |-> m, data |-> s] \in CellMessages
  BY <1>3 DEF CellMessages
<1>5. Whole(m, i) = [m |-> m, data |-> s]
  BY DEF Whole, s
<1> QED
  BY <1>3, <1>4, <1>5

\* The next chunk is appended.
LEMMA WholeGrows == ASSUME NEW m \in Nat, NEW i \in Nat
                    PROVE  Whole(m, i).data \o <<Body(m, i + 1)>> = Whole(m, i + 1).data
<1> DEFINE s == [j \in 1..i |-> Body(m, j)]
           t == [j \in 1..(i + 1) |-> Body(m, j)]
           b == Body(m, i + 1)
<1>1. \A j \in Nat : Body(m, j) \in Cell
  BY DEF Cell
<1>2. s \in [1..i -> Cell] /\ t \in [1..(i + 1) -> Cell] /\ i + 1 \in Nat
  BY <1>1
<1>3. /\ s \in Seq(Cell) /\ t \in Seq(Cell) /\ Len(s) = i /\ Len(t) = i + 1
      /\ (\A j \in 1..i : t[j] = s[j]) /\ t[i + 1] = b /\ b \in Cell
  BY <1>1, <1>2
<1> HIDE DEF s, t, b
<1>4. /\ s \o <<b>> \in Seq(Cell) /\ Len(s \o <<b>>) = i + 1
      /\ (\A j \in 1..i : (s \o <<b>>)[j] = s[j]) /\ (s \o <<b>>)[i + 1] = b
  BY <1>3
<1> DEFINE u == s \o <<b>>
<1>5. u = t
  <2>1. \A j \in 1..(i + 1) : u[j] = t[j]
    BY <1>3, <1>4
  <2> HIDE DEF u
  <2>2. u \in Seq(Cell) /\ Len(u) = i + 1
    BY <1>4 DEF u
  <2> QED
    BY <1>3, <2>1, <2>2
<1> QED
  BY <1>5 DEF Whole, s, t, b

\* A message of no chunk, or of as many as it has.
LEMMA MessageIsWhole == ASSUME NEW d \in Sides, NEW m
                        PROVE  Message(d, m) = Whole(m, Chunks[d][m])
BY DEF Message, Whole

-----------------------------------------------------------------------------
(* The steps.                                                               *)

\* What is read between two headers: the payload of frame i of a message of n chunks.
Payload(m, i, n) == IF n > 0 THEN <<Body(m, i)>> ELSE <<>>

\* The message once frame i is read.
SoFar(m, i, n) == Whole(m, IF n = 0 THEN 0 ELSE i)

\* The flags of a header.
LEMMA FirstAndLast == ASSUME NEW m, NEW i, NEW n
                      PROVE  /\ FrameHead(m, i, n).first <=> (i = 1)
                             /\ FrameHead(m, i, n).last <=> (i = Frames(n))
BY DEF FrameHead, Header, Flags, Fragment

LEMMA FirstField == ASSUME NEW m, NEW i \in Nat, NEW n
                    PROVE FrameHead(m, i + 1, n).first <=> (i = 0)
<1>1. i + 1 = 1 <=> i = 0
  OBVIOUS
<1>2. FrameHead(m, i + 1, n).first <=> (i + 1 = 1)
  BY FirstAndLast
<1> QED
  BY <1>1, <1>2

LEMMA EmptyWhole == ASSUME NEW m \in Nat PROVE Whole(m, 0) = [m |-> m, data |-> <<>>]
<1>1. [j \in 1..0 |-> Body(m, j)] = <<>>
  OBVIOUS
<1> QED
  BY <1>1 DEF Whole

\* The fragment that comes next is accepted.
LEMMA FragmentAccepted ==
  ASSUME NEW d \in Sides, NEW m \in Nat \ {0}, NEW i \in Nat, NEW n \in Nat, Together(d, m, i)
  PROVE  ~ Rejected(reassembly[d], FrameHead(m, i + 1, n))
<1> DEFINE h == FrameHead(m, i + 1, n)
<1>1. h.m = m
  BY CellFields
<1>0. h.first <=> i = 0
  BY FirstField
<1> HIDE DEF h
<1>2. CASE i = 0
  <2>1. reassembly[d] = NoMessage /\ h.first
    BY <1>0, <1>2 DEF Together
  <2> QED
    BY <2>1 DEF Rejected, h
<1>3. CASE i > 0
  <2>1. reassembly[d] = Whole(m, i) /\ Whole(m, i).m = m
    BY <1>3, WholeTyped DEF Together
  <2>2. reassembly[d] # NoMessage
    <3>1. NoMessage.m = 0
      BY DEF NoMessage
    <3> QED
      BY <2>1, <3>1
  <2>3. ~ h.first
    BY <1>0, <1>3
  <2> QED
    BY <1>1, <2>1, <2>2, <2>3 DEF Rejected, h
<1> QED
  BY <1>2, <1>3

\* It continues the message.
LEMMA FragmentAppended ==
  ASSUME NEW d \in Sides, NEW m \in Nat \ {0}, NEW n \in Nat, NEW i \in Nat,
         i + 1 \in 1..Frames(n),
         Together(d, m, i)
  PROVE  Assembled(reassembly[d], FrameHead(m, i + 1, n), Payload(m, i + 1, n))
           = SoFar(m, i + 1, n)
<1> DEFINE h == FrameHead(m, i + 1, n)
           p == Payload(m, i + 1, n)
<1>1. h.m = m
  BY CellFields
<1>0. h.first <=> i = 0
  BY FirstField
<1> HIDE DEF h
<1>2. CASE n = 0
  <2>1. i = 0 /\ p = <<>>
    BY <1>2 DEF Frames, Payload
  <2>2. Assembled(reassembly[d], h, p) = [m |-> m, data |-> <<>>]
    BY <1>0, <1>1, <2>1 DEF Assembled
  <2> QED
    BY <1>2, <2>2, EmptyWhole DEF SoFar, h
<1>3. CASE n # 0 /\ i = 0
  <2>1. p = <<Body(m, 1)>>
    BY <1>3 DEF Payload
  <2>2. Assembled(reassembly[d], h, p) = [m |-> m, data |-> <<Body(m, 1)>>]
    BY <1>0, <1>1, <1>3, <2>1 DEF Assembled
  <2>3. Whole(m, 1) = [m |-> m, data |-> <<Body(m, 1)>>]
    <3>1. [j \in 1..1 |-> Body(m, j)] = <<Body(m, 1)>>
      OBVIOUS
    <3> QED
      BY <3>1 DEF Whole
  <2>4. SoFar(m, i + 1, n) = Whole(m, 1)
    BY <1>3 DEF SoFar
  <2> QED
    BY <2>2, <2>3, <2>4 DEF h
<1>4. CASE n # 0 /\ i > 0
  <2>1. p = <<Body(m, i + 1)>>
    BY <1>4 DEF Payload
  <2>2. reassembly[d] = Whole(m, i) /\ Whole(m, i).m = m
    BY <1>4, WholeTyped DEF Together
  <2>3. reassembly[d] # NoMessage
    <3>1. NoMessage.m = 0
      BY DEF NoMessage
    <3> QED
      BY <2>2, <3>1
  <2>4. ~ h.first
    BY <1>0, <1>4
  <2>5. Assembled(reassembly[d], h, p) = [Whole(m, i) EXCEPT !.data = @ \o p]
    BY <2>2, <2>3, <2>4 DEF Assembled
  <2>6. [Whole(m, i) EXCEPT !.data = @ \o p] = [m |-> m, data |-> Whole(m, i).data \o p]
    <3> DEFINE s == [j \in 1..i |-> Body(m, j)]
    <3>1. Whole(m, i) = [m |-> m, data |-> s]
      BY DEF Whole
    <3> DEFINE t == s \o p
    <3>2. Whole(m, i).data = s
      BY <3>1
    <3> HIDE DEF p, s
    <3>3. [Whole(m, i) EXCEPT !.data = @ \o p] = [Whole(m, i) EXCEPT !.data = t]
      BY <3>2
    <3> HIDE DEF t
    <3>4. [Whole(m, i) EXCEPT !.data = t] = [m |-> m, data |-> t]
      BY <3>1
    <3> QED
      BY <3>2, <3>3, <3>4 DEF t
  <2>7. Whole(m, i).data \o p = Whole(m, i + 1).data
    BY <2>1, WholeGrows
  <2>8. Whole(m, i + 1) = [m |-> m, data |-> Whole(m, i + 1).data]
    BY DEF Whole
  <2>9. SoFar(m, i + 1, n) = Whole(m, i + 1)
    BY <1>4 DEF SoFar
  <2>10. [m |-> m, data |-> Whole(m, i).data \o p] = [m |-> m, data |-> Whole(m, i + 1).data]
    BY <2>7
  <2> QED
    BY <2>5, <2>6, <2>8, <2>9, <2>10 DEF h
<1> QED
  BY <1>2, <1>3, <1>4

\* What a side's reader knows is about its own part of the state.
LEMMA ReaderSame ==
  ASSUME NEW d \in Sides, ReaderInv(d), pos'[d] = pos[d], pending'[d] = pending[d],
         reassembly'[d] = reassembly[d], out'[d] = out[d]
  PROVE  ReaderInv(d)'
BY DEF ReaderInv, ReaderAt, Together, Expects

OneMore(s, x) == Append(s, x)
LEMMA OneMoreSeq ==
  ASSUME NEW S, NEW s \in Seq(S), NEW x \in S
  PROVE  /\ OneMore(s, x) \in Seq(S) /\ Len(OneMore(s, x)) = Len(s) + 1
         /\ (\A n \in 1..Len(s) : OneMore(s, x)[n] = s[n]) /\ OneMore(s, x)[Len(s) + 1] = x
BY DEF OneMore

-----------------------------------------------------------------------------
(* The types of a session, torn frames included.                            *)

Cells == Headers \cup Bodies

\* What encode_frames makes are headers and bodies.
LEMMA CellTyped == Cell \subseteq Cells
<1>1. ASSUME NEW m \in Nat, NEW i \in Nat, NEW n \in Nat PROVE FrameHead(m, i, n) \in Headers
  BY <1>1 DEF FrameHead, Header, Flags, Fragment, Headers
<1>2. ASSUME NEW m \in Nat, NEW i \in Nat PROVE Body(m, i) \in Bodies
  BY <1>2 DEF Body, Bodies
<1> QED
  BY <1>1, <1>2 DEF Cell, Cells

\* A cell of a stream, and some cells of it.
LEMMA StreamCells ==
  ASSUME NEW d \in Sides
  PROVE  /\ Stream[d] \in Seq(Cells)
         /\ \A n \in 1..Len(Stream[d]) : Stream[d][n] \in Cells
<1>1. Stream[d] \in Seq(Cell)
  BY StreamType
<1>2. Stream[d] \in Seq(Cells)
  BY <1>1, CellTyped
<1> QED
  BY <1>2

LEMMA PartOf == ASSUME NEW S, NEW s \in Seq(S), NEW a \in Nat \ {0}, NEW b \in Nat, b <= Len(s)
                PROVE  SubSeq(s, a, b) \in Seq(S)
OBVIOUS

\* Whatever is read as a header is one.
LEMMA ReadAsHeader == ASSUME NEW c \in Cells, NEW h \in HeaderRead(c) PROVE h \in Headers
<1>1. CASE c.part = "header"
  <2>1. c \notin Bodies
    BY <1>1 DEF Bodies
  <2> QED
    BY <1>1, <2>1 DEF HeaderRead, Cells
<1>2. CASE c.part # "header"
  <2>1. c.m \in Nat /\ c.m + 1 \in Nat
    BY DEF Cells, Headers, Bodies
  <2>2. h \in [part : {"header"}, m : {c.m, c.m + 1}, i : {0},
               first : BOOLEAN, last : BOOLEAN, len : 0 .. 1]
    BY <1>2 DEF HeaderRead
  <2> QED
    BY <2>1, <2>2 DEF Headers
<1> QED
  BY <1>1, <1>2

\* A fragment added to a message makes a message.
LEMMA AssembledTyped ==
  ASSUME NEW r \in Messages, NEW h \in Headers, NEW p \in Seq(Cells)
  PROVE  Assembled(r, h, p) \in Messages
<1>1. h.m \in Nat
  BY DEF Headers
<1>2. r.data \in Seq(Cells) /\ r.m \in Nat
  BY DEF Messages, Cells
<1>3. Joined(p, p) \in Seq(Cells) /\ Joined(r.data, p) \in Seq(Cells)
  BY <1>2, CatIsSeq
<1>4. ASSUME NEW k \in Nat, NEW s \in Seq(Cells) PROVE [m |-> k, data |-> s] \in Messages
  BY DEF Messages, Cells
<1>5. ASSUME NEW s \in Seq(Cells) PROVE [r EXCEPT !.data = s] \in Messages
  BY DEF Messages, Cells
<1>6. [r EXCEPT !.data = @ \o p] = [r EXCEPT !.data = Joined(r.data, p)]
  BY DEF Joined
<1>7. p \o p = Joined(p, p)
  BY DEF Joined
<1>8. [r EXCEPT !.data = @ \o p] \in Messages
  BY <1>3, <1>5, <1>6
<1>9. [m |-> h.m, data |-> p \o p] \in Messages /\ [m |-> h.m, data |-> p] \in Messages
  BY <1>1, <1>3, <1>4, <1>7
<1> QED
  BY <1>8, <1>9, Zenon DEF Assembled

\* A fragment leaves types alone, whatever it is.
LEMMA FragmentTyped ==
  ASSUME RelayTypeOK, NEW d \in Sides, NEW h \in Headers, NEW p \in Seq(Cells),
         NEW n \in Nat, n <= arrived[d], Fragmented(d, h, p, n)
  PROVE  RelayTypeOK'
<1> DEFINE w == Assembled(reassembly[d], h, p)
           none == [e \in Sides |-> NoHeader]
<1>1. w \in Messages
  BY AssembledTyped DEF RelayTypeOK
<1>2. NoMessage \in Messages
  <2>1. <<>> \in Seq(Headers \cup Bodies)
    OBVIOUS
  <2> QED
    BY <2>1 DEF NoMessage, Messages
<1>3. /\ pos' = [pos EXCEPT ![d] = n] /\ arrived' = arrived /\ closed' = closed
  BY DEF Fragmented
<1>4. /\ pos' \in [Sides -> Nat] /\ arrived' \in [Sides -> Nat] /\ closed' \in [Sides -> BOOLEAN]
      /\ \A e \in Sides : pos'[e] <= arrived'[e] /\ arrived'[e] <= Len(Stream[e])
  BY <1>3 DEF RelayTypeOK
<1> HIDE DEF w, none
<1>5. /\ pending' = [pending EXCEPT ![d] = NoHeader] \/ pending' = none
      /\ reassembly' = reassembly \/ reassembly' = [reassembly EXCEPT ![d] = w]
         \/ reassembly' = [reassembly EXCEPT ![d] = NoMessage]
      /\ out' = out \/ out' = [out EXCEPT ![d] = Append(@, w)]
      /\ end' \in {end, "running", "io_error", "invalid_data"}
      /\ dropped' = dropped
         \/ dropped' = [e \in Sides |-> dropped[e] \/ (e # d /\ pending[e] # NoHeader)]
  BY Zenon DEF Fragmented, Forward, w, none
<1>6. pending' \in [Sides -> {NoHeader} \cup {g \in Headers : g.len > 0}]
  <2>1. none \in [Sides -> {NoHeader} \cup {g \in Headers : g.len > 0}]
    BY DEF none
  <2> QED
    BY <1>5, <2>1 DEF RelayTypeOK
<1>7. reassembly' \in [Sides -> Messages]
  BY <1>1, <1>2, <1>5 DEF RelayTypeOK
<1>8. out' \in [Sides -> Seq(Messages)]
  <2>1. out \in [Sides -> Seq(Messages)] /\ out[d] \in Seq(Messages)
    BY DEF RelayTypeOK
  <2>2. OneMore(out[d], w) \in Seq(Messages)
    BY <1>1, <2>1, OneMoreSeq
  <2>3. out' = out \/ out' = [out EXCEPT ![d] = OneMore(out[d], w)]
    BY <1>5 DEF OneMore
  <2> QED
    BY <2>1, <2>2, <2>3
<1>9. end' \in {"running", "disconnected", "io_error", "invalid_data"}
  BY <1>5 DEF RelayTypeOK
<1>10. dropped' \in [Sides -> BOOLEAN]
  BY <1>5 DEF RelayTypeOK
<1> QED
  BY <1>10, <1>4, <1>6, <1>7, <1>8, <1>9 DEF RelayTypeOK

LEMMA RelayTypesKept ==
  ASSUME RelayTypeOK, [RelayNext]_relayVars
  PROVE  RelayTypeOK'
<1>1. CASE UNCHANGED relayVars
  BY <1>1 DEF relayVars, RelayTypeOK
<1>2. ASSUME NEW d \in Sides, FrameArrives(d) \/ PartArrives(d) \/ Close(d)
             \/ Read(d) PROVE RelayTypeOK'
  <2>0. /\ arrived \in [Sides -> Nat] /\ pos \in [Sides -> Nat]
        /\ \A e \in Sides : pos[e] <= arrived[e] /\ arrived[e] <= Len(Stream[e])
        /\ Len(Stream[d]) \in Nat /\ arrived[d] \in Nat /\ pos[d] \in Nat
    BY StreamType DEF RelayTypeOK
  <2>1. CASE FrameArrives(d)
    <3>1. PICK n \in FrameEnds(d) : n > arrived[d] /\ arrived' = [arrived EXCEPT ![d] = n]
      BY <2>1 DEF FrameArrives
    <3>2. n \in 1..Len(Stream[d])
      <4>1. n \in DOMAIN Stream[d]
        BY DEF FrameEnds
      <4>2. DOMAIN Stream[d] = 1..Len(Stream[d])
        BY StreamType
      <4> QED
        BY <4>1, <4>2
    <3>3. UNCHANGED <<closed, pos, pending, reassembly, dropped, out, end>>
      BY <2>1 DEF FrameArrives
    <3>4. /\ arrived' \in [Sides -> Nat]
          /\ \A e \in Sides : pos[e] <= arrived'[e] /\ arrived'[e] <= Len(Stream[e])
      BY <2>0, <3>1, <3>2
    <3> QED
      BY <3>3, <3>4 DEF RelayTypeOK
  <2>2. CASE PartArrives(d)
    <3>1. /\ arrived' = [arrived EXCEPT ![d] = @ + 1] /\ arrived[d] + 1 < Len(Stream[d])
          /\ UNCHANGED <<closed, pos, pending, reassembly, dropped, out, end>>
      BY <2>2 DEF PartArrives
    <3>2. /\ arrived' \in [Sides -> Nat]
          /\ \A e \in Sides : pos[e] <= arrived'[e] /\ arrived'[e] <= Len(Stream[e])
      BY <2>0, <3>1
    <3> QED
      BY <3>1, <3>2 DEF RelayTypeOK
  <2>3. CASE Close(d)
    BY <2>3 DEF Close, RelayTypeOK
  <2>4. CASE ReadFrame(d)
    <3> DEFINE c == Stream[d][pos[d] + 1]
    <3>1. pos[d] < arrived[d]
      BY <2>4 DEF ReadFrame
    <3>2. c \in Cells
      <4>1. pos[d] + 1 \in 1..Len(Stream[d])
        BY <2>0, <3>1
      <4> QED
        BY <4>1, StreamCells
    <3>3. PICK h \in HeaderRead(c) :
            /\ pos[d] + 1 + h.len <= arrived[d]
            /\ Fragmented(d, h, SubSeq(Stream[d], pos[d] + 2, pos[d] + 1 + h.len),
                          pos[d] + 1 + h.len)
      BY <2>4 DEF ReadFrame
    <3> HIDE DEF c
    <3>4. h \in Headers /\ h.len \in Nat
      <4>1. h \in Headers
        BY <3>2, <3>3, ReadAsHeader
      <4> QED
        BY <4>1 DEF Headers
    <3>5. SubSeq(Stream[d], pos[d] + 2, pos[d] + 1 + h.len) \in Seq(Cells)
      <4>1. /\ pos[d] + 2 \in Nat \ {0} /\ pos[d] + 1 + h.len \in Nat
            /\ pos[d] + 1 + h.len <= Len(Stream[d])
        <5>1. pos[d] + 1 + h.len <= arrived[d] /\ arrived[d] <= Len(Stream[d])
          BY <2>0, <3>3
        <5>2. ASSUME NEW a \in Nat, NEW b \in Nat, NEW l \in Nat, NEW e \in Nat,
                     a + 1 + b <= e, e <= l
              PROVE  a + 2 \in Nat \ {0} /\ a + 1 + b \in Nat /\ a + 1 + b <= l
          BY <5>2
        <5>3. pos[d] \in Nat /\ arrived[d] \in Nat /\ Len(Stream[d]) \in Nat
          BY <2>0
        <5> QED
          BY <3>4, <5>1, <5>2, <5>3
      <4> QED
        BY <4>1, StreamCells, PartOf
    <3>6. pos[d] + 1 + h.len \in Nat
      BY <2>0, <3>4
    <3> QED
      BY <3>3, <3>4, <3>5, <3>6, FragmentTyped
  <2>5. CASE ReadHeader(d)
    <3> DEFINE c == Stream[d][pos[d] + 1]
    <3>1. pos[d] < arrived[d] /\ pos' = [pos EXCEPT ![d] = @ + 1]
          /\ UNCHANGED <<arrived, closed, reassembly, dropped, out, end>>
      BY <2>5 DEF ReadHeader
    <3>2. c \in Cells
      <4>1. pos[d] + 1 \in 1..Len(Stream[d])
        BY <2>0, <3>1
      <4> QED
        BY <4>1, StreamCells
    <3>3. PICK h \in HeaderRead(c) :
            pos[d] + 1 + h.len > arrived[d] /\ pending' = [pending EXCEPT ![d] = h]
      BY <2>5 DEF ReadHeader
    <3> HIDE DEF c
    <3>4. h \in Headers
      BY <3>2, <3>3, ReadAsHeader
    <3>5. h.len \in Nat
      BY <3>4 DEF Headers
    <3>6. h.len > 0
      BY <2>0, <3>1, <3>3, <3>5
    <3>7. /\ pos' \in [Sides -> Nat]
          /\ \A e \in Sides : pos'[e] <= arrived[e]
      BY <2>0, <3>1
    <3>8. pending' \in [Sides -> {NoHeader} \cup {g \in Headers : g.len > 0}]
      BY <3>3, <3>4, <3>6 DEF RelayTypeOK
    <3> QED
      BY <3>1, <3>7, <3>8 DEF RelayTypeOK
  <2>6. CASE ReadPayload(d)
    <3>1. /\ pending[d] # NoHeader /\ pos[d] < arrived[d]
          /\ Fragmented(d, pending[d], << Stream[d][pos[d] + 1] >>, pos[d] + 1)
      BY <2>6 DEF ReadPayload
    <3>2. pending[d] \in Headers
      BY <3>1 DEF RelayTypeOK
    <3>3. /\ pos[d] + 1 \in 1..Len(Stream[d]) /\ pos[d] + 1 \in Nat
          /\ pos[d] + 1 <= arrived[d]
      BY <2>0, <3>1
    <3>4. << Stream[d][pos[d] + 1] >> \in Seq(Cells)
      BY <3>3, StreamCells, Single
    <3> QED
      BY <3>1, <3>2, <3>3, <3>4, FragmentTyped
  <2>7. CASE ReadEof(d)
    <3>1. end' \in {"disconnected", "io_error"}
          /\ UNCHANGED <<arrived, closed, pos, pending, reassembly, dropped, out>>
      BY <2>7 DEF ReadEof
    <3> QED
      BY <3>1 DEF RelayTypeOK
  <2> QED
    BY <1>2, <2>1, <2>2, <2>3, <2>4, <2>5, <2>6, <2>7 DEF Read
<1> QED
  BY <1>1, <1>2 DEF RelayNext

LEMMA RelayTypesInitially == ASSUME RelayInit PROVE RelayTypeOK
<1>1. <<>> \in Seq(Headers \cup Bodies) /\ <<>> \in Seq(Messages)
  OBVIOUS
<1>2. NoMessage \in Messages
  BY <1>1 DEF NoMessage, Messages
<1>3. \A d \in Sides : Len(Stream[d]) \in Nat
  BY StreamType
<1> QED
  BY <1>1, <1>2, <1>3 DEF RelayInit, RelayTypeOK

\* Whatever arrives, however it is cut and whatever a torn header makes of it, a reader
\* stays within what has arrived, waits for a payload only behind a header that announced
\* one, and holds and forwards messages of cells (AapFrameReader of aap.rs).
THEOREM RelayTypes == RelaySpec => []RelayTypeOK
<1>1. RelayInit => RelayTypeOK
  BY RelayTypesInitially
<1>2. RelayTypeOK /\ [RelayNext]_relayVars => RelayTypeOK'
  BY RelayTypesKept
<1> QED
  BY <1>1, <1>2, PTL DEF RelaySpec

-----------------------------------------------------------------------------
(* What is forwarded.                                                       *)

\* What is reassembled is a message.
LEMMA MessageTypes ==
  \A m \in Nat, i \in Nat, n \in Nat : SoFar(m, i, n) \in Messages
<1>1. CellMessages \subseteq Messages
  BY CellTyped DEF CellMessages, Messages, Cells
<1> QED
  BY <1>1, WholeTyped DEF SoFar

\* Frame i + 1 of message m of side d has been read, up to q.
FrameRead(d, m, i, q) ==
  /\ d \in Sides /\ end = "running" /\ m = Len(out[d]) + 1 /\ i \in Nat /\ Together(d, m, i)
  /\ m \in 1..Len(Chunks[d]) /\ i + 1 \in 1..Frames(Chunks[d][m])
  /\ q \in (pos[d] + 1)..arrived[d] /\ Stream[d][q] = EndCell(m, i + 1, Chunks[d][m])
  /\ Fragmented(d, FrameHead(m, i + 1, Chunks[d][m]), Payload(m, i + 1, Chunks[d][m]), q)

\* Reading a frame of a side without a dropped one puts the chunks of the message
\* together, or, if it is the last, forwards the message.
LEMMA FrameReadIsSound ==
  ASSUME RelayInv, NEW d, NEW m, NEW i, NEW q, FrameRead(d, m, i, q), ~dropped[d]
  PROVE  SideInv(d)' /\ end' # "invalid_data"
<1> DEFINE C == Chunks[d]
           T == Stream[d]
           L == Len(C)
           n == C[m]
           h == FrameHead(m, i + 1, n)
           p == Payload(m, i + 1, n)
           w == SoFar(m, i + 1, n)
<1>1. /\ d \in Sides /\ end = "running" /\ m = Len(out[d]) + 1 /\ i \in Nat /\ Together(d, m, i)
      /\ m \in 1..L /\ i + 1 \in 1..Frames(n)
      /\ q \in (pos[d] + 1)..arrived[d] /\ T[q] = EndCell(m, i + 1, n)
      /\ Fragmented(d, h, p, q)
  BY DEF FrameRead
<1>2. InOrder(d)
  BY <1>1 DEF RelayInv, SideInv
<1>3. /\ T \in Seq(Cell) /\ Len(T) \in Nat /\ C \in Seq(Nat) /\ L \in Nat
      /\ \A k \in 1..L : C[k] \in Nat /\ Frames(C[k]) \in Nat \ {0}
  BY <1>1, StreamType
<1>5. /\ arrived[d] \in Nat /\ pos[d] \in Nat /\ arrived[d] <= Len(T) /\ pos[d] <= arrived[d]
      /\ pos \in [Sides -> Nat] /\ DOMAIN pending = Sides /\ DOMAIN reassembly = Sides
      /\ out \in [Sides -> Seq(Messages)]
  BY <1>1 DEF RelayInv, RelayTypeOK
<1>6. m \in Nat \ {0} /\ n \in Nat /\ Frames(n) \in Nat /\ q \in 1..Len(T) /\ q <= arrived[d]
      /\ q \in Nat /\ pos[d] < arrived[d]
  <2>1. m \in Nat \ {0} /\ n \in Nat /\ Frames(n) \in Nat
    <3>1. m \in 1..L /\ L \in Nat
      BY <1>1, <1>3
    <3>2. \A k \in 1..L : C[k] \in Nat /\ Frames(C[k]) \in Nat \ {0}
      BY <1>3
    <3> HIDE DEF C, T, L
    <3>3. n \in Nat /\ Frames(n) \in Nat
      BY <3>1, <3>2
    <3>4. m \in Nat \ {0}
      BY <3>1
    <3> QED
      BY <3>3, <3>4
  <2>2. q \in (pos[d] + 1)..arrived[d]
    BY <1>1
  <2> HIDE DEF C, T, L, n, h, p
  <2>3. q \in Nat /\ q >= 1 /\ q <= arrived[d] /\ pos[d] < arrived[d]
    BY <1>5, <2>2
  <2>4. q \in 1..Len(T)
    BY <1>3, <1>5, <2>3
  <2> QED
    BY <2>1, <2>3, <2>4
<1>7. After(T, C, L, m, i + 1, q)
  <2>1. InStream(T, C, L)
    BY <1>1, StreamFollows
  <2> HIDE DEF C, T, L, n
  <2>2. Place(T, C, L, m, i + 1, q)
    BY <1>1, <1>6, <2>1 DEF InStream, n
  <2> QED
    BY <1>1, <2>2 DEF Place, n
<1>8. ~ Rejected(reassembly[d], h) /\ Assembled(reassembly[d], h, p) = w
  <2>1. d \in Sides /\ m \in Nat \ {0} /\ i \in Nat /\ i + 1 \in 1..Frames(n) /\ n \in Nat
    BY <1>1, <1>6
  <2>2. Together(d, m, i)
    BY <1>1
  <2> HIDE DEF C, n
  <2>3. ~ Rejected(reassembly[d], h)
    BY <2>1, <2>2, FragmentAccepted
  <2>4. Assembled(reassembly[d], h, p) = w
    BY <2>1, <2>2, FragmentAppended
  <2> QED
    BY <2>3, <2>4
<1>9. h.last <=> i + 1 = Frames(n)
  BY FirstAndLast
<1>10. w \in Messages
  <2>1. i \in Nat
    BY <1>1
  <2>2. m \in Nat /\ i + 1 \in Nat /\ n \in Nat
    BY <1>6, <2>1
  <2> HIDE DEF C, n
  <2> QED
    BY <2>2, MessageTypes
<1> HIDE DEF C, T, L, n, h, p, w
<1>12. /\ pos' = [pos EXCEPT ![d] = q] /\ arrived' = arrived /\ closed' = closed
       /\ \/ /\ ~ h.last /\ reassembly' = [reassembly EXCEPT ![d] = w]
             /\ pending' = [pending EXCEPT ![d] = NoHeader]
             /\ out' = out /\ end' = end
          \/ h.last /\ Forward(d, w)
  <2>1. Fragmented(d, h, p, q)
    BY <1>1
  <2> QED
    BY <1>8, <2>1 DEF Fragmented
<1>13. pos'[d] = q
  BY <1>1, <1>5, <1>6, <1>12
<1>15. pending'[d] = NoHeader
  BY <1>1, <1>5, <1>12 DEF Forward
<1>17. CASE ~ h.last
  <2>1. /\ reassembly' = [reassembly EXCEPT ![d] = w] /\ out' = out /\ end' = end
    BY <1>12, <1>17
  <2>2. reassembly'[d] = w
    BY <1>1, <1>5, <2>1
  <2>4. i + 1 \in Nat /\ i + 1 > 0 /\ i + 1 < Frames(n) /\ n > 0 /\ (i + 1) + 1 \in 1..Frames(n)
    <3>1. i + 1 < Frames(n)
      BY <1>1, <1>6, <1>9, <1>17 DEF n
    <3>2. n # 0
      <4>1. i \in Nat
        BY <1>1
      <4>2. n = 0 => Frames(n) = 1
        BY DEF Frames
      <4> HIDE DEF n
      <4>3. ~ (i + 1 < 1)
        BY <4>1
      <4> QED
        BY <3>1, <4>2, <4>3
    <3> QED
      BY <1>1, <1>6, <3>1, <3>2
  <2>5. q < Len(T) /\ T[q + 1] = FrameHead(m, (i + 1) + 1, n)
    BY <1>7, <2>4 DEF After, n
  <2>6. w = Whole(m, i + 1)
    BY <2>4 DEF w, SoFar
  <2>7. ReaderInv(d)'
    <3>1. Together(d, m, i + 1)'
      BY <2>2, <2>4, <2>6 DEF Together
    <3>2. Expects(d, m, i + 1)'
      BY <1>1, <1>13, <1>15, <2>4, <2>5 DEF Expects, C, L, T, n
    <3>3. ReaderAt(d, Len(out[d]) + 1, i + 1)'
      BY <1>1, <2>1, <3>1, <3>2 DEF ReaderAt
    <3> QED
      BY <2>4, <3>3 DEF ReaderInv
  <2>9. InOrder(d)'
    BY <1>2, <2>1 DEF InOrder
  <2> QED
    BY <1>1, <2>1, <2>7, <2>9 DEF SideInv
<1>18. CASE h.last
  <2>1. /\ \/ out' = [out EXCEPT ![d] = Append(@, w)] /\ end' = "running"
           \/ out' = out /\ end' = "io_error"
        /\ reassembly' = [reassembly EXCEPT ![d] = NoMessage]
    BY <1>12, <1>18 DEF Forward
  <2>2. reassembly'[d] = NoMessage
    BY <1>1, <1>5, <2>1
  <2>3. i + 1 = Frames(n) /\ w = Message(d, m)
    <3>1. i + 1 = Frames(n)
      BY <1>9, <1>18
    <3>2. w = Whole(m, n)
      BY <1>6, <3>1 DEF w, SoFar, Frames
    <3> QED
      BY <1>1, <3>1, <3>2, MessageIsWhole DEF n, C
  <2>4. CASE out' = out /\ end' = "io_error"
    <3>1. InOrder(d)'
      BY <1>2, <2>4 DEF InOrder
    <3> QED
      BY <2>4, <3>1 DEF SideInv
  <2>5. CASE out' = [out EXCEPT ![d] = Append(@, w)] /\ end' = "running"
    <3> DEFINE s == OneMore(out[d], w)
    <3>1. /\ s \in Seq(Messages) /\ Len(s) = m /\ (\A k \in 1..Len(out[d]) : s[k] = out[d][k])
             /\ s[m] = w
          /\ Len(out[d]) \in Nat /\ out[d] \in Seq(Messages)
      <4>1. out[d] \in Seq(Messages) /\ Len(out[d]) \in Nat
        BY <1>1, <1>5
      <4>2. /\ s \in Seq(Messages) /\ Len(s) = Len(out[d]) + 1
            /\ (\A k \in 1..Len(out[d]) : s[k] = out[d][k]) /\ s[Len(out[d]) + 1] = w
        <5> DEFINE t == out[d]
        <5>1. t \in Seq(Messages) /\ w \in Messages
          BY <1>10, <4>1
        <5> HIDE DEF t, w
        <5>2. /\ OneMore(t, w) \in Seq(Messages) /\ Len(OneMore(t, w)) = Len(t) + 1
              /\ (\A k \in 1..Len(t) : OneMore(t, w)[k] = t[k]) /\ OneMore(t, w)[Len(t) + 1] = w
          BY <5>1, OneMoreSeq
        <5> QED
          BY <5>2 DEF t
      <4>3. m = Len(out[d]) + 1
        BY <1>1
      <4> HIDE DEF s
      <4> QED
        BY <4>1, <4>2, <4>3
    <3>2. out' = [out EXCEPT ![d] = s]
      BY <2>5 DEF OneMore
    <3> HIDE DEF s
    <3>3. out'[d] = s
      BY <1>1, <1>5, <3>2
    <3>5. InOrder(d)'
      <4>1. Len(out[d]) <= Len(Chunks[d]) /\ \A k \in DOMAIN out[d] : out[d][k] = Message(d, k)
        BY <1>2 DEF InOrder
      <4>2. Len(s) <= Len(Chunks[d])
        BY <1>1, <1>3, <3>1 DEF C, L
      <4>3. \A k \in 1..m : s[k] = Message(d, k)
        <5>0. out[d] \in Seq(Messages) /\ d \in Sides
          BY <1>1, <3>1
        <5>1. \A k \in 1..Len(out[d]) : s[k] = Message(d, k)
          <6>1. DOMAIN out[d] = 1..Len(out[d])
            BY <5>0
          <6>2. \A k \in 1..Len(out[d]) : out[d][k] = Message(d, k)
            BY <4>1, <5>0, <6>1
          <6> QED
            BY <3>1, <6>2
        <5>2. s[m] = Message(d, m)
          BY <2>3, <3>1
        <5> QED
          BY <1>1, <3>1, <5>1, <5>2
      <4>4. \A k \in DOMAIN s : s[k] = Message(d, k)
        BY <3>1, <4>3
      <4> QED
        BY <3>3, <4>2, <4>4 DEF InOrder
    <3>6. ReaderInv(d)'
      <4>1. Together(d, m + 1, 0)'
        BY <2>2 DEF Together
      <4>2. CASE m < L
        <5>1. q < Len(T) /\ T[q + 1] = FrameHead(m + 1, 1, C[m + 1])
          BY <1>7, <2>3, <4>2 DEF After, n
        <5>2. m + 1 \in 1..L /\ 0 + 1 = 1
          BY <1>3, <1>6, <4>2
        <5>3. 0 + 1 \in 1..Frames(C[m + 1])
          BY <1>3, <5>2
        <5>4. Expects(d, m + 1, 0)'
          BY <1>13, <1>15, <5>1, <5>2, <5>3 DEF Expects, C, L, T
        <5> QED
          BY <1>6, <3>1, <3>3, <4>1, <5>4 DEF ReaderInv, ReaderAt
      <4>3. CASE m = L
        <5>1. q = Len(T)
          BY <1>7, <2>3, <4>3 DEF After, n
        <5>2. Expects(d, m + 1, 0)'
          BY <1>13, <1>15, <4>3, <5>1 DEF Expects, C, L, T
        <5> QED
          BY <1>6, <3>1, <3>3, <4>1, <5>2 DEF ReaderInv, ReaderAt
      <4> QED
        BY <1>1, <1>3, <4>2, <4>3
    <3> QED
      BY <2>5, <3>5, <3>6 DEF SideInv
  <2> QED
    BY <2>1, <2>4, <2>5
<1> QED
  BY <1>17, <1>18

\* The side whose reader did not run keeps what it has, or loses a half-read frame.
LEMMA OtherSide ==
  ASSUME RelayInv, end = "running", NEW d \in Sides, NEW e \in Sides, e # d,
         NEW h, NEW p, NEW n, Fragmented(d, h, p, n)
  PROVE  SideInv(e)'
<1>1. pos'[e] = pos[e] /\ reassembly'[e] = reassembly[e] /\ out'[e] = out[e]
  BY DEF Fragmented, Forward, RelayInv, RelayTypeOK
<1>2. \/ pending'[e] = pending[e] /\ dropped'[e] = dropped[e]
      \/ pending'[e] = NoHeader /\ (dropped'[e] <=> dropped[e] \/ pending[e] # NoHeader)
  <2>1. pending' = [pending EXCEPT ![d] = NoHeader] /\ dropped' = dropped
        => pending'[e] = pending[e] /\ dropped'[e] = dropped[e]
    BY DEF RelayInv, RelayTypeOK
  <2>2. pending' = [x \in Sides |-> NoHeader]
        /\ dropped' = [x \in Sides |-> dropped[x] \/ (x # d /\ pending[x] # NoHeader)]
        => pending'[e] = NoHeader /\ (dropped'[e] <=> dropped[e] \/ pending[e] # NoHeader)
    BY Zenon
  <2> QED
    BY <2>1, <2>2, Zenon DEF Fragmented, Forward
<1>3. SUFFICES ASSUME ~dropped'[e] PROVE InOrder(e)' /\ ReaderInv(e)'
  BY DEF SideInv
<1>4. ~dropped[e] /\ pending'[e] = pending[e]
  BY <1>2, <1>3
<1>5. InOrder(e) /\ ReaderInv(e)
  BY <1>4 DEF RelayInv, SideInv
<1> QED
  BY <1>1, <1>4, <1>5, ReaderSame DEF InOrder

\* What has been dropped of a side stays dropped, and only such a side ends the session.
LEMMA DroppedStays ==
  ASSUME RelayTypeOK, NEW d \in Sides, dropped[d], NEW h, NEW p, NEW n, Fragmented(d, h, p, n)
  PROVE  dropped'[d]
BY Zenon DEF Fragmented, Forward

LEMMA FragmentIsSound ==
  ASSUME RelayInv, RelayTypeOK', end = "running", NEW d \in Sides,
         NEW h, NEW p, NEW n, Fragmented(d, h, p, n),
         ~dropped[d] => SideInv(d)' /\ end' # "invalid_data"
  PROVE  RelayInv'
<1>1. ASSUME NEW e \in Sides, e # d PROVE SideInv(e)'
  BY <1>1, OtherSide
<1>2. CASE dropped[d]
  <2>1. dropped'[d]
    BY <1>2, DroppedStays DEF RelayInv
  <2> QED
    BY <1>1, <2>1 DEF RelayInv, SideInv
<1>3. CASE ~dropped[d]
  BY <1>1, <1>3 DEF RelayInv
<1> QED
  BY <1>2, <1>3

FirstPart(s, a, b) == SubSeq(s, a, b)
LEMMA FirstParts ==
  ASSUME NEW S, NEW s \in Seq(S), NEW k \in Nat
  PROVE  /\ FirstPart(s, k + 2, k + 1) = <<>>
         /\ k + 2 \in 1..Len(s) => FirstPart(s, k + 2, k + 2) = <<s[k + 2]>>
<1>1. FirstPart(s, k + 2, k + 1) = <<>>
  BY DEF FirstPart
<1>2. ASSUME k + 2 \in 1..Len(s) PROVE FirstPart(s, k + 2, k + 2) = <<s[k + 2]>>
  <2> DEFINE j == k + 2
             t == SubSeq(s, j, j)
  <2>1. j \in 1..Len(s) /\ j \in Nat
    BY <1>2
  <2> HIDE DEF j
  <2>2. t \in Seq(S) /\ Len(t) = 1 /\ t[1] = s[j]
    BY <2>1
  <2> HIDE DEF t
  <2>3. t = <<s[j]>>
    BY <2>2
  <2> QED
    BY <2>3 DEF FirstPart, j, t
<1> QED
  BY <1>1, <1>2

\* The next cell of d, i frames into message m.
NextCell(d, m, i) ==
  /\ m = Len(out[d]) + 1 /\ i \in Nat /\ Together(d, m, i)
  /\ m \in 1..Len(Chunks[d]) /\ i + 1 \in 1..Frames(Chunks[d][m]) /\ Chunks[d][m] \in Nat
  /\ \/ pending[d] = NoHeader /\ Stream[d][pos[d] + 1] = FrameHead(m, i + 1, Chunks[d][m])
     \/ /\ pending[d] = FrameHead(m, i + 1, Chunks[d][m]) /\ pending[d] # NoHeader
           /\ Chunks[d][m] > 0
        /\ Stream[d][pos[d] + 1] = Body(m, i + 1)
  /\ Place(Stream[d], Chunks[d], Len(Chunks[d]), m, i + 1, pos[d] + 1)
  /\ pos[d] \in Nat /\ arrived[d] \in Nat /\ arrived[d] <= Len(Stream[d])
     /\ Stream[d] \in Seq(Cell) /\ Len(Stream[d]) \in Nat

\* A header is not the absence of one.
LEMMA HeadIsHeader == ASSUME NEW m, NEW i, NEW n
                      PROVE FrameHead(m, i, n) # NoHeader /\ FrameHead(m, i, n).part = "header"
<1>1. FrameHead(m, i, n).part = "header"
  BY CellFields
<1>2. NoHeader.part = "none"
  BY DEF NoHeader
<1> QED
  BY <1>1, <1>2

\* While the session runs and nothing of d was dropped, what d reads next is a header, or the payload of the one read.
LEMMA NextCellIs ==
  ASSUME RelayInv, end = "running", NEW d \in Sides, ~dropped[d], pos[d] < arrived[d]
  PROVE  \E m, i : NextCell(d, m, i)
<1> DEFINE m == Len(out[d]) + 1
           C == Chunks[d]
           T == Stream[d]
           L == Len(C)
<1>1. PICK i \in Nat : ReaderAt(d, m, i)
  BY DEF RelayInv, SideInv, ReaderInv
<1>2. pos[d] \in Nat /\ arrived[d] \in Nat /\ arrived[d] <= Len(T) /\ T \in Seq(Cell)
      /\ Len(T) \in Nat
  BY StreamType DEF RelayInv, RelayTypeOK
<1> HIDE DEF m, C, T, L
<1>3. pos[d] # Len(T) /\ pos[d] + 1 \in 1..Len(T)
  BY <1>2
<1>4. /\ m \in 1..L /\ i + 1 \in 1..Frames(C[m])
      /\ \/ pending[d] = NoHeader /\ T[pos[d] + 1] = FrameHead(m, i + 1, C[m])
         \/ /\ pending[d] = FrameHead(m, i + 1, C[m]) /\ C[m] > 0
            /\ T[pos[d] + 1] = Body(m, i + 1)
  BY <1>1, <1>3 DEF ReaderAt, Expects, C, T, L
<1>5. Together(d, m, i)
  BY <1>1 DEF ReaderAt
<1>6. C[m] \in Nat
  BY <1>4, StreamType DEF C, L
<1>7. Place(T, C, L, m, i + 1, pos[d] + 1)
  <2>1. InStream(T, C, L)
    BY StreamFollows DEF T, C, L
  <2> QED
    BY <1>3, <1>4, <2>1 DEF InStream
<1>8. FrameHead(m, i + 1, C[m]) # NoHeader
  BY HeadIsHeader
<1>9. NextCell(d, m, i)
  BY <1>1, <1>2, <1>4, <1>5, <1>6, <1>7, <1>8 DEF NextCell, m, C, T, L
<1> QED
  BY <1>9

\* The header and the payload, or the header of an empty message.
LEMMA ReadFrameSide ==
  ASSUME RelayInv, NEW d \in Sides, ReadFrame(d), ~dropped[d]
  PROVE  SideInv(d)' /\ end' # "invalid_data"
<1>1. end = "running" /\ pending[d] = NoHeader /\ pos[d] < arrived[d]
  BY DEF ReadFrame
<1>2. PICK m, i : NextCell(d, m, i)
  BY <1>1, NextCellIs
<1> DEFINE T == Stream[d]
           n == Chunks[d][m]
           h == FrameHead(m, i + 1, n)
           q == pos[d] + 1 + h.len
<1>3. T[pos[d] + 1] = h
  BY <1>1, <1>2 DEF NextCell
<1>4. HeaderRead(T[pos[d] + 1]) = {h}
  BY <1>3, HeadIsHeader DEF HeaderRead
<1>5. q <= arrived[d] /\ Fragmented(d, h, FirstPart(T, pos[d] + 2, q), q)
  <2> HIDE DEF h
  <2> QED
    BY <1>4 DEF ReadFrame, FirstPart
<1>6. /\ n \in Nat /\ pos[d] \in Nat /\ arrived[d] \in Nat /\ arrived[d] <= Len(T)
         /\ T \in Seq(Cell) /\ Len(T) \in Nat
      /\ (n > 0 => T[pos[d] + 2] = Body(m, i + 1))
  <2>1. (n > 0 => T[(pos[d] + 1) + 1] = Body(m, i + 1))
    BY <1>2, <1>3 DEF NextCell, Place
  <2>2. pos[d] \in Nat
    BY <1>2 DEF NextCell
  <2>3. (pos[d] + 1) + 1 = pos[d] + 2
    BY <2>2
  <2> QED
    BY <1>2, <2>1, <2>3 DEF NextCell
<1>7. h.len = IF n = 0 THEN 0 ELSE 1
  BY CellFields
<1> HIDE DEF h, n, T
<1>8. CASE n = 0
  <2>1. q = pos[d] + 1 /\ FirstPart(T, pos[d] + 2, q) = <<>>
    <3>1. q = pos[d] + 1
      BY <1>6, <1>7, <1>8
    <3> QED
      BY <1>6, <3>1, FirstParts
  <2>2. T[q] = EndCell(m, i + 1, n)
    BY <1>3, <1>8, <2>1 DEF EndCell, h
  <2>3. Payload(m, i + 1, n) = <<>>
    BY <1>8 DEF Payload
  <2> HIDE DEF q
  <2>4. q \in (pos[d] + 1)..arrived[d]
    BY <1>1, <1>6, <2>1
  <2>5. FrameRead(d, m, i, q)
    BY <1>1, <1>2, <1>5, <2>1, <2>2, <2>3, <2>4 DEF FrameRead, NextCell, T, n, h
  <2> QED
    BY <2>5, FrameReadIsSound
<1>9. CASE n # 0
  <2>1. q = pos[d] + 2
    BY <1>6, <1>7, <1>9
  <2>2. q \in (pos[d] + 1)..arrived[d] /\ pos[d] + 2 \in 1..Len(T) /\ n > 0
    BY <1>5, <1>6, <1>9, <2>1
  <2> HIDE DEF q
  <2>3. FirstPart(T, pos[d] + 2, q) = <<Body(m, i + 1)>>
    <3>1. FirstPart(T, pos[d] + 2, pos[d] + 2) = <<T[pos[d] + 2]>>
      BY <1>6, <2>2, FirstParts
    <3> QED
      BY <1>6, <2>1, <2>2, <3>1
  <2>4. T[q] = EndCell(m, i + 1, n)
    BY <1>6, <2>1, <2>2 DEF EndCell
  <2>5. Payload(m, i + 1, n) = <<Body(m, i + 1)>>
    BY <2>2 DEF Payload
  <2>6. FrameRead(d, m, i, q)
    BY <1>1, <1>2, <1>5, <2>2, <2>3, <2>4, <2>5 DEF FrameRead, NextCell, T, n, h
  <2> QED
    BY <2>6, FrameReadIsSound
<1> QED
  BY <1>8, <1>9

\* The payload of the header read before.
LEMMA ReadPayloadSide ==
  ASSUME RelayInv, NEW d \in Sides, ReadPayload(d), ~dropped[d]
  PROVE  SideInv(d)' /\ end' # "invalid_data"
<1>1. end = "running" /\ pending[d] # NoHeader /\ pos[d] < arrived[d]
  BY DEF ReadPayload
<1>2. PICK m, i : NextCell(d, m, i)
  BY <1>1, NextCellIs
<1> DEFINE T == Stream[d]
           n == Chunks[d][m]
           h == FrameHead(m, i + 1, n)
           q == pos[d] + 1
<1>3. pending[d] = h /\ n > 0 /\ T[q] = Body(m, i + 1)
  BY <1>1, <1>2 DEF NextCell
<1>4. Fragmented(d, pending[d], <<T[q]>>, q)
  BY DEF ReadPayload
<1>5. Fragmented(d, h, Payload(m, i + 1, n), q)
  <2>1. Payload(m, i + 1, n) = <<T[q]>>
    BY <1>3 DEF Payload
  <2> HIDE DEF T, n, h, q
  <2> QED
    BY <1>3, <1>4, <2>1
<1>6. q \in (pos[d] + 1)..arrived[d]
  <2>1. pos[d] \in Nat /\ arrived[d] \in Nat
    BY <1>2 DEF NextCell
  <2> QED
    BY <1>1, <2>1
<1>7. T[q] = EndCell(m, i + 1, n)
  BY <1>3 DEF EndCell
<1> HIDE DEF q
<1>8. FrameRead(d, m, i, q)
  BY <1>1, <1>2, <1>5, <1>6, <1>7 DEF FrameRead, NextCell
<1> QED
  BY <1>8, FrameReadIsSound

\* With the other side, and a side of which something was dropped.
LEMMA ReadFrameIsSound ==
  ASSUME RelayInv, RelayTypeOK', NEW d \in Sides, ReadFrame(d) PROVE RelayInv'
<1>1. end = "running" /\ \E h, p, n : Fragmented(d, h, p, n)
  BY DEF ReadFrame
<1>2. ~dropped[d] => SideInv(d)' /\ end' # "invalid_data"
  BY ReadFrameSide
<1> QED
  BY <1>1, <1>2, FragmentIsSound

LEMMA ReadPayloadIsSound ==
  ASSUME RelayInv, RelayTypeOK', NEW d \in Sides, ReadPayload(d) PROVE RelayInv'
<1>1. end = "running" /\ \E h, p, n : Fragmented(d, h, p, n)
  BY DEF ReadPayload
<1>2. ~dropped[d] => SideInv(d)' /\ end' # "invalid_data"
  BY ReadPayloadSide
<1> QED
  BY <1>1, <1>2, FragmentIsSound

\* Nothing has arrived.
LEMMA RelayInitially == ASSUME RelayInit PROVE RelayInv
<1>1. /\ arrived = [d \in Sides |-> 0] /\ pos = [d \in Sides |-> 0]
      /\ pending = [d \in Sides |-> NoHeader]
         /\ reassembly = [d \in Sides |-> NoMessage]
      /\ out = [d \in Sides |-> <<>>] /\ end = "running"
  BY DEF RelayInit
<1>2. ASSUME NEW d \in Sides
      PROVE  /\ arrived[d] = 0 /\ pos[d] = 0 /\ pending[d] = NoHeader
                /\ reassembly[d] = NoMessage
             /\ out[d] = <<>> /\ Len(out[d]) = 0
  BY <1>1
<1>3. ASSUME NEW d \in Sides
      PROVE  /\ Stream[d] \in Seq(Cell) /\ Len(Stream[d]) \in Nat /\ Len(Chunks[d]) \in Nat
             /\ \A m \in 1..Len(Chunks[d]) : Frames(Chunks[d][m]) \in Nat \ {0}
             /\ Len(Chunks[d]) = 0 => Len(Stream[d]) = 0
             /\ Len(Chunks[d]) > 0 => Len(Stream[d]) > 0
                /\ Stream[d][1] = FrameHead(1, 1, Chunks[d][1])
  <2>1. InStream(Stream[d], Chunks[d], Len(Chunks[d]))
    BY StreamFollows
  <2>2. Len(Chunks[d]) = 0 => Stream[d] = <<>>
    BY <2>1 DEF InStream
  <2>3. Len(Chunks[d]) > 0 => Len(Stream[d]) > 0
        /\ Stream[d][1] = FrameHead(1, 1, Chunks[d][1])
    BY <2>1 DEF InStream
  <2>4. Len(<<>>) = 0
    OBVIOUS
  <2> QED
    BY <2>2, <2>3, <2>4, StreamType
<1>4. RelayTypeOK
  BY RelayTypesInitially
<1>5. ASSUME NEW d \in Sides PROVE InOrder(d)
  <2>1. Len(out[d]) <= Len(Chunks[d]) /\ DOMAIN out[d] = {}
    BY <1>2, <1>3
  <2> QED
    BY <2>1 DEF InOrder
<1>7. ASSUME NEW d \in Sides PROVE ReaderInv(d)
  <2>1. Together(d, 1, 0)
    BY <1>2 DEF Together
  <2>2. Expects(d, 1, 0)
    <3>1. CASE Len(Chunks[d]) = 0
      BY <1>2, <1>3, <3>1 DEF Expects
    <3>2. CASE Len(Chunks[d]) # 0
      <4>1. Len(Chunks[d]) > 0 /\ 1 \in 1..Len(Chunks[d]) /\ 0 + 1 = 1
        BY <1>3, <3>2
      <4>2. 0 + 1 \in 1..Frames(Chunks[d][1])
        BY <1>3, <4>1
      <4> QED
        BY <1>2, <1>3, <4>1, <4>2 DEF Expects
    <3> QED
      BY <3>1, <3>2
  <2>3. ReaderAt(d, Len(out[d]) + 1, 0)
    BY <1>2, <2>1, <2>2 DEF ReaderAt
  <2> QED
    BY <2>3 DEF ReaderInv
<1> QED
  BY <1>1, <1>4, <1>5, <1>7 DEF RelayInv, SideInv

\* Steps of a peer, and ends of the session, leave what the readers hold alone.
LEMMA EndingIsSound ==
  ASSUME RelayInv, RelayTypeOK', UNCHANGED <<pos, pending, reassembly, dropped, out>>,
         end' \in {end, "disconnected", "io_error"}
  PROVE  RelayInv'
<1>1. ASSUME NEW e \in Sides, ~dropped'[e] PROVE InOrder(e)' /\ (end' = "running" => ReaderInv(e)')
  <2>1. InOrder(e) /\ (end = "running" => ReaderInv(e))
    BY <1>1 DEF RelayInv, SideInv
  <2>2. InOrder(e)'
    BY <2>1 DEF InOrder
  <2>3. ReaderInv(e) => ReaderInv(e)'
    BY ReaderSame
  <2> QED
    BY <2>1, <2>2, <2>3
<1> QED
  BY <1>1 DEF RelayInv, SideInv

\* A header whose payload has not arrived.
LEMMA ReadHeaderSide ==
  ASSUME RelayInv, NEW d \in Sides, ReadHeader(d), ~dropped[d] PROVE SideInv(d)'
<1>1. end = "running" /\ pending[d] = NoHeader /\ pos[d] < arrived[d]
  BY DEF ReadHeader
<1>2. PICK m, i : NextCell(d, m, i)
  BY <1>1, NextCellIs
<1> DEFINE T == Stream[d]
           n == Chunks[d][m]
           h == FrameHead(m, i + 1, n)
<1>3. T[pos[d] + 1] = h
  BY <1>1, <1>2 DEF NextCell
<1>4. HeaderRead(T[pos[d] + 1]) = {h}
  BY <1>3, HeadIsHeader DEF HeaderRead
<1>5. /\ pos[d] + 1 + h.len > arrived[d] /\ pending' = [pending EXCEPT ![d] = h]
      /\ pos' = [pos EXCEPT ![d] = @ + 1] /\ UNCHANGED <<arrived, closed, reassembly, dropped, out, end>>
  <2> HIDE DEF h
  <2> QED
    BY <1>4 DEF ReadHeader
<1>6. /\ m = Len(out[d]) + 1 /\ i \in Nat /\ Together(d, m, i)
      /\ m \in 1..Len(Chunks[d]) /\ i + 1 \in 1..Frames(n) /\ n \in Nat
      /\ pos[d] \in Nat /\ arrived[d] \in Nat /\ arrived[d] <= Len(T) /\ Len(T) \in Nat
      /\ Place(T, Chunks[d], Len(Chunks[d]), m, i + 1, pos[d] + 1)
  BY <1>2 DEF NextCell
<1>7. h.len = IF n = 0 THEN 0 ELSE 1
  BY CellFields
<1>8. InOrder(d)
  BY <1>1 DEF RelayInv, SideInv
<1> HIDE DEF T, n, h
\* There is a payload, and it is what comes next.
<1>11. n > 0 /\ arrived[d] = pos[d] + 1
  BY <1>1, <1>5, <1>6, <1>7
<1>12. pos[d] + 1 < Len(T) /\ T[pos[d] + 1 + 1] = Body(m, i + 1)
  <2>1. T[pos[d] + 1] = FrameHead(m, i + 1, Chunks[d][m]) /\ Chunks[d][m] > 0
    BY <1>3, <1>11 DEF h, n
  <2> QED
    BY <1>6, <2>1 DEF Place
<1>16. pos'[d] = pos[d] + 1 /\ pending'[d] = h
  BY <1>5 DEF RelayInv, RelayTypeOK
<1>20. ReaderInv(d)'
  <2>1. Together(d, m, i)'
    BY <1>5, <1>6 DEF Together
  <2>2. Expects(d, m, i)'
    <3>1. pos'[d] < Len(Stream[d]) /\ Stream[d][pos'[d] + 1] = Body(m, i + 1)
      BY <1>12, <1>16 DEF T
    <3>2. pending'[d] = FrameHead(m, i + 1, Chunks[d][m]) /\ Chunks[d][m] > 0
      BY <1>11, <1>16 DEF h, n
    <3> QED
      BY <1>6, <3>1, <3>2 DEF Expects, n
  <2> QED
    BY <1>5, <1>6, <2>1, <2>2 DEF ReaderInv, ReaderAt
<1>21. InOrder(d)'
  BY <1>5, <1>8 DEF InOrder
<1> QED
  BY <1>20, <1>21 DEF SideInv

LEMMA ReadHeaderIsSound ==
  ASSUME RelayInv, RelayTypeOK', NEW d \in Sides, ReadHeader(d) PROVE RelayInv'
<1>1. /\ end = "running" /\ UNCHANGED <<arrived, closed, reassembly, dropped, out, end>>
      /\ pos' = [pos EXCEPT ![d] = @ + 1] /\ \E h : pending' = [pending EXCEPT ![d] = h]
  BY DEF ReadHeader
<1>2. ASSUME NEW e \in Sides PROVE SideInv(e)'
  <2>1. CASE e = d /\ ~dropped[d]
    BY <2>1, ReadHeaderSide
  <2>2. CASE e = d /\ dropped[d]
    BY <1>1, <2>2 DEF SideInv
  <2>3. CASE e # d
    <3>1. pos'[e] = pos[e] /\ pending'[e] = pending[e]
      BY <1>1, <2>3 DEF RelayInv, RelayTypeOK
    <3>2. SideInv(e)
      BY DEF RelayInv
    <3>3. InOrder(e) => InOrder(e)'
      BY <1>1 DEF InOrder
    <3>4. ReaderInv(e) => ReaderInv(e)'
      BY <1>1, <3>1, ReaderSame
    <3> QED
      BY <1>1, <3>2, <3>3, <3>4 DEF SideInv
  <2> QED
    BY <2>1, <2>2, <2>3
<1> QED
  BY <1>1, <1>2 DEF RelayInv

\* Every step of the session.
LEMMA RelayKeeps == ASSUME RelayInv, [RelayNext]_relayVars
                   PROVE RelayInv'
<1>0. RelayTypeOK'
  BY RelayTypesKept DEF RelayInv
<1>1. CASE UNCHANGED relayVars
  BY <1>0, <1>1, EndingIsSound DEF relayVars
<1>2. ASSUME NEW d \in Sides, FrameArrives(d) \/ PartArrives(d) \/ Close(d)
             \/ Read(d) PROVE RelayInv'
  <2>1. CASE FrameArrives(d)
    BY <1>0, <2>1, EndingIsSound DEF FrameArrives
  <2>2. CASE PartArrives(d)
    BY <1>0, <2>2, EndingIsSound DEF PartArrives
  <2>3. CASE Close(d)
    BY <1>0, <2>3, EndingIsSound DEF Close
  <2>4. CASE ReadFrame(d)
    BY <1>0, <2>4, ReadFrameIsSound
  <2>5. CASE ReadHeader(d)
    BY <1>0, <2>5, ReadHeaderIsSound
  <2>6. CASE ReadPayload(d)
    BY <1>0, <2>6, ReadPayloadIsSound
  <2>7. CASE ReadEof(d)
    BY <1>0, <2>7, EndingIsSound DEF ReadEof
  <2> QED
    BY <1>2, <2>1, <2>2, <2>3, <2>4, <2>5, <2>6, <2>7 DEF Read
<1> QED
  BY <1>1, <1>2 DEF RelayNext

\* Until select! drops a half-read frame of a side, every message forwarded from it is the
\* next one it sent, whole and with its fragments in order, whatever happens to the other
\* direction; and the reader rejects what encode_frames produced only after such a drop.
\* For any messages of any number of chunks on both sides, however TCP cuts the frames and
\* ends of connections and polls of the loop interleave (proxy.rs, AapFrameReader of aap.rs).
THEOREM RelayFaithful == RelaySpec => []Faithful
<1>1. RelayInit => RelayInv
  BY RelayInitially
<1>2. RelayInv /\ [RelayNext]_relayVars => RelayInv'
  BY RelayKeeps
<1>3. RelayInv => Faithful
  BY DEF RelayInv, SideInv, Faithful
<1> QED
  BY <1>1, <1>2, <1>3, PTL DEF RelaySpec
=============================================================================
