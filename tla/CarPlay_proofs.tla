--------------------------- MODULE CarPlay_proofs ---------------------------
(***************************************************************************)
(* Theorems about the parts of the CarPlay daemon beside its video: the    *)
(* main thread with its iPhone connection (CarplayDaemon), one AirPlay     *)
(* control connection (AirPlaySession) and the AirPlay server's slots,     *)
(* threads and stop (AirPlayServer).                                       *)
(***************************************************************************)
EXTENDS AirPlaySession, CarplayDaemon, AirPlayServer, FiniteSetTheorems, WellFoundedInduction, TLAPS

-----------------------------------------------------------------------------
(* The main thread.                                                         *)

\* What stopped_cb still has to be told of is a session that is not over.
Untold == announced => cp \notin {"IDLE", "STOPPED"}

\* Between connections, and until the first message of one, nothing is started.
OutOfCall == at \in {"startup", "test", "calling", "accept", "retry", "setup"} => ~started

\* In a connection there is an iPhone, which may have closed it.
Connected == /\ iPhone \in {"none", "up", "closed"}
             /\ at \in InCall \cup {"setup", "cleanup"} => iPhone # "none"

\* In a connection a session is announced only when it is started, and started by a
\* StartEAP that has gone out.
InEap == at \in InCall => (announced => started) /\ (started => "startEap" \in told)

\* What an earlier connection has left announced is passed over only if this one is closed.
LeftOver == at = "cleanup" /\ announced => started \/ iPhone = "closed"

DaemonInv == Untold /\ OutOfCall /\ Connected /\ InEap /\ LeftOver

LEMMA DaemonInitially == DaemonInit => DaemonInv
  BY DEF DaemonInit, DaemonInv, Untold, OutOfCall, Connected, InEap, LeftOver, InCall

\* Outside a connection.
LEMMA DaemonLoopKeeps ==
  ASSUME DaemonInv,
         \/ Signal \/ Startup \/ TestRunning \/ CallAccept
         \/ Accept \/ BtAcceptFails \/ Setup \/ Shutdown \/ AirPlayStopped
  PROVE  DaemonInv'
<1> USE DEF DaemonInv, Untold, OutOfCall, Connected, InEap, LeftOver, InCall, Goto,
            sessionVars, carplayVars
<1>1. CASE Signal
  BY <1>1 DEF Signal
<1>2. CASE Startup
  BY <1>2 DEF Startup
<1>3. CASE TestRunning
  BY <1>3 DEF TestRunning
<1>4. CASE CallAccept
  BY <1>4 DEF CallAccept
<1>5. CASE Accept
  <2>1. at' = "setup" /\ started' = FALSE /\ UNCHANGED <<cp, announced>>
    BY <1>5 DEF Accept, NewSession
  <2>2. iPhone' = iPhone /\ iPhone # "none"
    BY <1>5 DEF Accept
  <2> QED
    BY <2>1, <2>2
<1>6. CASE BtAcceptFails
  BY <1>6 DEF BtAcceptFails
<1>7. CASE Setup
  <2>1. /\ at = "setup" /\ UNCHANGED <<iPhone, started>> /\ iPhone \in {"up", "closed"}
        /\ ~started
    BY <1>7 DEF Setup
  <2>2. PICK ok \in Written : /\ at' = IF ok THEN "loop" ELSE "cleanup"
                              /\ IF ok THEN cp' = "IDLE" /\ announced' = FALSE
                                       ELSE UNCHANGED <<cp, announced>>
    BY <1>7 DEF Setup
  <2>3. ~ok => iPhone = "closed"
    BY <2>1, <2>2 DEF Written
  <2> QED
    BY <2>1, <2>2, <2>3
<1>8. CASE Shutdown \/ AirPlayStopped
  BY <1>8 DEF Shutdown, AirPlayStopped
<1> QED
  BY <1>1, <1>2, <1>3, <1>4, <1>5, <1>6, <1>7, <1>8

\* What a connection reads and waits for changes nothing of its session.
LEMMA DaemonReadKeeps ==
  ASSUME DaemonInv,
         \/ TestLoop \/ Timeout \/ Read \/ ReadNothing
         \/ SkipCell \/ SpinsForever \/ EndOfBuffer \/ NothingToStart
  PROVE  DaemonInv'
<1> USE DEF DaemonInv, Untold, OutOfCall, Connected, InEap, LeftOver, InCall, Goto,
            sessionVars, carplayVars
<1>1. /\ UNCHANGED <<iPhone, started, cp, announced, told>>
      /\ at \in InCall /\ at' \in InCall \cup {"cleanup"}
  BY DEF TestLoop, Timeout, Read, ReadNothing, SkipCell, SpinsForever,
         EndOfBuffer, NothingToStart
<1> QED
  BY <1>1

\* A packet is handled: its message changes the session, if one is started.
LEMMA DaemonMessageKeeps ==
  ASSUME DaemonInv,
         \/ LinkControl \/ LinkReset \/ Identification
         \/ CertRequest \/ Challenge \/ StartEap \/ NotStarted
         \/ EapStarted \/ Stopped \/ UseOwnNetwork \/ OfferNetwork
  PROVE  DaemonInv'
<1> USE DEF DaemonInv, Untold, OutOfCall, Connected, InEap, LeftOver, InCall, Goto,
            carplayVars, NoChange, Tell, SendAuthCert,
            SendAuthResponse, SendCredentials
<1>1. (\E m : Handles(m)) => at = "parse" /\ UNCHANGED <<iPhone, started>>
  BY DEF Handles
<1>2. CASE LinkControl \/ LinkReset \/ Identification \/ NotStarted
  BY <1>1, <1>2 DEF LinkControl, LinkReset, Identification, NotStarted
<1>3. CASE CertRequest \/ Challenge \/ StartEap
  <2>1. told \subseteq told' /\ at' = at /\ at = "parse" /\ UNCHANGED <<iPhone, started, cp,
                                                                        announced>>
    BY <1>1, <1>3 DEF CertRequest, Challenge, StartEap
  <2> QED
    BY <2>1
<1>4. CASE EapStarted
  BY <1>1, <1>4 DEF EapStarted
<1>5. CASE Stopped
  BY <1>1, <1>5 DEF Stopped
<1>6. CASE UseOwnNetwork
  BY <1>1, <1>6 DEF UseOwnNetwork
<1>7. CASE OfferNetwork
  BY <1>1, <1>7 DEF OfferNetwork
<1> QED
  BY <1>2, <1>3, <1>4, <1>5, <1>6, <1>7

\* The session starts in its connection, and ends with it.
LEMMA DaemonEndsKeep ==
  ASSUME DaemonInv, StartCarplay \/ CarplayStop PROVE DaemonInv'
<1> USE DEF DaemonInv, Untold, OutOfCall, Connected, InEap, LeftOver, InCall, Goto,
            Tell
<1>1. CASE StartCarplay
  <2>1. at = "check" /\ started' = TRUE /\ UNCHANGED <<iPhone, announced>>
    BY <1>1 DEF StartCarplay
  <2>2. cp' \in {"EAP_STARTING", "ERROR"} \/ cp' = cp
    BY <1>1 DEF StartCarplay
  <2>3. at' = "cleanup" \/ (at' = "loop" /\ "startEap" \in told')
    BY <1>1 DEF StartCarplay, SendStartEap
  <2> QED
    BY <2>1, <2>2, <2>3
<1>2. CASE CarplayStop
  <2>1. at' = "test" /\ started' = FALSE /\ iPhone' = "none"
    BY <1>2 DEF CarplayStop, BtClose, NewSession
  <2>2. announced' => cp' \notin {"IDLE", "STOPPED"}
    BY <1>2 DEF CarplayStop
  <2> QED
    BY <2>1, <2>2
<1> QED
  BY <1>1, <1>2

LEMMA DaemonKeeps == DaemonInv /\ [DaemonNext]_daemonVars => DaemonInv'
<1> SUFFICES ASSUME DaemonInv, [DaemonNext]_daemonVars PROVE DaemonInv'
  OBVIOUS
<1>1. CASE IPhone
  <2>1. /\ UNCHANGED <<at, started, cp, announced, told>>
        /\ \/ iPhone' = iPhone
           \/ iPhone = "none" /\ iPhone' = "up"
           \/ iPhone = "up" /\ iPhone' = "closed"
    BY <1>1 DEF IPhone, Dials, HangsUp, Sends, SendsNoise,
       carplayVars
  <2> QED
    BY <2>1 DEF DaemonInv, Untold, OutOfCall, Connected, InEap, LeftOver, InCall
<1>2. CASE UNCHANGED daemonVars
  BY <1>2 DEF daemonVars, carplayVars, DaemonInv, Untold, OutOfCall,
     Connected, InEap, LeftOver, InCall
<1> QED
  BY <1>1, <1>2, DaemonLoopKeeps, DaemonReadKeeps, DaemonMessageKeeps, DaemonEndsKeep
  DEF DaemonNext, Main, Parser

\* Only the end of a connection leaves "cleanup"; a session that is still announced then
\* had its StopEAP refused by a closed connection, or was left by an earlier one.
LEMMA DaemonStopTold ==
  ASSUME DaemonInv, [DaemonNext]_daemonVars, at = "cleanup", at' # "cleanup", announced'
  PROVE  iPhone = "closed"
<1>1. CarplayStop
  BY DEF DaemonNext, IPhone, Dials, HangsUp, Sends, SendsNoise, Signal, Main, Startup,
     TestRunning, CallAccept, Accept, Setup, TestLoop, Parser, Timeout, Read, ReadNothing,
     SkipCell, SpinsForever, EndOfBuffer, LinkControl, LinkReset, Identification, CertRequest,
     Challenge, StartEap, NotStarted, EapStarted, Stopped, UseOwnNetwork, OfferNetwork, Handles,
     StartCarplay, NothingToStart, Shutdown, BtAcceptFails, AirPlayStopped, daemonVars
<1>2. iPhone \in {"up", "closed"}
  BY DEF DaemonInv, Connected
<1>3. CASE started /\ cp \notin {"IDLE", "STOPPED"}
  <2>1. PICK ok \in Written : announced' = (announced /\ ~ok)
    BY <1>1, <1>3 DEF CarplayStop
  <2>2. ok # TRUE
    BY <2>1, Zenon
  <2>3. Written # {TRUE}
    BY <2>2
  <2> QED
    BY <1>2, <2>3 DEF Written
<1>4. CASE ~(started /\ cp \notin {"IDLE", "STOPPED"})
  <2>1. announced /\ cp \notin {"IDLE", "STOPPED"}
    BY <1>1, <1>4 DEF CarplayStop, DaemonInv, Untold
  <2> QED
    BY <1>4, <2>1 DEF DaemonInv, LeftOver
<1> QED
  BY <1>3, <1>4

\* main goes on from a connection with an announced session only if the iPhone had closed
\* that connection, so that StopEAP could not be sent, and what is announced in a connection
\* follows a StartEAP sent in it: for any messages, any buffer, any number of connections.
THEOREM DaemonSessionSound == DaemonSpec => SessionSound
<1>1. DaemonInv => AnnouncedInEap
  BY DEF DaemonInv, InEap, AnnouncedInEap
<1>2. DaemonInv /\ [DaemonNext]_daemonVars
        => [at = "cleanup" /\ at' # "cleanup" /\ announced' => iPhone = "closed"]_daemonVars
  BY DaemonStopTold
<1> QED
  BY <1>1, <1>2, DaemonInitially, DaemonKeeps, PTL DEF DaemonSpec, SessionSound, StopIsTold

-----------------------------------------------------------------------------
(* The packets of a connection are a queue: none is lost, doubled or overtaken. *)

\* T has a least element.
Least(T) == \E x \in T : \A y \in T : x <= y
LEMMA LeastElement == ASSUME NEW T \in SUBSET Nat, T # {} PROVE Least(T)
<1> DEFINE R == OpToRel(<, Nat)
<1>1. IsWellFoundedOn(R, Nat)
  BY NatLessThanWellFounded
<1>2. \A x, y \in Nat : y < x => <<y, x>> \in R
  BY DEF OpToRel
<1> HIDE DEF R
<1>3. PICK x \in T : \A y \in T : ~ (<<y, x>> \in R)
  BY <1>1, WFMin
<1>4. ASSUME NEW y \in T PROVE x <= y
  <2>1. x \in Nat /\ y \in Nat
    OBVIOUS
  <2>2. ~ (<<y, x>> \in R)
    BY <1>3
  <2>3. ~ (y < x)
    BY <1>2, <2>1, <2>2
  <2> QED
    BY <2>1, <2>3
<1> QED
  BY <1>4 DEF Least

\* Induction up to N, over a set.
LEMMA UpTo ==
  ASSUME NEW N \in Nat, NEW P, 0 \in P, \A n \in 1..N : n - 1 \in P => n \in P
  PROVE  \A n \in 0..N : n \in P
<1> DEFINE Bad == {n \in 0..N : n \notin P}
<1>1. SUFFICES ASSUME Bad # {} PROVE FALSE
  OBVIOUS
<1>2. PICK n \in Bad : \A k \in Bad : n <= k
  <2>1. Bad \in SUBSET Nat
    OBVIOUS
  <2> HIDE DEF Bad
  <2> QED
    BY <1>1, <2>1, LeastElement DEF Least
<1>3. n \in 1..N /\ n - 1 \in 0..N /\ n - 1 \notin Bad
  BY <1>2
<1> QED
  BY <1>2, <1>3

\* A function given by its value at 0 and a step exists.
IsStep(N, V, a, H) == N \in Nat /\ a \in V /\ H \in [(1..N) \X V -> V]
IsChain(N, V, a, H, f) == f \in [0..N -> V] /\ f[0] = a /\ \A n \in 1..N : f[n] = H[<<n, f[n - 1]>>]
LEMMA RecursiveFunction ==
  ASSUME NEW N, NEW V, NEW a, NEW H, IsStep(N, V, a, H) PROVE \E f : IsChain(N, V, a, H, f)
<1>0. N \in Nat /\ a \in V /\ H \in [(1..N) \X V -> V]
  BY DEF IsStep
<1> DEFINE Solves(k, f) == f[0] = a /\ \A n \in 1..k : f[n] = H[<<n, f[n - 1]>>]
           P == {k \in 0..N : \E f \in [0..k -> V] : Solves(k, f)}
<1>1. 0 \in P
  <2>1. [i \in 0..0 |-> a] \in [0..0 -> V] /\ Solves(0, [i \in 0..0 |-> a])
    BY <1>0
  <2>2. 0 \in 0..N
    BY <1>0
  <2> HIDE DEF Solves
  <2> QED
    BY <2>1, <2>2
<1>2. ASSUME NEW k \in 1..N, k - 1 \in P PROVE k \in P
  <2>1. k \in Nat /\ k - 1 \in Nat /\ k \in 0..N
    BY <1>0
  <2> HIDE DEF Solves
  <2>2. PICK f \in [0..(k - 1) -> V] : Solves(k - 1, f)
    BY <1>2
  <2> USE DEF Solves
  <2> DEFINE g == [i \in 0..k |-> IF i = k THEN H[<<k, f[k - 1]>>] ELSE f[i]]
  <2>3. g \in [0..k -> V]
    BY <1>0, <2>1
  <2>4. g[0] = a /\ g[k] = H[<<k, f[k - 1]>>] /\ \A n \in 0..(k - 1) : g[n] = f[n]
    BY <2>1, <2>2
  <2>5. ASSUME NEW n \in 1..k PROVE g[n] = H[<<n, g[n - 1]>>]
    <3>1. n - 1 \in 0..(k - 1) /\ (n = k \/ n \in 1..(k - 1))
      BY <2>1
    <3> HIDE DEF g
    <3>2. CASE n = k
      BY <3>1, <3>2, <2>4
    <3>3. CASE n \in 1..(k - 1)
      <4>1. n \in 0..(k - 1) /\ f[n] = H[<<n, f[n - 1]>>]
        BY <2>1, <2>2, <3>3
      <4> QED
        BY <3>1, <4>1, <2>4
    <3> QED
      BY <3>1, <3>2, <3>3
  <2>6. Solves(k, g)
    <3> HIDE DEF g
    <3> QED
      BY <2>4, <2>5
  <2> HIDE DEF g, Solves
  <2> QED
    BY <2>1, <2>3, <2>6
<1>3. N \in P
  <2>1. N \in 0..N
    BY <1>0
  <2> HIDE DEF P
  <2> QED
    BY <1>0, <1>1, <1>2, <2>1, UpTo
<1> QED
  BY <1>3 DEF IsChain

\* Sequences: one more element before or after.
LEMMA Single == ASSUME NEW S, NEW m \in S PROVE <<m>> \in Seq(S) /\ Append(<<>>, m) = <<m>>
OBVIOUS

Joined(p, q) == p \o q
OneMore(s, c) == Append(s, c)

LEMMA AddCat == ASSUME NEW S, NEW p \in Seq(S), NEW q \in Seq(S), NEW c \in S
                PROVE  OneMore(Joined(p, q), c) = Joined(p, OneMore(q, c))
BY DEF OneMore, Joined

-----------------------------------------------------------------------------
(* Which packets a sequence of cells holds.                                *)

MessageNames == {c.msg : c \in Cells}
CountStep(s, n, q) == IF Whole(s[n]) THEN Append(q, s[n].msg) ELSE q
CountsTo(s, f) == /\ f \in [0..Len(s) -> Seq(MessageNames)] /\ f[0] = <<>>
                  /\ \A n \in 1..Len(s) : f[n] = CountStep(s, n, f[n - 1])

\* What is selected is counted cell by cell.
LEMMA PacketsCount == ASSUME NEW s \in Seq(Cells)
                      PROVE  \E f : CountsTo(s, f) /\ Packets(s) = f[Len(s)]
<1> DEFINE N == Len(s)
           V == Seq(MessageNames)
           H == [p \in (1..N) \X V |-> CountStep(s, p[1], p[2])]
           Is(f) == f = [n \in 0..N |-> IF n = 0 THEN <<>>
                                        ELSE IF Whole(s[n])
                                             THEN Append(f[n - 1], s[n].msg) ELSE f[n - 1]]
           of == CHOOSE f : Is(f)
<1>1. N \in Nat /\ <<>> \in V /\ \A n \in 1..N : s[n] \in Cells /\ s[n].msg \in MessageNames
  BY DEF MessageNames
<1>2. H \in [(1..N) \X V -> V]
  <2> SUFFICES ASSUME NEW n \in 1..N, NEW q \in V PROVE CountStep(s, n, q) \in V
    OBVIOUS
  <2> QED
    BY <1>1 DEF CountStep
<1>3. PICK g \in [0..N -> V] : g[0] = <<>> /\ \A n \in 1..N : g[n] = H[<<n, g[n - 1]>>]
  <2>1. N \in Nat /\ <<>> \in V
    BY <1>1
  <2> HIDE DEF N, V, H
  <2>2. IsStep(N, V, <<>>, H)
    BY <2>1, <1>2 DEF IsStep
  <2>3. \E f : IsChain(N, V, <<>>, H, f)
    BY <2>2, RecursiveFunction
  <2> QED
    BY <2>3 DEF IsChain
<1>4. CountsTo(s, g)
  <2>1. \A n \in 1..N : g[n - 1] \in V
    BY <1>1, <1>3
  <2> QED
    BY <1>1, <1>3, <2>1 DEF CountsTo
<1>5. Is(g)
  <2> DEFINE r == [n \in 0..N |-> IF n = 0 THEN <<>>
                                  ELSE IF Whole(s[n])
                                       THEN Append(g[n - 1], s[n].msg) ELSE g[n - 1]]
  <2>1. ASSUME NEW n \in 0..N PROVE r[n] = g[n]
    <3>1. CASE n = 0
      BY <1>3, <3>1
    <3>2. CASE n # 0
      <4>1. n \in 1..N
        BY <1>1, <3>2
      <4>2. g[n] = CountStep(s, n, g[n - 1])
        BY <1>4, <4>1 DEF CountsTo
      <4> QED
        BY <3>2, <4>2 DEF CountStep, Whole
    <3> QED
      BY <3>1, <3>2
  <2> QED
    BY <1>3, <2>1
<1>6. Is(of)
  <2> HIDE DEF Is
  <2> QED
    BY <1>5
<1>7. of = g
  <2> DEFINE P == {n \in 0..N : of[n] = g[n]}
  <2>0. \A h : Is(h) =>
           /\ h = [n \in 0..N |-> h[n]] /\ h[0] = <<>>
           /\ \A n \in 1..N : h[n] = CountStep(s, n, h[n - 1])
    <3> SUFFICES ASSUME NEW h, Is(h)
                 PROVE  /\ h = [n \in 0..N |-> h[n]] /\ h[0] = <<>>
                        /\ \A n \in 1..N : h[n] = CountStep(s, n, h[n - 1])
      OBVIOUS
    <3>1. h = [n \in 0..N |-> h[n]]
      OBVIOUS
    <3>2. h[0] = <<>>
      BY <1>1
    <3>3. ASSUME NEW n \in 1..N PROVE h[n] = CountStep(s, n, h[n - 1])
      <4>1. n \in 0..N /\ n # 0
        BY <1>1
      <4> QED
        BY <4>1 DEF CountStep, Whole
    <3> QED
      BY <3>1, <3>2, <3>3
  <2>1. /\ of = [n \in 0..N |-> of[n]] /\ of[0] = <<>>
        /\ \A n \in 1..N : of[n] = CountStep(s, n, of[n - 1])
    <3> HIDE DEF Is
    <3> QED
      BY <1>6, <2>0
  <2> HIDE DEF of, Is
  <2>3. \A n \in 1..N : n - 1 \in P => n \in P
    <3> SUFFICES ASSUME NEW n \in 1..N, of[n - 1] = g[n - 1] PROVE of[n] = g[n] /\ n \in 0..N
      OBVIOUS
    <3>1. n \in 0..N
      BY <1>1
    <3>2. g[n] = CountStep(s, n, g[n - 1])
      BY <1>4 DEF CountsTo
    <3> QED
      BY <2>1, <3>1, <3>2
  <2>4. 0 \in P
    BY <1>1, <2>1, <1>3
  <2>5. \A n \in 0..N : n \in P
    <3>1. N \in Nat
      BY <1>1
    <3> HIDE DEF P, N
    <3> QED
      BY <3>1, <2>3, <2>4, UpTo
  <2>6. g = [n \in 0..N |-> g[n]]
    BY <1>3
  <2> QED
    BY <2>1, <2>5, <2>6
<1>8. Packets(s) = of[N]
  BY DEF Packets
<1> QED
  BY <1>4, <1>7, <1>8

\* No cells, no packets; and packets are messages.
LEMMA PacketsOfNone == Packets(<<>>) = <<>>
<1>1. <<>> \in Seq(Cells) /\ Len(<<>>) = 0
  OBVIOUS
<1> QED
  BY <1>1, PacketsCount DEF CountsTo

LEMMA PacketsTyped == ASSUME NEW s \in Seq(Cells)
                      PROVE Packets(s) \in Seq(MessageNames)
<1>1. PICK f : CountsTo(s, f) /\ Packets(s) = f[Len(s)]
  BY PacketsCount
<1>2. Len(s) \in 0..Len(s)
  OBVIOUS
<1> QED
  BY <1>1, <1>2 DEF CountsTo

\* A cell more at the end.
LEMMA PacketsAppend ==
  ASSUME NEW s \in Seq(Cells), NEW c \in Cells
  PROVE  Packets(Append(s, c)) =
           IF Whole(c) THEN Append(Packets(s), c.msg) ELSE Packets(s)
<1> DEFINE t == Append(s, c)
           N == Len(s)
<1>1. t \in Seq(Cells) /\ Len(t) = N + 1 /\ N \in Nat /\ t[N + 1] = c
      /\ \A i \in 1..N : t[i] = s[i]
  OBVIOUS
<1> HIDE DEF t
<1>2. PICK f : CountsTo(s, f) /\ Packets(s) = f[N]
  BY PacketsCount
<1>3. PICK g : CountsTo(t, g) /\ Packets(t) = g[N + 1]
  BY <1>1, PacketsCount
<1>4. \A n \in 1..N : g[n] = CountStep(s, n, g[n - 1])
  BY <1>1, <1>3 DEF CountsTo, CountStep
<1>5. g[N + 1] = IF Whole(c) THEN Append(g[N], c.msg) ELSE g[N]
  BY <1>1, <1>3 DEF CountsTo, CountStep
<1>6. g[N] = f[N]
  <2> DEFINE P == {n \in 0..N : g[n] = f[n]}
  <2>1. 0 \in P
    BY <1>1, <1>2, <1>3 DEF CountsTo
  <2>2. \A n \in 1..N : n - 1 \in P => n \in P
    BY <1>1, <1>2, <1>4 DEF CountsTo
  <2>3. \A n \in 0..N : n \in P
    <3> HIDE DEF P, N
    <3> QED
      BY <1>1, <2>1, <2>2, UpTo
  <2> QED
    BY <1>1, <2>3
<1> QED
  BY <1>2, <1>3, <1>5, <1>6 DEF t

\* A cell less at the beginning.
LEMMA PacketsTail ==
  ASSUME NEW s \in Seq(Cells), s # <<>>
  PROVE  Packets(s) =
           IF Whole(s[1]) THEN <<s[1].msg>> \o Packets(Tail(s))
                                ELSE Packets(Tail(s))
<1> DEFINE t == Tail(s)
           N == Len(t)
           pre == IF Whole(s[1]) THEN <<s[1].msg>> ELSE <<>>
<1>1. /\ t \in Seq(Cells) /\ Len(s) = N + 1 /\ N \in Nat /\ \A i \in 1..N : t[i] = s[i + 1]
      /\ s[1] \in Cells
  OBVIOUS
<1>2. pre \in Seq(MessageNames)
  <2>1. s[1].msg \in MessageNames
    BY <1>1 DEF MessageNames
  <2>2. <<>> \in Seq(MessageNames)
    OBVIOUS
  <2> QED
    BY <2>1, <2>2, Single
<1> HIDE DEF t
<1>3. PICK f : CountsTo(s, f) /\ Packets(s) = f[N + 1]
  BY <1>1, PacketsCount
<1>4. PICK g : CountsTo(t, g) /\ Packets(t) = g[N]
  BY <1>1, PacketsCount
<1>5. f[1] = pre
  <2>1. f[1] = CountStep(s, 1, <<>>)
    BY <1>1, <1>3 DEF CountsTo
  <2>2. \A m : Append(<<>>, m) = <<m>>
    OBVIOUS
  <2> QED
    BY <2>1, <2>2 DEF CountStep
<1>6. f[N + 1] = pre \o g[N]
  <2> DEFINE P == {n \in 0..N : f[n + 1] = pre \o g[n]}
  <2>1. 0 \in P
    <3>1. g[0] = <<>> /\ f[0 + 1] = pre
      BY <1>4, <1>5 DEF CountsTo
    <3>2. pre \o <<>> = pre /\ 0 \in 0..N
      BY <1>1, <1>2
    <3> HIDE DEF pre
    <3> QED
      BY <3>1, <3>2
  <2>2. ASSUME NEW n \in 1..N, n - 1 \in P PROVE n \in P
    <3>1. f[n + 1] = CountStep(s, n + 1, pre \o g[n - 1]) /\ g[n] = CountStep(t, n, g[n - 1])
      <4>1. n + 1 \in 1..(N + 1) /\ (n + 1) - 1 = n /\ n - 1 \in 0..N /\ (n - 1) + 1 = n
        BY <1>1
      <4>2. f[n] = pre \o g[n - 1]
        BY <2>2, <4>1
      <4> QED
        BY <1>1, <1>3, <1>4, <4>1, <4>2 DEF CountsTo
    <3>2. g[n - 1] \in Seq(MessageNames)
      BY <1>1, <1>4 DEF CountsTo
    <3>3. t[n] = s[n + 1] /\ t[n].msg \in MessageNames
      BY <1>1 DEF MessageNames
    <3>4. Append(pre \o g[n - 1], t[n].msg) = pre \o Append(g[n - 1], t[n].msg)
      <4> HIDE DEF pre
      <4>1. OneMore(Joined(pre, g[n - 1]), t[n].msg) = Joined(pre, OneMore(g[n - 1], t[n].msg))
        BY <1>2, <3>2, <3>3, AddCat
      <4> QED
        BY <4>1 DEF OneMore, Joined
    <3>5. f[n + 1] = pre \o g[n]
      <4> HIDE DEF pre
      <4> QED
        BY <3>1, <3>3, <3>4 DEF CountStep
    <3>6. n \in 0..N
      BY <1>1
    <3> QED
      BY <3>5, <3>6
  <2>3. \A n \in 0..N : n \in P
    <3> HIDE DEF P, N
    <3> QED
      BY <1>1, <2>1, <2>2, UpTo
  <2>4. N \in 0..N
    BY <1>1
  <2> QED
    BY <2>4, <2>3
<1>7. g[N] \in Seq(MessageNames)
  BY <1>1, <1>4 DEF CountsTo
<1>8. <<>> \o g[N] = g[N]
  BY <1>7
<1> QED
  BY <1>3, <1>4, <1>6, <1>8 DEF t

\* The cells in hand and those under way, one stream to the parser.
CellStream == buf \o inFlight

\* The header of a packet of two cells is followed by its payload.
Paired(s) ==
  \A i \in 1..Len(s) : Whole(s[i]) =>
    s[i].len = 1 \/ (s[i].len = 2 /\ i + 1 \in 1..Len(s) /\ ~Whole(s[i + 1]))

\* Nothing is in hand outside a connection.
NoCall == at \notin InCall \cup {"cleanup"} => buf = <<>> /\ handled = 0

\* What the mapped queue rests on.
FifoInv ==
  /\ inFlight \in Seq(Cells) /\ buf \in Seq(Cells)
  /\ Paired(CellStream)
  /\ NoCall

\* The sequences of the steps.
LEMMA StreamAppend == ASSUME inFlight \in Seq(Cells), buf \in Seq(Cells),
                             NEW c \in Cells
                      PROVE  Append(CellStream, c) = buf \o Append(inFlight, c)
BY DEF CellStream

\* The parts of a sequence, as names.
FirstPart(s, n) == SubSeq(s, 1, n)
LastPart(s, n)  == SubSeq(s, n + 1, Len(s))

LEMMA EqualSeq == ASSUME NEW S, NEW p \in Seq(S), NEW q \in Seq(S), Len(p) = Len(q),
                         \A i \in 1..Len(p) : p[i] = q[i]
                  PROVE  p = q
OBVIOUS

LEMMA CatIsSeq == ASSUME NEW S, NEW p \in Seq(S), NEW q \in Seq(S)
                     PROVE  /\ Joined(p, q) \in Seq(S) /\ Len(Joined(p, q)) = Len(p) + Len(q)
BY DEF Joined
LEMMA CatIndex == ASSUME NEW S, NEW p \in Seq(S), NEW q \in Seq(S)
                  PROVE  \A i \in 1..Len(p) : Joined(p, q)[i] = p[i]
BY DEF Joined
LEMMA CatIndex2 == ASSUME NEW S, NEW p \in Seq(S), NEW q \in Seq(S)
                   PROVE  \A i \in (Len(p) + 1)..(Len(p) + Len(q)) : Joined(p, q)[i] = q[i - Len(p)]
BY DEF Joined
LEMMA CatAssociative == ASSUME NEW S, NEW p \in Seq(S), NEW q \in Seq(S), NEW r \in Seq(S)
                        PROVE Joined(Joined(p, q), r) = Joined(p, Joined(q, r))
BY DEF Joined

LEMMA Parts == ASSUME NEW S, NEW s \in Seq(S), NEW n \in 1..Len(s)
                  PROVE  /\ FirstPart(s, n) \in Seq(S) /\ LastPart(s, n) \in Seq(S)
                         /\ Len(FirstPart(s, n)) = n /\ Len(LastPart(s, n)) = Len(s) - n
                         /\ \A i \in 1..n : FirstPart(s, n)[i] = s[i]
                         /\ \A i \in 1..(Len(s) - n) : LastPart(s, n)[i] = s[n + i]
BY DEF FirstPart, LastPart

LEMMA SplitSeq == ASSUME NEW S, NEW s \in Seq(S), NEW n \in 1..Len(s)
                  PROVE  Joined(FirstPart(s, n), LastPart(s, n)) = s
<1> DEFINE p == FirstPart(s, n)
           r == LastPart(s, n)
           pr == Joined(p, r)
<1>1. /\ p \in Seq(S) /\ r \in Seq(S) /\ Len(p) = n /\ Len(r) = Len(s) - n /\ Len(s) \in Nat
      /\ \A i \in 1..n : p[i] = s[i]
      /\ \A i \in 1..(Len(s) - n) : r[i] = s[n + i]
  BY Parts
<1> HIDE DEF p, r
<1>2. /\ pr \in Seq(S) /\ Len(pr) = Len(p) + Len(r)
      /\ \A i \in 1..Len(p) : pr[i] = p[i]
      /\ \A i \in (Len(p) + 1)..(Len(p) + Len(r)) : pr[i] = r[i - Len(p)]
  <2>1. pr \in Seq(S) /\ Len(pr) = Len(p) + Len(r)
    BY <1>1, CatIsSeq
  <2>2. \A i \in 1..Len(p) : pr[i] = p[i]
    BY <1>1, CatIndex
  <2>3. \A i \in (Len(p) + 1)..(Len(p) + Len(r)) : pr[i] = r[i - Len(p)]
    BY <1>1, CatIndex2
  <2> QED
    BY <2>1, <2>2, <2>3
<1> HIDE DEF pr
<1>3. ASSUME NEW i \in 1..Len(s) PROVE pr[i] = s[i]
  <2>1. CASE i \in 1..n
    BY <1>1, <1>2, <2>1
  <2>2. CASE i \in (n + 1)..Len(s)
    <3>1. i - n \in 1..(Len(s) - n) /\ n + (i - n) = i
      BY <1>1, <2>2
    <3>2. pr[i] = r[i - n] /\ r[i - n] = s[n + (i - n)]
      BY <1>1, <1>2, <2>2, <3>1
    <3> QED
      BY <3>1, <3>2
  <2> QED
    BY <1>1, <2>1, <2>2
<1>4. pr = s
  <2>1. Len(pr) = Len(s)
    BY <1>1, <1>2
  <2> QED
    BY <1>2, <1>3, <2>1, EqualSeq
<1> QED
  BY <1>4 DEF p, r, pr

LEMMA StreamRead == ASSUME inFlight \in Seq(Cells), buf \in Seq(Cells),
                           NEW n \in 1..Len(inFlight),
                           buf' = buf \o SubSeq(inFlight, 1, n),
                           inFlight' = SubSeq(inFlight, n + 1, Len(inFlight))
                    PROVE  CellStream' = CellStream /\ inFlight' \in Seq(Cells)
                           /\ buf' \in Seq(Cells)
<1>1. buf' = Joined(buf, FirstPart(inFlight, n)) /\ inFlight' = LastPart(inFlight, n)
  BY DEF Joined, FirstPart, LastPart
<1>2. FirstPart(inFlight, n) \in Seq(Cells) /\ LastPart(inFlight, n) \in Seq(Cells)
  BY Parts
<1>3. Joined(buf', inFlight') = Joined(buf, Joined(FirstPart(inFlight, n), LastPart(inFlight, n)))
  <2>1. Joined(Joined(buf, FirstPart(inFlight, n)), LastPart(inFlight, n))
          = Joined(buf, Joined(FirstPart(inFlight, n), LastPart(inFlight, n)))
    BY <1>2, CatAssociative
  <2> QED
    BY <1>1, <2>1
<1>4. Joined(buf', inFlight') = Joined(buf, inFlight)
  BY <1>3, SplitSeq
<1>5. buf' \in Seq(Cells)
  BY <1>1, <1>2, CatIsSeq
<1> QED
  BY <1>1, <1>2, <1>4, <1>5 DEF CellStream, Joined

LEMMA StreamFirst == ASSUME inFlight \in Seq(Cells), buf \in Seq(Cells), buf # <<>>
                     PROVE  /\ CellStream \in Seq(Cells) /\ CellStream # <<>>
                               /\ CellStream[1] = buf[1]
                            /\ Tail(CellStream) = Tail(buf) \o inFlight
                               /\ Tail(buf) \in Seq(Cells)
BY DEF CellStream

LEMMA TailIsSubSeq == ASSUME NEW s \in Seq(Cells), s # <<>>
                      PROVE  SubSeq(s, 2, Len(s)) = Tail(s)
OBVIOUS

LEMMA TailIndex == ASSUME NEW S, NEW s \in Seq(S), s # <<>>
                   PROVE  /\ Tail(s) \in Seq(S) /\ Len(s) \in Nat \ {0} /\ Len(Tail(s)) = Len(s) - 1
                          /\ \A i \in 1..(Len(s) - 1) : Tail(s)[i] = s[i + 1]
OBVIOUS

LEMMA NotEmpty == ASSUME NEW S, NEW s \in Seq(S), Len(s) # 0 PROVE s # <<>>
OBVIOUS

LEMMA TailTail == ASSUME NEW s \in Seq(Cells), Len(s) >= 2
                  PROVE  /\ SubSeq(s, 3, Len(s)) = Tail(Tail(s)) /\ Tail(s) # <<>>
                            /\ Tail(s) \in Seq(Cells)
                         /\ s # <<>>
<1> DEFINE t == Tail(s)
           u == Tail(t)
           r == SubSeq(s, 3, Len(s))
<1>1. s # <<>> /\ Len(s) \in Nat
  OBVIOUS
<1>2. t \in Seq(Cells) /\ Len(t) = Len(s) - 1 /\ \A i \in 1..(Len(s) - 1) : t[i] = s[i + 1]
  BY <1>1, TailIndex
<1>3. r \in Seq(Cells) /\ Len(r) = Len(s) - 2 /\ \A i \in 1..(Len(s) - 2) : r[i] = s[i + 2]
  <2>1. r = LastPart(s, 2) /\ 2 \in 1..Len(s)
    BY <1>1 DEF LastPart
  <2>2. /\ LastPart(s, 2) \in Seq(Cells) /\ Len(LastPart(s, 2)) = Len(s) - 2
        /\ \A i \in 1..(Len(s) - 2) : LastPart(s, 2)[i] = s[2 + i]
    BY <2>1, Parts
  <2> HIDE DEF r
  <2>3. \A i \in 1..(Len(s) - 2) : 2 + i = i + 2
    BY <1>1
  <2> QED
    BY <2>1, <2>2, <2>3
<1> HIDE DEF t
<1>4. t # <<>>
  <2>1. Len(t) # 0
    BY <1>1, <1>2
  <2> QED
    BY <1>2, <2>1, NotEmpty
<1>5. u \in Seq(Cells) /\ Len(u) = Len(t) - 1 /\ \A i \in 1..(Len(t) - 1) : u[i] = t[i + 1]
  BY <1>2, <1>4, TailIndex
<1> HIDE DEF u, r
<1>6. r = u
  <2>1. Len(r) = Len(u)
    BY <1>1, <1>2, <1>3, <1>5
  <2>2. ASSUME NEW i \in 1..Len(r) PROVE r[i] = u[i]
    <3>1. i \in 1..(Len(s) - 2) /\ i \in 1..(Len(t) - 1) /\ i + 1 \in 1..(Len(s) - 1)
          /\ (i + 1) + 1 = i + 2
      BY <1>1, <1>2, <1>3
    <3> QED
      BY <1>2, <1>3, <1>5, <3>1
  <2> QED
    BY <1>3, <1>5, <2>1, <2>2, EqualSeq
<1> QED
  BY <1>1, <1>2, <1>4, <1>6 DEF r, u, t

\* Pairs are kept by what is taken from the front and what is added behind.
LEMMA PairedTail == ASSUME NEW s \in Seq(Cells), s # <<>>, Paired(s) PROVE Paired(Tail(s))
<1> DEFINE t == Tail(s)
<1>1. t \in Seq(Cells) /\ Len(t) = Len(s) - 1 /\ \A i \in 1..Len(t) : t[i] = s[i + 1]
  OBVIOUS
<1> HIDE DEF t
<1>2. Len(s) \in Nat /\ Len(t) \in Nat
  BY <1>1
<1>3. ASSUME NEW i \in 1..Len(t), Whole(t[i])
      PROVE  t[i].len = 1 \/ (t[i].len = 2 /\ i + 1 \in 1..Len(t) /\ ~Whole(t[i + 1]))
  <2>1. i + 1 \in 1..Len(s) /\ t[i] = s[i + 1]
    BY <1>1, <1>2
  <2>2. \/ s[i + 1].len = 1
        \/ s[i + 1].len = 2 /\ (i + 1) + 1 \in 1..Len(s) /\ ~Whole(s[(i + 1) + 1])
    BY <1>3, <2>1 DEF Paired
  <2>3. (i + 1) + 1 \in 1..Len(s) => i + 1 \in 1..Len(t)
    BY <1>1, <1>2
  <2> QED
    BY <1>1, <2>1, <2>2, <2>3
<1>4. Paired(t)
  BY <1>3 DEF Paired
<1> QED
  BY <1>4 DEF t

LEMMA PairedAppend ==
  ASSUME NEW s \in Seq(Cells), Paired(s), NEW c \in Cells, Whole(c) => c.len = 1
  PROVE  Paired(Append(s, c))
<1> DEFINE t == Append(s, c)
<1>1. /\ t \in Seq(Cells) /\ Len(t) = Len(s) + 1 /\ Len(s) \in Nat /\ t[Len(s) + 1] = c
      /\ \A i \in 1..Len(s) : t[i] = s[i]
  OBVIOUS
<1> HIDE DEF t
<1>2. ASSUME NEW i \in 1..Len(t), Whole(t[i])
      PROVE  t[i].len = 1 \/ (t[i].len = 2 /\ i + 1 \in 1..Len(t) /\ ~Whole(t[i + 1]))
  <2>1. CASE i = Len(s) + 1
    BY <1>1, <1>2, <2>1
  <2>2. CASE i \in 1..Len(s)
    <3>1. s[i].len = 1 \/ (s[i].len = 2 /\ i + 1 \in 1..Len(s) /\ ~Whole(s[i + 1]))
      BY <1>1, <1>2, <2>2 DEF Paired
    <3>2. i + 1 \in 1..Len(s) => i + 1 \in 1..Len(t) /\ t[i + 1] = s[i + 1]
      BY <1>1
    <3> QED
      BY <1>1, <2>2, <3>1, <3>2
  <2> QED
    BY <1>1, <2>1, <2>2
<1>3. Paired(t)
  BY <1>2 DEF Paired
<1> QED
  BY <1>3 DEF t

LEMMA PairedAppend2 ==
  ASSUME NEW s \in Seq(Cells), Paired(s), NEW c \in Cells, NEW d \in Cells,
         c.len = 2, ~Whole(d)
  PROVE  Paired(Append(Append(s, c), d))
<1> DEFINE t == Append(Append(s, c), d)
<1>1. /\ t \in Seq(Cells) /\ Len(t) = Len(s) + 2 /\ Len(s) \in Nat /\ t[Len(s) + 1] = c
         /\ t[Len(s) + 2] = d
      /\ \A i \in 1..Len(s) : t[i] = s[i]
  OBVIOUS
<1> HIDE DEF t
<1>2. ASSUME NEW i \in 1..Len(t), Whole(t[i])
      PROVE  t[i].len = 1 \/ (t[i].len = 2 /\ i + 1 \in 1..Len(t) /\ ~Whole(t[i + 1]))
  <2>1. CASE i = Len(s) + 1
    <3>1. i + 1 = Len(s) + 2 /\ i + 1 \in 1..Len(t) /\ t[i] = c
      BY <1>1, <2>1
    <3> QED
      BY <1>1, <3>1
  <2>2. CASE i \in 1..Len(s)
    <3>1. s[i].len = 1 \/ (s[i].len = 2 /\ i + 1 \in 1..Len(s) /\ ~Whole(s[i + 1]))
      BY <1>1, <1>2, <2>2 DEF Paired
    <3>2. i + 1 \in 1..Len(s) => i + 1 \in 1..Len(t) /\ t[i + 1] = s[i + 1]
      BY <1>1
    <3> QED
      BY <1>1, <2>2, <3>1, <3>2
  <2>3. i # Len(s) + 2
    BY <1>1, <1>2
  <2> QED
    BY <1>1, <2>1, <2>2, <2>3
<1>3. Paired(t)
  BY <1>2 DEF Paired
<1> QED
  BY <1>3 DEF t


\* What the iPhone can put on the wire.
LEMMA SentCells ==
  /\ PacketBody \in Cells /\ ~Whole(PacketBody)
  /\ \A len \in NoiseLengths :
       LET c == Header("none", len = 0, len) IN c \in Cells /\ ~Whole(c)
  /\ \A m \in Messages : Packet(m)[1] \in Cells
<1>1. PacketBody \in Cells /\ ~Whole(PacketBody)
  BY DEF Cells, PacketBody, Whole
<1>2. ASSUME NEW len \in NoiseLengths
      PROVE  Header("none", len = 0, len) \in Cells
             /\ ~Whole(Header("none", len = 0, len))
  <2>1. Noise(len)[1] = Header("none", len = 0, len)
    BY DEF Noise
  <2>2. Header("none", len = 0, len).ok <=> len = 0
    BY DEF Header
  <2>3. Header("none", len = 0, len).len = len
    BY DEF Header
  <2>4. ~Whole(Header("none", len = 0, len))
    BY <2>2, <2>3 DEF Whole
  <2> QED
    BY <2>1, <2>4 DEF Cells
<1> QED
  BY <1>1, <1>2 DEF Cells

LEMMA PacketCells ==
  ASSUME NEW m \in Messages
  PROVE  \E c \in Cells : /\ Whole(c) /\ c.msg = m
                          /\ \/ c.len = 1 /\ Packet(m) = <<c>>
                             \/ c.len = 2 /\ Packet(m) = <<c, PacketBody>>
<1>1. CASE m \in {"syn", "ack", "rst"}
  <2> DEFINE c == Header(m, TRUE, 1)
  <2>1. Packet(m) = <<c>>
    BY <1>1 DEF Packet
  <2>2. c.len = 1 /\ c.msg = m /\ Whole(c)
    BY DEF Header, Whole
  <2> HIDE DEF c
  <2>3. c \in Cells
    BY <2>1, SentCells
  <2> QED
    BY <2>1, <2>2, <2>3
<1>2. CASE m \notin {"syn", "ack", "rst"}
  <2> DEFINE c == Header(m, TRUE, 2)
  <2>1. Packet(m) = <<c, PacketBody>>
    BY <1>2 DEF Packet
  <2>2. c.len = 2 /\ c.msg = m /\ Whole(c)
    BY DEF Header, Whole
  <2> HIDE DEF c
  <2>3. c \in Cells
    BY <2>1, SentCells
  <2> QED
    BY <2>1, <2>2, <2>3
<1> QED
  BY <1>1, <1>2

\* The steps of the mapped queue.
IsAppend(q, m, r) == r = Append(q, m)
IsTail(q, r)      == q # <<>> /\ r = Tail(q)

LEMMA AddCell == ASSUME NEW s \in Seq(Cells), NEW c \in Cells
                 PROVE  /\ OneMore(s, c) \in Seq(Cells)
                        /\ Whole(c) =>
                             IsAppend(Packets(s), c.msg, Packets(OneMore(s, c)))
                        /\ ~Whole(c) => Packets(OneMore(s, c)) = Packets(s)
<1>1. Append(s, c) \in Seq(Cells)
  OBVIOUS
<1> QED
  BY <1>1, PacketsAppend DEF OneMore, IsAppend

LEMMA TakeCell == ASSUME NEW s \in Seq(Cells), s # <<>>
                  PROVE  /\ Whole(s[1]) => IsTail(Packets(s), Packets(Tail(s)))
                         /\ ~Whole(s[1]) => Packets(Tail(s)) = Packets(s)
<1>1. CASE Whole(s[1])
  <2> DEFINE m == s[1].msg
             r == Packets(Tail(s))
  <2>1. Packets(s) = <<m>> \o r
    BY <1>1, PacketsTail
  <2>2. r \in Seq(MessageNames) /\ m \in MessageNames
    <3>1. s[1] \in Cells /\ Tail(s) \in Seq(Cells)
      OBVIOUS
    <3> QED
      BY <3>1, PacketsTyped DEF MessageNames
  <2> HIDE DEF m, r
  <2>3. <<m>> \o r # <<>> /\ r = Tail(<<m>> \o r)
    BY <2>2
  <2> QED
    BY <1>1, <2>1, <2>3 DEF IsTail, r
<1>2. CASE ~Whole(s[1])
  BY <1>2, PacketsTail
<1> QED
  BY <1>1, <1>2

-----------------------------------------------------------------------------
\* A packet sent is one more at the end.
LEMMA SendOne ==
  ASSUME FifoInv, NEW c \in Cells, Whole(c), c.len = 1,
         inFlight' = inFlight \o <<c>>, buf' = buf
  PROVE  /\ inFlight' \in Seq(Cells) /\ Paired(CellStream)'
         /\ IsAppend(Pending, c.msg, Pending')
<1>1. inFlight \in Seq(Cells) /\ buf \in Seq(Cells) /\ Paired(CellStream)
  BY DEF FifoInv
<1>2. CellStream \in Seq(Cells)
  BY <1>1 DEF CellStream
<1>3. inFlight' = Append(inFlight, c) /\ inFlight' \in Seq(Cells)
  BY <1>1
<1>4. CellStream' = Append(CellStream, c)
  BY <1>1, <1>3, StreamAppend DEF CellStream
<1>5. Paired(Append(CellStream, c))
  BY <1>1, <1>2, PairedAppend
<1>6. IsAppend(Packets(CellStream), c.msg, Packets(OneMore(CellStream, c)))
  BY <1>2, AddCell
<1>7. Pending = Packets(CellStream)
      /\ Pending' = Packets(OneMore(CellStream, c))
  BY <1>4 DEF Pending, CellStream, OneMore
<1>8. Paired(CellStream)'
  BY <1>4, <1>5
<1> QED
  BY <1>3, <1>6, <1>7, <1>8

\* Two cells: a packet with a payload, or noise.
LEMMA SendTwo ==
  ASSUME FifoInv, NEW c \in Cells, NEW d \in Cells, c.len = 2 \/ ~Whole(c),
         ~Whole(d),
         inFlight' = inFlight \o <<c, d>>, buf' = buf
  PROVE  /\ inFlight' \in Seq(Cells) /\ Paired(CellStream)'
         /\ Whole(c) => IsAppend(Pending, c.msg, Pending')
         /\ ~Whole(c) => Pending' = Pending
<1>1. inFlight \in Seq(Cells) /\ buf \in Seq(Cells) /\ Paired(CellStream)
  BY DEF FifoInv
<1>2. CellStream \in Seq(Cells)
  BY <1>1 DEF CellStream
<1> DEFINE w == Append(inFlight, c)
           S1 == OneMore(CellStream, c)
<1>3. w \in Seq(Cells) /\ inFlight' = Append(w, d) /\ inFlight' \in Seq(Cells)
  BY <1>1
<1>4. CellStream' = OneMore(S1, d) /\ S1 \in Seq(Cells)
  <2>1. S1 = buf \o w
    BY <1>1, StreamAppend DEF OneMore
  <2>2. Append(buf \o w, d) = buf \o Append(w, d)
    <3> HIDE DEF w
    <3>1. OneMore(Joined(buf, w), d) = Joined(buf, OneMore(w, d))
      BY <1>1, <1>3, AddCat
    <3> QED
      BY <3>1 DEF OneMore, Joined
  <2>3. S1 \in Seq(Cells)
    BY <1>2, AddCell
  <2> QED
    BY <1>3, <2>1, <2>2, <2>3 DEF CellStream, OneMore
<1>5. Paired(OneMore(S1, d))
  <2>1. CASE Whole(c)
    BY <2>1, <1>1, <1>2, PairedAppend2 DEF OneMore
  <2>2. CASE ~Whole(c)
    <3>1. Paired(S1)
      BY <2>2, <1>1, <1>2, PairedAppend DEF OneMore
    <3> HIDE DEF S1
    <3> QED
      BY <1>4, <3>1, PairedAppend DEF OneMore
  <2> QED
    BY <2>1, <2>2
<1>6. /\ Whole(c) => IsAppend(Packets(CellStream), c.msg, Packets(S1))
      /\ ~Whole(c) => Packets(S1) = Packets(CellStream)
  BY <1>2, AddCell
<1>7. Packets(OneMore(S1, d)) = Packets(S1)
  <2> HIDE DEF S1
  <2> QED
    BY <1>4, AddCell
<1>8. Pending = Packets(CellStream)
      /\ Pending' = Packets(OneMore(S1, d))
  BY <1>4 DEF Pending, CellStream
<1>9. Paired(CellStream)'
  BY <1>4, <1>5
<1> HIDE DEF S1
<1> QED
  BY <1>3, <1>6, <1>7, <1>8, <1>9

\* A cell, or a packet of two, less at the front.
LEMMA TakeOne ==
  ASSUME FifoInv, buf # <<>>, buf' = Tail(buf), inFlight' = inFlight
  PROVE  /\ buf' \in Seq(Cells) /\ Paired(CellStream)'
         /\ Whole(buf[1]) => IsTail(Pending, Pending')
         /\ ~Whole(buf[1]) => Pending' = Pending
<1>1. inFlight \in Seq(Cells) /\ buf \in Seq(Cells) /\ Paired(CellStream)
  BY DEF FifoInv
<1>2. /\ CellStream \in Seq(Cells) /\ CellStream # <<>> /\ CellStream[1] = buf[1]
      /\ Tail(CellStream) = Tail(buf) \o inFlight /\ Tail(buf) \in Seq(Cells)
  BY <1>1, StreamFirst
<1>3. CellStream' = Tail(CellStream)
  BY <1>2 DEF CellStream
<1>4. Paired(Tail(CellStream))
  BY <1>1, <1>2, PairedTail
<1>5. Pending = Packets(CellStream)
      /\ Pending' = Packets(Tail(CellStream))
  BY <1>3 DEF Pending, CellStream
<1>6. /\ Whole(CellStream[1]) =>
           IsTail(Packets(CellStream), Packets(Tail(CellStream)))
      /\ ~Whole(CellStream[1]) => Packets(Tail(CellStream))
           = Packets(CellStream)
  BY <1>2, TakeCell
<1>7. buf' \in Seq(Cells) /\ Paired(CellStream)'
  BY <1>2, <1>3, <1>4
<1> QED
  BY <1>2, <1>5, <1>6, <1>7

\* With the payload behind it.
LEMMA TakeTwo ==
  ASSUME FifoInv, Len(buf) >= 2, Whole(buf[1]), buf[1].len = 2, inFlight' = inFlight,
         buf' = SubSeq(buf, 3, Len(buf))
  PROVE  buf' \in Seq(Cells) /\ Paired(CellStream)'
         /\ IsTail(Pending, Pending')
<1>1. inFlight \in Seq(Cells) /\ buf \in Seq(Cells) /\ Paired(CellStream)
  BY DEF FifoInv
<1> DEFINE b == Tail(buf)
           S1 == Tail(CellStream)
           S2 == Tail(S1)
<1>2. buf # <<>> /\ b # <<>> /\ b \in Seq(Cells) /\ buf' = Tail(b)
  BY <1>1, TailTail
<1>3. /\ CellStream \in Seq(Cells) /\ CellStream # <<>> /\ CellStream[1] = buf[1]
         /\ S1 = b \o inFlight
  BY <1>1, <1>2, StreamFirst
<1> HIDE DEF b
<1>4. S1 \in Seq(Cells) /\ S1 # <<>> /\ S2 = Tail(b) \o inFlight
      /\ Tail(b) \in Seq(Cells)
  <2>1. b \o inFlight \in Seq(Cells) /\ b \o inFlight # <<>> /\ Tail(b) \in Seq(Cells)
    BY <1>1, <1>2
  <2>2. Tail(b \o inFlight) = Tail(b) \o inFlight
    BY <1>1, <1>2
  <2> QED
    BY <1>3, <2>1, <2>2
<1>5. CellStream' = S2
  BY <1>2, <1>4 DEF CellStream
<1>6. ~Whole(S1[1])
  <2>1. 1 \in 1..Len(CellStream)
    BY <1>3
  <2>2. ~Whole(CellStream[1 + 1]) /\ 1 + 1 \in 1..Len(CellStream)
    BY <1>1, <1>3, <2>1 DEF Paired
  <2>3. S1[1] = CellStream[1 + 1]
    BY <1>3, <2>2, TailIndex
  <2> QED
    BY <2>2, <2>3
<1>7. Paired(S1)
  BY <1>1, <1>3, PairedTail
<1>8. IsTail(Packets(CellStream), Packets(S1))
  BY <1>3, TakeCell
<1> HIDE DEF S1
<1>9. Paired(S2) /\ Packets(S2) = Packets(S1)
  <2>1. Paired(S2)
    BY <1>4, <1>7, PairedTail
  <2>2. Packets(S2) = Packets(S1)
    BY <1>4, <1>6, TakeCell
  <2> QED
    BY <2>1, <2>2
<1>10. Pending = Packets(CellStream) /\ Pending' = Packets(S2)
  BY <1>5 DEF Pending, CellStream
<1>11. Paired(CellStream)'
  BY <1>5, <1>9
<1> HIDE DEF S2
<1>12. buf' \in Seq(Cells)
  BY <1>2, <1>4
<1> QED
  BY <1>8, <1>9, <1>10, <1>11, <1>12


\* A step of the queue, or a stutter.
FifoAction == Link!Open \/ Link!Send \/ Link!Take \/ Link!Close
FifoStep == [FifoAction]_(Link!vars)

LEMMA AppendIsSend ==
  ASSUME NEW m, FifoInv, IsAppend(Pending, m, Pending'), iPhone # "none",
         iPhone' = iPhone, handled' = handled,
         Pending \in Seq(MessageNames)
  PROVE  Link!Send
<1>1. Pending' = Append(Pending, m)
  BY DEF IsAppend
<1>2. m \in {Pending'[i] : i \in DOMAIN Pending'}
  <2> DEFINE q == Pending
             r == Append(q, m)
  <2>1. q \in Seq(MessageNames)
    OBVIOUS
  <2> HIDE DEF q
  <2>2. Len(q) + 1 \in DOMAIN r /\ r[Len(q) + 1] = m
    BY <2>1
  <2> QED
    BY <1>1, <2>2 DEF q
<1> QED
  BY <1>1, <1>2 DEF Link!Send

LEMMA TailIsTake ==
  ASSUME IsTail(Pending, Pending'), iPhone' = iPhone, handled' = handled + 1
  PROVE Link!Take
BY DEF IsTail, Link!Take

LEMMA SameIsStutter ==
  ASSUME Pending' = Pending, (iPhone' # "none") = (iPhone # "none"),
         handled' = handled
  PROVE  UNCHANGED Link!vars
BY DEF Link!vars

LEMMA SameStream == ASSUME FifoInv, inFlight' = inFlight, buf' = buf
                    PROVE  /\ inFlight' \in Seq(Cells) /\ buf' \in Seq(Cells)
                              /\ Paired(CellStream)'
                           /\ Pending' = Pending
<1>1. CellStream' = CellStream
  BY DEF CellStream
<1> QED
  BY <1>1 DEF FifoInv, Pending, CellStream

LEMMA PendingTyped == FifoInv => Pending \in Seq(MessageNames)
<1> SUFFICES ASSUME FifoInv PROVE Pending \in Seq(MessageNames)
  OBVIOUS
<1>1. buf \o inFlight \in Seq(Cells)
  BY DEF FifoInv
<1> QED
  BY <1>1, PacketsTyped DEF Pending

-----------------------------------------------------------------------------
LEMMA FifoInit == DaemonInit => FifoInv /\ Link!Init
<1> SUFFICES ASSUME DaemonInit PROVE FifoInv /\ Link!Init
  OBVIOUS
<1>1. inFlight = <<>> /\ buf = <<>> /\ handled = 0 /\ iPhone = "none"
  BY DEF DaemonInit
<1>2. <<>> \in Seq(Cells)
  OBVIOUS
<1>3. CellStream = <<>>
  BY <1>1 DEF CellStream
<1>4. Paired(CellStream)
  BY <1>3 DEF Paired
<1>5. Pending = <<>>
  BY <1>3, PacketsOfNone DEF Pending, CellStream
<1>6. FifoInv
  BY <1>1, <1>2, <1>4 DEF FifoInv, NoCall
<1> QED
  BY <1>1, <1>5, <1>6 DEF Link!Init

\* Steps that leave the stream alone.
LEMMA QuietSteps ==
  ASSUME FifoInv, 
     \/ HangsUp \/ Signal \/ Startup \/ TestRunning
        \/ CallAccept \/ BtAcceptFails \/ Setup \/ TestLoop
     \/ Timeout \/ ReadNothing \/ SpinsForever \/ EndOfBuffer \/ StartCarplay
        \/ NothingToStart \/ Shutdown \/ AirPlayStopped
     \/ UNCHANGED daemonVars
  PROVE  FifoInv' /\ FifoStep
<1>1. inFlight' = inFlight /\ buf' = buf /\ handled' = handled
      /\ (iPhone' # "none") = (iPhone # "none")
  BY DEF HangsUp, Signal, Startup, TestRunning, CallAccept,
     BtAcceptFails, Setup, TestLoop, Timeout,
         ReadNothing, SpinsForever, EndOfBuffer, StartCarplay, NothingToStart,
         Shutdown, AirPlayStopped, daemonVars
<1>2. NoCall'
  <2>1. CASE at \notin InCall \cup {"cleanup"}
    BY <1>1, <2>1 DEF FifoInv, NoCall, InCall
  <2>2. CASE at \in InCall \cup {"cleanup"}
    <3>1. at' \in InCall \cup {"cleanup"}
      BY <2>2 DEF HangsUp, Signal, Startup, TestRunning,
         CallAccept, BtAcceptFails, Setup, TestLoop, Timeout,
         ReadNothing, SpinsForever, EndOfBuffer, StartCarplay, NothingToStart,
         Shutdown, AirPlayStopped, daemonVars, Goto, InCall
    <3> QED
      BY <3>1 DEF NoCall, InCall
  <2> QED
    BY <2>1, <2>2
<1>4. FifoInv'
  BY <1>1, <1>2, SameStream DEF FifoInv
<1> QED
  BY <1>1, <1>4, SameStream, SameIsStutter DEF FifoStep, FifoAction

LEMMA DialOpens == FifoInv /\ Dials => FifoInv' /\ FifoStep
<1> SUFFICES ASSUME FifoInv, Dials PROVE FifoInv' /\ FifoStep
  OBVIOUS
<1>1. /\ inFlight' = inFlight /\ buf' = buf /\ handled' = handled /\ at' = at
      /\ iPhone = "none" /\ iPhone' = "up"
  BY DEF Dials
<1>2. FifoInv'
  BY <1>1, SameStream DEF FifoInv, NoCall
<1>3. Link!Open
  BY <1>1, SameStream DEF Link!Open
<1> QED
  BY <1>2, <1>3 DEF FifoStep, FifoAction

LEMMA SendsSends == ASSUME FifoInv, NEW m \in Messages, Sends(m) PROVE FifoInv' /\ FifoStep
<1>1. /\ inFlight' = inFlight \o Packet(m) /\ buf' = buf /\ handled' = handled
         /\ at' = at /\ at \in InCall
      /\ iPhone = "up" /\ iPhone' = iPhone
  BY DEF Sends
<1>2. PICK c \in Cells : /\ Whole(c) /\ c.msg = m
                         /\ \/ c.len = 1 /\ Packet(m) = <<c>>
                            \/ c.len = 2 /\ Packet(m) = <<c, PacketBody>>
  BY PacketCells
<1>3. inFlight' \in Seq(Cells) /\ Paired(CellStream)'
      /\ IsAppend(Pending, c.msg, Pending')
  <2>1. CASE c.len = 1 /\ Packet(m) = <<c>>
    BY <1>1, <1>2, <2>1, SendOne
  <2>2. CASE c.len = 2 /\ Packet(m) = <<c, PacketBody>>
    <3>1. PacketBody \in Cells /\ ~Whole(PacketBody)
      BY SentCells
    <3> QED
      BY <1>1, <1>2, <2>2, <3>1, SendTwo
  <2> QED
    BY <1>2, <2>1, <2>2
<1>4. FifoInv'
  BY <1>1, <1>3 DEF FifoInv, NoCall
<1>5. Link!Send
  BY <1>1, <1>3, PendingTyped, AppendIsSend
<1> QED
  BY <1>4, <1>5 DEF FifoStep, FifoAction

LEMMA NoiseStutters == ASSUME FifoInv, NEW len \in NoiseLengths,
                              SendsNoise(len) PROVE FifoInv' /\ FifoStep
<1>1. /\ inFlight' = inFlight \o Noise(len) /\ buf' = buf /\ handled' = handled
         /\ at' = at /\ at \in InCall
      /\ iPhone' = iPhone
  BY DEF SendsNoise
<1> DEFINE c == Header("none", len = 0, len)
<1>2. c \in Cells /\ ~Whole(c) /\ PacketBody \in Cells
      /\ ~Whole(PacketBody)
  BY SentCells
<1>3. Noise(len) = <<c, PacketBody>>
  BY DEF Noise
<1> HIDE DEF c
<1>4. inFlight' \in Seq(Cells) /\ Paired(CellStream)' /\ Pending' = Pending
  BY <1>1, <1>2, <1>3, SendTwo
<1>5. FifoInv'
  BY <1>1, <1>4 DEF FifoInv, NoCall
<1> QED
  BY <1>1, <1>4, <1>5, SameIsStutter DEF FifoStep, FifoAction

LEMMA ReadStutters == FifoInv /\ Read => FifoInv' /\ FifoStep
<1> SUFFICES ASSUME FifoInv, Read PROVE FifoInv' /\ FifoStep
  OBVIOUS
<1>1. handled' = handled /\ iPhone' = iPhone /\ at' \in InCall
  BY DEF Read, Goto, InCall
<1>2. PICK n \in 1..Len(inFlight) : buf' = buf \o SubSeq(inFlight, 1, n)
                                    /\ inFlight' = SubSeq(inFlight, n + 1, Len(inFlight))
  BY DEF Read
<1>3. CellStream' = CellStream /\ inFlight' \in Seq(Cells) /\ buf' \in Seq(Cells)
  BY <1>2, StreamRead DEF FifoInv
<1>4. Pending' = Pending /\ Paired(CellStream)'
  BY <1>3 DEF Pending, CellStream, FifoInv
<1>5. FifoInv'
  BY <1>1, <1>3, <1>4 DEF FifoInv, NoCall
<1> QED
  BY <1>1, <1>4, <1>5, SameIsStutter DEF FifoStep, FifoAction

LEMMA SkipStutters == FifoInv /\ SkipCell => FifoInv' /\ FifoStep
<1> SUFFICES ASSUME FifoInv, SkipCell PROVE FifoInv' /\ FifoStep
  OBVIOUS
<1>1. /\ handled' = handled /\ iPhone' = iPhone /\ at' = at /\ at \in InCall
         /\ inFlight' = inFlight
      /\ buf' = Tail(buf) /\ buf # <<>> /\ ~Whole(buf[1])
  BY DEF SkipCell, Complete, Good, Whole, InCall
<1>2. buf' \in Seq(Cells) /\ Paired(CellStream)' /\ Pending' = Pending
  BY <1>1, TakeOne
<1>3. FifoInv'
  BY <1>1, <1>2 DEF FifoInv, NoCall
<1> QED
  BY <1>1, <1>2, <1>3, SameIsStutter DEF FifoStep, FifoAction

\* Only a header without a message can have no length.
LEMMA NamedCells ==
  ASSUME NEW c \in Cells, c.part = "header", c.msg # "none" PROVE c.len > 0
<1>1. CASE c = PacketBody
  BY <1>1 DEF PacketBody
<1>2. CASE \E len \in NoiseLengths : c = Noise(len)[1]
  BY <1>2 DEF Noise, Header
<1>3. CASE \E m \in Messages : c = Packet(m)[1]
  <2>1. PICK m \in Messages : c = Packet(m)[1]
    BY <1>3
  <2>2. c = Header(m, TRUE, 1) \/ c = Header(m, TRUE, 2)
    BY <2>1 DEF Packet
  <2> QED
    BY <2>2 DEF Header
<1> QED
  BY <1>1, <1>2, <1>3 DEF Cells

\* What is handled has a length of its own.
LEMMA HandledWhole ==
  ASSUME FifoInv, NEW m, Handles(m), m # "none"
  PROVE  /\ handled' = handled + 1 /\ iPhone' = iPhone /\ inFlight' = inFlight
         /\ buf' = SubSeq(buf, buf[1].len + 1, Len(buf)) /\ buf # <<>> /\ Whole(buf[1])
         /\ Len(buf) >= buf[1].len
<1>1. /\ buf # <<>> /\ buf[1].part = "header" /\ buf[1].ok /\ buf[1].msg = m
      /\ Len(buf) >= buf[1].len
  BY DEF Handles, Complete, Good
<1>2. buf[1] \in Cells
  BY <1>1 DEF FifoInv
<1>3. buf[1].len > 0
  BY <1>1, <1>2, NamedCells
<1> QED
  BY <1>1, <1>3 DEF Handles, Whole

LEMMA HandlesTakes ==
  ASSUME FifoInv, NEW m, Handles(m), m # "none", at' \in InCall \cup {"cleanup"}
  PROVE FifoInv' /\ FifoStep
<1>1. /\ handled' = handled + 1 /\ iPhone' = iPhone /\ inFlight' = inFlight
      /\ buf' = SubSeq(buf, buf[1].len + 1, Len(buf)) /\ buf # <<>> /\ Whole(buf[1])
      /\ Len(buf) >= buf[1].len
  BY HandledWhole
<1>2. inFlight \in Seq(Cells) /\ buf \in Seq(Cells) /\ Paired(CellStream)
  BY DEF FifoInv
<1>3. buf[1].len = 1 \/ buf[1].len = 2
  <2>1. CellStream[1] = buf[1] /\ CellStream \in Seq(Cells) /\ CellStream # <<>>
    BY <1>1, <1>2, StreamFirst
  <2>2. 1 \in 1..Len(CellStream)
    BY <2>1
  <2> QED
    BY <1>1, <1>2, <2>1, <2>2 DEF Paired
<1>4. buf' \in Seq(Cells) /\ Paired(CellStream)' /\ IsTail(Pending, Pending')
  <2>1. CASE buf[1].len = 1
    <3>1. buf' = SubSeq(buf, 2, Len(buf))
      BY <1>1, <2>1
    <3>2. buf' = Tail(buf)
      BY <1>1, <1>2, <3>1, TailIsSubSeq
    <3> QED
      BY <1>1, <3>2, TakeOne
  <2>2. CASE buf[1].len = 2
    <3>1. buf' = SubSeq(buf, 3, Len(buf)) /\ Len(buf) >= 2
      BY <1>1, <2>2
    <3> QED
      BY <1>1, <2>2, <3>1, TakeTwo
  <2> QED
    BY <1>3, <2>1, <2>2
<1>5. FifoInv'
  BY <1>1, <1>2, <1>4 DEF FifoInv, NoCall
<1> QED
  BY <1>1, <1>4, <1>5, TailIsTake DEF FifoStep, FifoAction

LEMMA MessageTakes ==
  ASSUME FifoInv,
         \/ LinkControl \/ LinkReset \/ Identification
            \/ CertRequest \/ Challenge \/ StartEap
         \/ NotStarted \/ EapStarted \/ Stopped \/ UseOwnNetwork
            \/ OfferNetwork
  PROVE  FifoInv' /\ FifoStep
<1>1. \E m : Handles(m) /\ m # "none"
  BY DEF EapMessages, LinkControl, LinkReset, Identification, CertRequest,
     Challenge, StartEap,
         NotStarted, EapStarted, Stopped, UseOwnNetwork,
         OfferNetwork
<1>2. at = "parse"
  BY <1>1 DEF Handles
<1>3. at' \in InCall \cup {"cleanup"}
  BY <1>2 DEF LinkControl, LinkReset, Identification, CertRequest,
     Challenge, StartEap,
         NotStarted, EapStarted, Stopped, UseOwnNetwork,
         OfferNetwork, Goto, InCall
<1> QED
  BY <1>1, <1>3, HandlesTakes

LEMMA AcceptStutters == FifoInv /\ Accept => FifoInv' /\ FifoStep
<1> SUFFICES ASSUME FifoInv, Accept PROVE FifoInv' /\ FifoStep
  OBVIOUS
<1>1. /\ inFlight' = inFlight /\ buf' = <<>> /\ handled' = 0 /\ iPhone' = iPhone /\ at = "accept"
  BY DEF Accept, NewSession
<1>2. buf = <<>> /\ handled = 0
  BY <1>1 DEF FifoInv, NoCall, InCall
<1>3. inFlight' = inFlight /\ buf' = buf /\ handled' = handled
  BY <1>1, <1>2
<1>4. FifoInv'
  BY <1>1, <1>3, SameStream DEF FifoInv, NoCall
<1> QED
  BY <1>1, <1>3, <1>4, SameStream, SameIsStutter DEF FifoStep, FifoAction

LEMMA StopIsFifoStep == FifoInv /\ CarplayStop => FifoInv' /\ FifoStep
<1> SUFFICES ASSUME FifoInv, CarplayStop PROVE FifoInv' /\ FifoStep
  OBVIOUS
<1>1. inFlight' = <<>> /\ buf' = <<>> /\ handled' = 0 /\ iPhone' = "none"
  BY DEF CarplayStop, BtClose, NewSession
<1>2. <<>> \in Seq(Cells)
  OBVIOUS
<1>3. CellStream' = <<>>
  BY <1>1 DEF CellStream
<1>4. Paired(CellStream)'
  BY <1>3 DEF Paired
<1>5. Pending' = <<>>
  BY <1>3, PacketsOfNone DEF Pending, CellStream
<1>6. FifoInv'
  BY <1>1, <1>2, <1>4 DEF FifoInv, NoCall
<1>7. Link!Close
  BY <1>1, <1>5 DEF Link!Close
<1> QED
  BY <1>6, <1>7 DEF FifoStep, FifoAction

LEMMA FifoNext == FifoInv /\ [DaemonNext]_daemonVars => FifoInv' /\ FifoStep
<1> SUFFICES ASSUME FifoInv, [DaemonNext]_daemonVars PROVE FifoInv' /\ FifoStep
  OBVIOUS
<1>1. CASE IPhone
  <2>1. CASE Dials \/ HangsUp
    BY <2>1, DialOpens, QuietSteps
  <2>2. CASE \E m \in Messages : Sends(m)
    BY <2>2, SendsSends
  <2>3. CASE \E len \in NoiseLengths : SendsNoise(len)
    BY <2>3, NoiseStutters
  <2> QED
    BY <1>1, <2>1, <2>2, <2>3 DEF IPhone
<1>2. CASE Signal \/ BtAcceptFails \/ AirPlayStopped \/ UNCHANGED daemonVars
  BY <1>2, QuietSteps
<1>3. CASE Parser
  BY <1>3, QuietSteps, ReadStutters, SkipStutters, MessageTakes DEF Parser
<1>4. CASE Main /\ ~Parser
  BY <1>4, QuietSteps, AcceptStutters, StopIsFifoStep DEF Main
<1> QED
  BY <1>1, <1>2, <1>3, <1>4 DEF DaemonNext

\* However the reads cut the bytes, and whatever noise lies between, the packets of a
\* connection are handled once each and in the order they were sent, until the
\* connection is over (iap2_link_process of iap2_link.c, which carries an unfinished
\* packet over to the next read): for any messages, any buffer, any number of packets,
\* of wrong headers and of connections.
THEOREM DaemonIsFifo == DaemonSpec => ImplementsFifo
<1>1. FifoInv /\ [DaemonNext]_daemonVars => [FifoAction]_(Link!vars)
  BY FifoNext DEF FifoStep
<1>2. FifoInv /\ [DaemonNext]_daemonVars => FifoInv'
  BY FifoNext
<1> QED
  BY <1>1, <1>2, FifoInit, PTL DEF DaemonSpec, ImplementsFifo, Link!Spec, FifoAction

-----------------------------------------------------------------------------
(* The types of the daemon's variables, and the room of its buffer.         *)

DaemonPlaces ==
  InCall \cup {"startup", "test", "calling", "accept", "retry", "setup", "cleanup", "shutdown",
               "stopping", "exited"}
Facts == {identified, certificate, requested, started, ownNetwork, announced}
StateType == /\ running \in BOOLEAN /\ iPhone \in {"none", "up", "closed"} /\ at \in DaemonPlaces
             /\ Facts \subseteq BOOLEAN /\ cp \in States /\ told \subseteq Replies

LEMMA TellType ==
  ASSUME told \subseteq Replies, NEW r \in Replies, NEW ok, Tell(r, ok) PROVE told' \subseteq Replies
BY DEF Tell

\* Between the connections.
LEMMA LoopTypes ==
  ASSUME StateType,
         \/ IPhone \/ Signal \/ Startup \/ TestRunning \/ CallAccept \/ Accept \/ BtAcceptFails
         \/ Setup \/ TestLoop \/ Shutdown \/ AirPlayStopped \/ UNCHANGED daemonVars
  PROVE  StateType'
<1> USE DEF StateType, Facts, Goto, DaemonPlaces, InCall
<1>1. CASE IPhone
  BY <1>1 DEF IPhone, Dials, HangsUp, Sends, SendsNoise, sessionVars, carplayVars
<1>2. CASE Signal
  BY <1>2 DEF Signal, sessionVars, carplayVars
<1>3. CASE \/ Startup \/ TestRunning \/ CallAccept \/ BtAcceptFails \/ TestLoop
            \/ Shutdown \/ AirPlayStopped
  <2>1. at' \in DaemonPlaces
    BY <1>3 DEF Startup, TestRunning, CallAccept, BtAcceptFails, TestLoop, Shutdown,
       AirPlayStopped
  <2> QED
    BY <1>3, <2>1 DEF Startup, TestRunning, CallAccept, BtAcceptFails, TestLoop, Shutdown,
       AirPlayStopped, sessionVars, carplayVars
<1>4. CASE Accept
  BY <1>4 DEF Accept, NewSession, carplayVars
<1>5. CASE Setup
  <2>1. told' \subseteq Replies
    <3>1. \E ok : Tell("identification", ok)
      BY <1>5 DEF Setup, SendIdentification
    <3> QED
      BY <3>1, TellType DEF Replies
  <2>2. at' \in DaemonPlaces
    BY <1>5 DEF Setup
  <2>4. cp' \in States
    <3>1. cp' = "IDLE" \/ cp' = cp
      BY <1>5 DEF Setup, carplayVars
    <3> QED
      BY <3>1 DEF States
  <2>3. {certificate', ownNetwork', announced'} \subseteq BOOLEAN
    BY <1>5 DEF Setup, CertificateRead, carplayVars
  <2> QED
    BY <1>5, <2>1, <2>2, <2>3, <2>4 DEF Setup
<1>6. CASE UNCHANGED daemonVars
  BY <1>6 DEF daemonVars, sessionVars, carplayVars
<1> QED
  BY <1>1, <1>2, <1>3, <1>4, <1>5, <1>6

\* The reader and the link layer.
LEMMA LinkTypes ==
  ASSUME StateType,
         \/ Timeout \/ Read \/ ReadNothing \/ SkipCell \/ SpinsForever \/ EndOfBuffer
         \/ LinkControl \/ LinkReset \/ NotStarted
  PROVE  StateType'
<1> USE DEF StateType, Facts, Goto, DaemonPlaces, InCall
<1>1. at' \in DaemonPlaces
  BY DEF Timeout, Read, ReadNothing, SkipCell, SpinsForever, EndOfBuffer, LinkControl, LinkReset,
     NotStarted
<1>2. CASE Timeout \/ Read \/ ReadNothing \/ SkipCell \/ SpinsForever \/ EndOfBuffer
  BY <1>1, <1>2 DEF Timeout, Read, ReadNothing, SkipCell, SpinsForever, EndOfBuffer, sessionVars,
     carplayVars
<1>3. CASE LinkControl \/ LinkReset \/ NotStarted
  <2>1. UNCHANGED <<identified, requested, carplayVars, told>> /\ \E m : Handles(m)
    BY <1>3 DEF LinkControl, LinkReset, NotStarted, NoChange
  <2> QED
    BY <1>1, <2>1 DEF Handles, carplayVars
<1> QED
  BY <1>2, <1>3

\* The messages, the start of the session and its end.
LEMMA MessageTypesOf ==
  ASSUME StateType,
         \/ Identification \/ CertRequest \/ Challenge \/ StartEap \/ EapStarted \/ Stopped
         \/ UseOwnNetwork \/ OfferNetwork \/ StartCarplay \/ NothingToStart \/ CarplayStop
  PROVE  StateType'
<1> USE DEF StateType, Facts
<1>1. told' \subseteq Replies
  <2>1. UNCHANGED told \/ \E r \in Replies : \E ok : Tell(r, ok)
    BY DEF Identification, CertRequest, Challenge, StartEap, EapStarted, Stopped, UseOwnNetwork,
       OfferNetwork, StartCarplay, NothingToStart, CarplayStop, SendAuthCert, SendAuthResponse,
       SendCredentials, SendStartEap, SendStopEap, Replies
  <2> QED
    BY <2>1, TellType
<1>2. cp' \in States
  BY DEF Identification, CertRequest, Challenge, StartEap, EapStarted, Stopped, UseOwnNetwork,
     OfferNetwork, StartCarplay, NothingToStart, CarplayStop, carplayVars, States
<1>3. at' \in DaemonPlaces
  BY DEF Identification, CertRequest, Challenge, StartEap, EapStarted, Stopped, UseOwnNetwork,
     OfferNetwork, StartCarplay, NothingToStart, CarplayStop, BtClose, Goto, DaemonPlaces, InCall
<1>4. running' = running /\ iPhone' \in {iPhone, "none"}
  BY DEF Identification, CertRequest, Challenge, StartEap, EapStarted, Stopped, UseOwnNetwork,
     OfferNetwork, StartCarplay, NothingToStart, CarplayStop, BtClose, Handles
<1>5. {identified', certificate', requested', started'} \subseteq BOOLEAN
  BY DEF Identification, CertRequest, Challenge, StartEap, EapStarted, Stopped, UseOwnNetwork,
     OfferNetwork, StartCarplay, NothingToStart, CarplayStop, BtClose, NewSession, Handles,
     sessionVars
<1>6. Written \subseteq BOOLEAN
  BY DEF Written
<1>7. {ownNetwork', announced'} \subseteq BOOLEAN
  BY <1>6 DEF Identification, CertRequest, Challenge, StartEap, EapStarted, Stopped,
     UseOwnNetwork, OfferNetwork, StartCarplay, NothingToStart, CarplayStop, BtClose, carplayVars
<1> QED
  BY <1>1, <1>2, <1>3, <1>4, <1>5, <1>7

\* What is carried over and what is read never exceed the buffer.
RoomInv == Len(buf) <= Capacity

LEMMA Shorter ==
  ASSUME NEW S, NEW s \in Seq(S), NEW n \in Nat PROVE Len(LastPart(s, n)) <= Len(s)
BY DEF LastPart

LEMMA RoomKeeps == ASSUME FifoInv, RoomInv, [DaemonNext]_daemonVars PROVE RoomInv'
<1> USE DEF RoomInv
<1>1. buf \in Seq(Cells) /\ inFlight \in Seq(Cells) /\ Capacity \in Nat
  BY DaemonBoundsAssumption DEF FifoInv
<1>2. CASE UNCHANGED buf
  BY <1>2
<1>3. CASE buf' = <<>>
  BY <1>1, <1>3
<1>4. CASE Read
  <2>1. PICK n \in 1 .. Len(inFlight) : /\ Len(buf) + n <= Capacity
                                        /\ buf' = Joined(buf, FirstPart(inFlight, n))
    BY <1>4 DEF Read, Joined, FirstPart
  <2>2. FirstPart(inFlight, n) \in Seq(Cells) /\ Len(FirstPart(inFlight, n)) = n
    BY <1>1, Parts
  <2>3. Len(buf') = Len(buf) + n
    BY <1>1, <2>1, <2>2, CatIsSeq
  <2> QED
    BY <2>1, <2>3
<1>5. CASE SkipCell
  <2>1. buf # <<>> /\ buf' = Tail(buf)
    BY <1>5 DEF SkipCell, Complete
  <2>2. Len(buf') = Len(buf) - 1
    BY <1>1, <2>1
  <2> QED
    BY <1>1, <2>2
<1>6. ASSUME NEW m, Handles(m), m # "none" PROVE RoomInv'
  <2>1. buf # <<>> /\ Whole(buf[1]) /\ buf' = SubSeq(buf, buf[1].len + 1, Len(buf))
    BY <1>6, HandledWhole
  <2>2. CellStream[1] = buf[1] /\ CellStream \in Seq(Cells) /\ CellStream # <<>>
    BY <1>1, <2>1, StreamFirst DEF FifoInv
  <2>3. buf[1].len = 1 \/ buf[1].len = 2
    <3>1. 1 \in 1 .. Len(CellStream)
      BY <2>2
    <3> QED
      BY <2>1, <2>2, <3>1 DEF Paired, FifoInv
  <2>4. Len(buf') <= Len(buf)
    <3>1. \E n \in Nat : buf' = LastPart(buf, n)
      BY <2>1, <2>3 DEF LastPart
    <3> QED
      BY <1>1, <3>1, Shorter
  <2>5. Len(buf) \in Nat /\ Len(buf') \in Nat
    <3>1. buf' \in Seq(Cells)
      BY FifoNext DEF FifoInv
    <3> QED
      BY <1>1, <3>1
  <2> QED
    BY <1>1, <2>4, <2>5
<1>7. CASE IPhone \/ Signal \/ BtAcceptFails \/ AirPlayStopped \/ UNCHANGED daemonVars
  BY <1>2, <1>7 DEF IPhone, Dials, HangsUp, Sends, SendsNoise, Signal, BtAcceptFails,
     AirPlayStopped, daemonVars
<1>8. CASE Parser
  <2>1. CASE Timeout \/ ReadNothing \/ SpinsForever \/ EndOfBuffer
    BY <1>2, <2>1 DEF Timeout, ReadNothing, SpinsForever, EndOfBuffer
  <2>2. CASE \E m : Handles(m) /\ m # "none"
    BY <1>6, <2>2
  <2> QED
    BY <1>4, <1>5, <1>8, <2>1, <2>2 DEF Parser, EapMessages, LinkControl, LinkReset,
       Identification, CertRequest, Challenge, StartEap, NotStarted, EapStarted, Stopped, UseOwnNetwork,
       OfferNetwork
<1>9. CASE Accept \/ CarplayStop
  BY <1>3, <1>9 DEF Accept, CarplayStop, BtClose, NewSession
<1>10. CASE Main /\ ~Parser /\ ~Accept /\ ~CarplayStop
  BY <1>2, <1>10 DEF Main, Startup, TestRunning, CallAccept, Setup, TestLoop, StartCarplay,
     NothingToStart, Shutdown
<1> QED
  BY <1>7, <1>8, <1>9, <1>10 DEF DaemonNext

\* Every variable of the daemon keeps its type; the bytes carried over from one read to the
\* next and those the next one adds never exceed the receive buffer (iap2_link_process).
THEOREM DaemonTypes == DaemonSpec => []DaemonTypeOK
<1>1. DaemonInit => StateType /\ RoomInv
  <2> SUFFICES ASSUME DaemonInit PROVE StateType /\ RoomInv
    OBVIOUS
  <2>1. StateType
    BY DEF DaemonInit, StateType, Facts, DaemonPlaces, States
  <2>2. buf = <<>> /\ Capacity \in Nat
    BY DaemonBoundsAssumption DEF DaemonInit
  <2>3. RoomInv
    BY <2>2 DEF RoomInv
  <2> QED
    BY <2>1, <2>3
<1>2. FifoInv /\ RoomInv /\ [DaemonNext]_daemonVars => RoomInv'
  BY RoomKeeps
<1>3. StateType /\ [DaemonNext]_daemonVars => StateType'
  BY LoopTypes, LinkTypes, MessageTypesOf DEF DaemonNext, Main, Parser
<1>4. FifoInv /\ [DaemonNext]_daemonVars => FifoInv'
  BY FifoNext
<1>5. FifoInv /\ RoomInv /\ StateType => DaemonTypeOK
  BY DEF FifoInv, RoomInv, StateType, Facts, DaemonPlaces, DaemonTypeOK
<1> QED
  BY <1>1, <1>2, <1>3, <1>4, <1>5, FifoInit, PTL DEF DaemonSpec

-----------------------------------------------------------------------------
(* TLV8 items: what is encoded is found and put together again.             *)

LEMMA MaxIs ==
  ASSUME NEW S \in SUBSET Nat, NEW m \in S, \A x \in S : x <= m PROVE Max(S) = m
<1>1. \E x \in S : \A y \in S : x >= y
  BY SMT
<1>2. Max(S) \in S /\ \A y \in S : Max(S) >= y
  BY <1>1, Zenon DEF Max
<1>3. Max(S) \in Nat /\ m \in Nat
  BY <1>2
<1> QED
  BY <1>2, <1>3
LEMMA MinIs ==
  ASSUME NEW S \in SUBSET Nat, NEW m \in S, \A x \in S : m <= x PROVE Min(S) = m
<1>1. \E x \in S : \A y \in S : x <= y
  BY SMT
<1>2. Min(S) \in S /\ \A y \in S : Min(S) <= y
  BY <1>1, Zenon DEF Min
<1>3. Min(S) \in Nat /\ m \in Nat
  BY <1>2
<1> QED
  BY <1>2, <1>3

LEMMA Extremes ==
  ASSUME NEW a \in Nat, NEW b \in Nat, a <= b
  PROVE  Max({a, b}) = b /\ Max({b, a}) = b /\ Min({a, b}) = a /\ Min({b, a}) = a
<1>1. {a, b} \in SUBSET Nat /\ {a, b} = {b, a} /\ a \in {a, b} /\ b \in {a, b}
  OBVIOUS
<1>2. \A x \in {a, b} : x <= b /\ a <= x
  OBVIOUS
<1>3. Max({a, b}) = b
  BY <1>1, <1>2, MaxIs
<1>4. Min({a, b}) = a
  BY <1>1, <1>2, MinIs
<1> QED
  BY <1>1, <1>3, <1>4

\* What a sequence of one or two parts is put together to.
LEMMA FlattenOne == ASSUME NEW s PROVE FlattenSeq(<<s>>) = s
<1> DEFINE e(g) == [i \in 1..1 |-> IF i = 1 THEN <<s>>[i] ELSE g[i - 1] \o <<s>>[i]]
<1> DEFINE f == CHOOSE g : g = e(g)
<1>1. \E g : g = e(g)
  <2>1. [i \in 1..1 |-> s] = e([i \in 1..1 |-> s])
    OBVIOUS
  <2> QED
    BY <2>1
<1>2. f = e(f)
  BY <1>1
<1>3. f[1] = s
  BY <1>2
<1>4. Len(<<s>>) = 1
  OBVIOUS
<1>5. FlattenSeq(<<s>>) = f[1]
  BY <1>4 DEF FlattenSeq
<1> QED
  BY <1>3, <1>5

LEMMA FlattenTwo == ASSUME NEW s, NEW t PROVE FlattenSeq(<<s, t>>) = s \o t
<1> DEFINE e(g) == [i \in 1..2 |-> IF i = 1 THEN <<s, t>>[i] ELSE g[i - 1] \o <<s, t>>[i]]
<1> DEFINE f == CHOOSE g : g = e(g)
           w == [i \in 1..2 |-> IF i = 1 THEN s ELSE s \o t]
<1>1. \E g : g = e(g)
  <2>1. ASSUME NEW i \in 1..2 PROVE w[i] = e(w)[i]
    <3>1. CASE i = 1
      BY <3>1
    <3>2. CASE i = 2
      BY <3>2
    <3> QED
      BY <3>1, <3>2
  <2>2. w = e(w)
    BY <2>1
  <2> QED
    BY <2>2
<1>2. f = e(f)
  BY <1>1
<1>3. \A g : e(g)[1] = s /\ e(g)[2] = g[1] \o t
  <2> TAKE g
  <2>1. DOMAIN e(g) = 1..2 /\ 1 \in 1..2 /\ 2 \in 1..2 /\ 2 - 1 = 1 /\ 2 # 1
    OBVIOUS
  <2>2. e(g)[1] = s
    BY <2>1
  <2>3. e(g)[2] = g[2 - 1] \o t
    BY <2>1
  <2> QED
    BY <2>1, <2>2, <2>3
<1>6. f[1] = s /\ f[2] = f[1] \o t
  <2> HIDE DEF e, f
  <2> QED
    BY <1>2, <1>3
<1>4. Len(<<s, t>>) = 2
  OBVIOUS
<1>5. FlattenSeq(<<s, t>>) = f[2]
  BY <1>4 DEF FlattenSeq
<1> QED
  BY <1>5, <1>6

LEMMA SubSeqOne == ASSUME NEW s, NEW m \in Nat PROVE SubSeq(s, m, m) = <<s[m]>>
<1>1. DOMAIN SubSeq(s, m, m) = 1 .. 1 /\ SubSeq(s, m, m)[1] = s[m]
  <2>1. m + 1 - m = 1
    OBVIOUS
  <2> QED
    BY <2>1
<1>2. SubSeq(s, m, m) = [i \in 1 .. 1 |-> SubSeq(s, m, m)[i]]
  OBVIOUS
<1> DEFINE t == SubSeq(s, m, m)
<1> HIDE DEF t
<1>3. t = <<t[1]>>
  BY <1>2 DEF t
<1> QED
  BY <1>1, <1>3 DEF t

-----------------------------------------------------------------------------
Item(type, value) == [type |-> type, value |-> value]

LEMMA Quotients ==
  ASSUME NEW F \in Nat \ {0}
  PROVE  /\ \A n \in 1 .. F : (n + F - 1) \div F = 1
         /\ (F + 1 + F - 1) \div F = 2
<1>1. \A n \in 1 .. F : (n + F - 1) \div F = 1
  OBVIOUS
<1>2. (F + 1 + F - 1) \div F = 2
  OBVIOUS
<1> QED
  BY <1>1, <1>2

\* A value that fits is one item.
LEMMA EncodeOne ==
  ASSUME NEW type, NEW n \in 1 .. Fragment, NEW v, v = [i \in 1 .. n |-> v[i]]
  PROVE  tlv8_encode_item(type, v) = <<Item(type, v)>>
<1>1. Fragment \in Nat \ {0} /\ n \in Nat /\ n <= Fragment /\ n >= 1
  BY RoomAssumption
<1>2. Len(v) = n
  BY <1>1
<1>3. Max({1, (n + Fragment - 1) \div Fragment}) = 1
  <2>1. (n + Fragment - 1) \div Fragment = 1
    BY <1>1, Quotients
  <2>2. Max({1, 1}) = 1
    BY Extremes
  <2> QED
    BY <2>1, <2>2
<1>4. Min({1 * Fragment, n}) = n
  <2>1. 1 * Fragment = Fragment
    BY <1>1
  <2>2. Min({Fragment, n}) = n
    BY <1>1, Extremes
  <2> QED
    BY <2>1, <2>2
<1>5. SubSeq(v, (1 - 1) * Fragment + 1, n) = v
  <2>1. (1 - 1) * Fragment + 1 = 1
    BY <1>1
  <2>2. SubSeq(v, 1, n) = [i \in 1 .. n |-> v[i]]
    BY <1>1, <1>2
  <2> QED
    BY <2>1, <2>2
<1> DEFINE piece(i) == SubSeq(v, (i - 1) * Fragment + 1, Min({i * Fragment, n}))
<1>6. tlv8_encode_item(type, v) = [i \in 1 .. 1 |-> Item(type, piece(i))]
  BY <1>2, <1>3 DEF tlv8_encode_item, Item
<1>7. piece(1) = v
  BY <1>4, <1>5
<1> HIDE DEF piece
<1>8. [i \in 1 .. 1 |-> Item(type, piece(i))] = <<Item(type, v)>>
  BY <1>7
<1> QED
  BY <1>6, <1>8

\* One unit more than fits is two items, which together are the value.
LEMMA EncodeTwo ==
  ASSUME NEW type, NEW v, v = [i \in 1 .. (Fragment + 1) |-> v[i]]
  PROVE  /\ tlv8_encode_item(type, v) = <<Item(type, SubSeq(v, 1, Fragment)),
                                           Item(type, SubSeq(v, Fragment + 1, Fragment + 1))>>
         /\ SubSeq(v, 1, Fragment) \o SubSeq(v, Fragment + 1, Fragment + 1) = v
<1>1. Fragment \in Nat \ {0}
  BY RoomAssumption
<1>2. Len(v) = Fragment + 1
  BY <1>1
<1>3. Max({1, (Fragment + 1 + Fragment - 1) \div Fragment}) = 2
  <2>1. (Fragment + 1 + Fragment - 1) \div Fragment = 2
    BY <1>1, Quotients
  <2>2. Max({1, 2}) = 2
    <3>1. 1 \in Nat /\ 2 \in Nat /\ 1 <= 2
      OBVIOUS
    <3> QED
      BY <3>1, Extremes
  <2> QED
    BY <2>1, <2>2
<1>4. Min({1 * Fragment, Fragment + 1}) = Fragment /\ Min({2 * Fragment, Fragment + 1}) = Fragment + 1
  <2>1. 1 * Fragment = Fragment /\ 2 * Fragment \in Nat /\ Fragment + 1 \in Nat
        /\ Fragment <= Fragment + 1 /\ Fragment + 1 <= 2 * Fragment
    BY <1>1
  <2>2. Min({Fragment, Fragment + 1}) = Fragment
    BY <1>1, <2>1, Extremes
  <2>3. Min({2 * Fragment, Fragment + 1}) = Fragment + 1
    BY <1>1, <2>1, Extremes
  <2> QED
    BY <2>1, <2>2, <2>3
<1> DEFINE a == SubSeq(v, 1, Fragment)
           b == SubSeq(v, Fragment + 1, Fragment + 1)
           piece(i) == SubSeq(v, (i - 1) * Fragment + 1, Min({i * Fragment, Fragment + 1}))
<1>5. piece(1) = a /\ piece(2) = b
  <2>1. (1 - 1) * Fragment + 1 = 1 /\ (2 - 1) * Fragment + 1 = Fragment + 1
    BY <1>1
  <2> QED
    BY <1>4, <2>1
<1>6. tlv8_encode_item(type, v) = [i \in 1 .. 2 |-> Item(type, piece(i))]
  BY <1>2, <1>3 DEF tlv8_encode_item, Item
<1>7. tlv8_encode_item(type, v) = <<Item(type, a), Item(type, b)>>
  <2> HIDE DEF piece, a, b
  <2> DEFINE pieces == [i \in 1 .. 2 |-> Item(type, piece(i))]
  <2>1. pieces = <<pieces[1], pieces[2]>>
    OBVIOUS
  <2>2. pieces[1] = Item(type, a) /\ pieces[2] = Item(type, b)
    BY <1>5
  <2> QED
    BY <1>6, <2>1, <2>2
<1>8. a \o b = v
  <2> DEFINE w == a \o b
  <2>1. a = [i \in 1 .. Fragment |-> v[i]] /\ Len(a) = Fragment
    BY <1>1, <1>2
  <2>3. b = <<v[Fragment + 1]>>
    BY <1>1, SubSeqOne
  <2> HIDE DEF a, b
  <2>4. w = [i \in 1 .. Fragment + 1 |-> IF i <= Fragment THEN a[i] ELSE b[i - Fragment]]
    BY <1>1, <2>1, <2>3
  <2>5. ASSUME NEW i \in 1 .. Fragment + 1 PROVE w[i] = v[i]
    <3>1. CASE i <= Fragment
      BY <1>1, <2>1, <2>4, <3>1
    <3>2. CASE i = Fragment + 1
      <4>1. i - Fragment = 1 /\ ~(i <= Fragment)
        BY <1>1, <3>2
      <4> QED
        BY <2>3, <2>4, <3>2, <4>1
    <3>3. i <= Fragment \/ i = Fragment + 1
      BY <1>1
    <3> QED
      BY <3>1, <3>2, <3>3
  <2> HIDE DEF w
  <2>6. w = [i \in 1 .. Fragment + 1 |-> v[i]]
    BY <2>4, <2>5
  <2> QED
    BY <2>6 DEF w
<1> QED
  BY <1>7, <1>8

\* A run of one or two items is put together again.
LEMMA Reassembled ==
  ASSUME NEW items, NEW type, NEW lo \in Nat, NEW hi \in {lo, lo + 1},
         IndexOf(items, type) = lo .. hi
  PROVE  /\ tlv8_find(items, type) = items[lo].value
         /\ tlv8_find_reassemble(items, type) =
              IF hi = lo THEN items[lo].value ELSE items[lo].value \o items[hi].value
<1> DEFINE found == lo .. hi
           run == {j \in found : lo .. j \subseteq found}
           part(k) == items[lo + k - 1].value
<1>1. found # {} /\ Min(found) = lo
  BY MinIs
<1>2. run = found
  OBVIOUS
<1>3. Cardinality(run) = IF hi = lo THEN 1 ELSE 2
  <2>1. Cardinality(lo .. hi) = hi - lo + 1
    BY FS_Interval
  <2>2. hi - lo + 1 = IF hi = lo THEN 1 ELSE 2
    OBVIOUS
  <2> HIDE DEF run
  <2> QED
    BY <1>2, <2>1, <2>2
<1>4. tlv8_find_reassemble(items, type) = FlattenSeq([k \in 1 .. Cardinality(run) |-> part(k)])
  BY <1>1 DEF tlv8_find_reassemble
<1>5. tlv8_find(items, type) = items[lo].value
  BY <1>1 DEF tlv8_find
<1>6. part(1) = items[lo].value /\ part(2) = items[lo + 1].value
  <2>1. lo + 1 - 1 = lo /\ lo + 2 - 1 = lo + 1
    OBVIOUS
  <2> QED
    BY <2>1
<1> HIDE DEF part, run
<1>7. CASE hi = lo
  <2>1. [k \in 1 .. 1 |-> part(k)] = <<items[lo].value>>
    BY <1>6
  <2> QED
    BY <1>3, <1>4, <1>5, <1>7, <2>1, FlattenOne
<1>8. CASE hi = lo + 1
  <2>1. [k \in 1 .. 2 |-> part(k)] = <<items[lo].value, items[hi].value>>
    BY <1>6, <1>8
  <2>2. Cardinality(run) = 2 /\ hi # lo
    BY <1>3, <1>8
  <2> QED
    BY <1>4, <1>5, <2>1, <2>2, FlattenTwo
<1> QED
  BY <1>7, <1>8

LEMMA RunOfOne ==
  ASSUME NEW items, NEW type, NEW lo \in Nat, IndexOf(items, type) = lo .. lo
  PROVE  tlv8_find(items, type) = items[lo].value /\ tlv8_find_reassemble(items, type) = items[lo].value
<1>1. lo \in {lo, lo + 1}
  OBVIOUS
<1> QED
  BY <1>1, Reassembled

LEMMA RunOfTwo ==
  ASSUME NEW items, NEW type, NEW lo \in Nat, NEW hi, hi = lo + 1, IndexOf(items, type) = lo .. hi
  PROVE  tlv8_find_reassemble(items, type) = items[lo].value \o items[hi].value
<1>1. hi \in {lo, lo + 1} /\ hi # lo
  OBVIOUS
<1> QED
  BY <1>1, Reassembled

\* No item of the type.
LEMMA NotFound ==
  ASSUME NEW items, NEW type, IndexOf(items, type) = {}
  PROVE  tlv8_find(items, type) = <<>> /\ tlv8_find_reassemble(items, type) = <<>>
BY DEF tlv8_find, tlv8_find_reassemble

LEMMA NoneOfType ==
  ASSUME NEW t, NEW a PROVE IndexOf(<<>>, t) = {} /\ (a.type # t => IndexOf(<<a>>, t) = {})
<1>1. IndexOf(<<>>, t) = {}
  BY DEF IndexOf
<1>2. DOMAIN <<a>> = 1 .. 1 /\ <<a>>[1] = a
  OBVIOUS
<1>3. a.type # t => IndexOf(<<a>>, t) = {}
  BY <1>2 DEF IndexOf
<1> QED
  BY <1>1, <1>3

\* The first item is the only one of the type, in the bodies that occur.
LEMMA FoundFirst ==
  ASSUME NEW t, NEW a, NEW b, NEW c, a.type = t, b.type # t, c.type # t
  PROVE  /\ tlv8_find(<<a>>, t) = a.value
         /\ tlv8_find(<<a, b>>, t) = a.value
         /\ tlv8_find(<<a, b, c>>, t) = a.value
<1>1. ASSUME NEW s, IndexOf(s, t) = 1 .. 1, s[1] = a PROVE tlv8_find(s, t) = a.value
  <2>1. tlv8_find(s, t) = s[1].value
    BY <1>1, RunOfOne
  <2> QED
    BY <1>1, <2>1
<1>2. IndexOf(<<a>>, t) = 1 .. 1 /\ <<a>>[1] = a
  BY DEF IndexOf
<1>3. IndexOf(<<a, b>>, t) = 1 .. 1 /\ <<a, b>>[1] = a
  BY DEF IndexOf
<1>4. IndexOf(<<a, b, c>>, t) = 1 .. 1 /\ <<a, b, c>>[1] = a
  BY DEF IndexOf
<1> QED
  BY <1>1, <1>2, <1>3, <1>4

\* The last one or two items are the only ones of the type.
LEMMA FoundSecond ==
  ASSUME NEW t, NEW a, NEW b, a.type # t, b.type = t
  PROVE  tlv8_find(<<a, b>>, t) = b.value /\ tlv8_find_reassemble(<<a, b>>, t) = b.value
<1> DEFINE s == <<a, b>>
<1>1. IndexOf(s, t) = 2 .. 2 /\ s[2] = b
  BY DEF IndexOf
<1> HIDE DEF s
<1>2. tlv8_find(s, t) = s[2].value /\ tlv8_find_reassemble(s, t) = s[2].value
  BY <1>1, RunOfOne
<1> QED
  BY <1>1, <1>2 DEF s

LEMMA FoundLastTwo ==
  ASSUME NEW t, NEW a, NEW v, NEW w, a.type # t
  PROVE  tlv8_find_reassemble(<<a, Item(t, v), Item(t, w)>>, t) = v \o w
<1>1. PICK b, c : b = Item(t, v) /\ c = Item(t, w)
  OBVIOUS
<1>2. b.type = t /\ c.type = t /\ b.value = v /\ c.value = w
  BY <1>1 DEF Item
<1> DEFINE s == <<a, b, c>>
<1>3. IndexOf(s, t) = 2 .. 3 /\ s[2] = b /\ s[3] = c
  BY <1>2 DEF IndexOf
<1> HIDE DEF s
<1>4. 2 \in Nat /\ 3 = 2 + 1
  OBVIOUS
<1>5. tlv8_find_reassemble(s, t) = s[2].value \o s[3].value
  BY <1>3, <1>4, RunOfTwo
<1>6. tlv8_find_reassemble(s, t) = v \o w
  BY <1>2, <1>3, <1>5
<1> QED
  BY <1>1, <1>6 DEF s

LEMMA FoundAfterTwo ==
  ASSUME NEW t, NEW a, NEW b, NEW v, NEW w, a.type # t, b.type # t
  PROVE  tlv8_find_reassemble(<<a, b, Item(t, v), Item(t, w)>>, t) = v \o w
<1>1. PICK c, d : c = Item(t, v) /\ d = Item(t, w)
  OBVIOUS
<1>2. c.type = t /\ d.type = t /\ c.value = v /\ d.value = w
  BY <1>1 DEF Item
<1> DEFINE s == <<a, b, c, d>>
<1>3. DOMAIN s = 1 .. 4 /\ s[1] = a /\ s[2] = b /\ s[3] = c /\ s[4] = d
  OBVIOUS
<1> HIDE DEF s
<1>4. IndexOf(s, t) = 3 .. 4
  BY <1>2, <1>3 DEF IndexOf
<1>5. 3 \in Nat /\ 4 = 3 + 1
  OBVIOUS
<1>6. tlv8_find_reassemble(s, t) = s[3].value \o s[4].value
  BY <1>4, <1>5, RunOfTwo
<1>7. tlv8_find_reassemble(s, t) = v \o w
  BY <1>2, <1>3, <1>6
<1> QED
  BY <1>1, <1>7 DEF s

(* Items one after the other.                                               *)

LEMMA Pair == ASSUME NEW a, NEW b PROVE <<a>> \o <<b>> = <<a, b>>
<1> DEFINE w == <<a>> \o <<b>>
<1>1. \A i \in 1 .. 2 : w[i] = <<a, b>>[i]
  OBVIOUS
<1>2. <<a>> \in Seq({a, b}) /\ <<b>> \in Seq({a, b})
  OBVIOUS
<1>3. Len(w) = 2 /\ w \in Seq({a, b})
  BY <1>2
<1>5. w[1] = a /\ w[2] = b
  BY <1>1
<1> HIDE DEF w
<1>4. w = <<w[1], w[2]>>
  BY <1>3
<1> QED
  BY <1>4, <1>5 DEF w

LEMMA Triple == ASSUME NEW a, NEW b, NEW c PROVE <<a>> \o <<b, c>> = <<a, b, c>>
<1> DEFINE w == <<a>> \o <<b, c>>
<1>1. \A i \in 1 .. 3 : w[i] = <<a, b, c>>[i]
  OBVIOUS
<1>2. <<a>> \in Seq({a, b, c}) /\ <<b, c>> \in Seq({a, b, c})
  OBVIOUS
<1>3. Len(w) = 3 /\ w \in Seq({a, b, c})
  BY <1>2
<1>5. w[1] = a /\ w[2] = b /\ w[3] = c
  BY <1>1
<1> HIDE DEF w
<1>4. w = <<w[1], w[2], w[3]>>
  BY <1>3
<1> QED
  BY <1>4, <1>5 DEF w

LEMMA Quad == ASSUME NEW a, NEW b, NEW c, NEW d PROVE <<a, b>> \o <<c, d>> = <<a, b, c, d>>
<1> DEFINE w == <<a, b>> \o <<c, d>>
<1>1. \A i \in 1 .. 4 : w[i] = <<a, b, c, d>>[i]
  OBVIOUS
<1>2. <<a, b>> \in Seq({a, b, c, d}) /\ <<c, d>> \in Seq({a, b, c, d})
  OBVIOUS
<1>3. Len(w) = 4 /\ w \in Seq({a, b, c, d})
  BY <1>2
<1>5. w[1] = a /\ w[2] = b /\ w[3] = c /\ w[4] = d
  BY <1>1
<1> HIDE DEF w
<1>4. w = <<w[1], w[2], w[3], w[4]>>
  BY <1>3
<1> QED
  BY <1>4, <1>5 DEF w

\* The items of a body: a short value, an X25519 key, an SRP key.
LEMMA EncodedValue ==
  ASSUME NEW type, NEW s
  PROVE  \E a : tlv8_encode_item(type, <<s>>) = <<a>> /\ a.type = type /\ a.value = <<s>>
<1>1. 1 \in 1 .. Fragment
  BY RoomAssumption
<1>2. <<s>> = [i \in 1 .. 1 |-> <<s>>[i]]
  OBVIOUS
<1>3. tlv8_encode_item(type, <<s>>) = <<Item(type, <<s>>)>>
  BY <1>1, <1>2, EncodeOne
<1> QED
  BY <1>3 DEF Item

LEMMA EncodedShort ==
  ASSUME NEW type, NEW x
  PROVE  \E a : tlv8_encode_item(type, Short(x)) = <<a>> /\ a.type = type /\ a.value = Short(x)
<1>1. Fragment \in 1 .. Fragment
  BY RoomAssumption
<1>2. Short(x) = [i \in 1 .. Fragment |-> Short(x)[i]]
  BY DEF Short
<1>3. tlv8_encode_item(type, Short(x)) = <<Item(type, Short(x))>>
  BY <1>1, <1>2, EncodeOne
<1> QED
  BY <1>3 DEF Item

\* The two parts a long value is cut into.
FrontPart(x) == SubSeq(Long(x), 1, Fragment)
BackPart(x) == SubSeq(Long(x), Fragment + 1, Fragment + 1)

LEMMA EncodedLong ==
  ASSUME NEW type, NEW x
  PROVE  /\ tlv8_encode_item(type, Long(x)) = <<Item(type, FrontPart(x)), Item(type, BackPart(x))>>
         /\ FrontPart(x) \o BackPart(x) = Long(x)
<1>1. Long(x) = [i \in 1 .. (Fragment + 1) |-> Long(x)[i]]
  BY DEF Long
<1> QED
  BY <1>1, EncodeTwo DEF FrontPart, BackPart

\* What a pairing request's handler finds in its body.
LEMMA RequestItems ==
  ASSUME NEW r
  PROVE  /\ tlv8_find(Items(r), "state") = <<r.step>>
         /\ r.value = None => /\ tlv8_find(Items(r), "public_key") = <<>>
                              /\ tlv8_find_reassemble(Items(r), "public_key") = <<>>
         /\ r.value # None =>
              IF r.op = "pair-setup"
              THEN tlv8_find_reassemble(Items(r), "public_key") = Long(r.value)
              ELSE tlv8_find(Items(r), "public_key") = Short(r.value)
<1>1. PICK st : /\ tlv8_encode_item("state", <<r.step>>) = <<st>>
                /\ st.type = "state" /\ st.value = <<r.step>>
  BY EncodedValue
<1>2. CASE r.value = None
  <2>1. Items(r) = <<st>>
    BY <1>1, <1>2 DEF Items
  <2>2. tlv8_find(<<st>>, "state") = st.value
    <3>1. \E b : b.type # "state"
      <4>1. [type |-> "salt"].type # "state"
        OBVIOUS
      <4> QED
        BY <4>1
    <3> QED
      BY <1>1, <3>1, FoundFirst
  <2>3. IndexOf(<<st>>, "public_key") = {}
    BY <1>1, NoneOfType
  <2> QED
    BY <1>1, <1>2, <2>1, <2>2, <2>3, NotFound
<1>3. CASE r.value # None /\ r.op = "pair-setup"
  <2> DEFINE a == Item("public_key", FrontPart(r.value))
             b == Item("public_key", BackPart(r.value))
  <2>1. tlv8_encode_item("public_key", Long(r.value)) = <<a, b>>
    BY EncodedLong
  <2>2. a.type # "state" /\ b.type # "state"
    BY DEF Item
  <2>3. tlv8_find_reassemble(<<st, a, b>>, "public_key") = Long(r.value)
    <3>1. tlv8_find_reassemble(<<st, a, b>>, "public_key") = FrontPart(r.value) \o BackPart(r.value)
      BY <1>1, FoundLastTwo
    <3>2. FrontPart(r.value) \o BackPart(r.value) = Long(r.value)
      BY EncodedLong
    <3> QED
      BY <3>1, <3>2
  <2> HIDE DEF a, b
  <2>4. Items(r) = <<st, a, b>>
    BY <1>1, <1>3, <2>1, Triple DEF Items
  <2>5. tlv8_find(<<st, a, b>>, "state") = st.value
    BY <1>1, <2>2, FoundFirst
  <2> QED
    BY <1>1, <1>3, <2>3, <2>4, <2>5
<1>4. CASE r.value # None /\ r.op # "pair-setup"
  <2>1. PICK a : /\ tlv8_encode_item("public_key", Short(r.value)) = <<a>>
                 /\ a.type = "public_key" /\ a.value = Short(r.value)
    BY EncodedShort
  <2>2. Items(r) = <<st, a>>
    BY <1>1, <1>4, <2>1, Pair DEF Items
  <2>3. tlv8_find(<<st, a>>, "state") = st.value
    BY <1>1, <2>1, FoundFirst
  <2>4. tlv8_find(<<st, a>>, "public_key") = a.value
    BY <1>1, <2>1, FoundSecond
  <2> QED
    BY <1>1, <1>4, <2>1, <2>2, <2>3, <2>4
<1> QED
  BY <1>2, <1>3, <1>4

\* What the phone finds in the answers to M1, and in those without a key.
LEMMA AnswerItems ==
  ASSUME NEW x, NEW s
  PROVE  /\ tlv8_find_reassemble(tlv8_encode_item("state", <<s>>)
                                 \o tlv8_encode_item("salt", <<"salt">>)
                                 \o tlv8_encode_item("public_key", Long(x)), "public_key") = Long(x)
         /\ tlv8_find_reassemble(tlv8_encode_item("state", <<s>>)
                                 \o tlv8_encode_item("public_key", Short(x)), "public_key") = Short(x)
         /\ tlv8_find_reassemble(tlv8_encode_item("state", <<s>>), "public_key") = <<>>
         /\ tlv8_find_reassemble(<<>>, "public_key") = <<>>
<1>1. PICK st : tlv8_encode_item("state", <<s>>) = <<st>> /\ st.type = "state"
  BY EncodedValue
<1>2. PICK salt : tlv8_encode_item("salt", <<"salt">>) = <<salt>> /\ salt.type = "salt"
  BY EncodedValue
<1>3. PICK short : /\ tlv8_encode_item("public_key", Short(x)) = <<short>>
                   /\ short.type = "public_key" /\ short.value = Short(x)
  BY EncodedShort
<1> DEFINE a == Item("public_key", FrontPart(x))
           b == Item("public_key", BackPart(x))
<1>4. tlv8_encode_item("public_key", Long(x)) = <<a, b>>
  BY EncodedLong
<1>5. tlv8_find_reassemble(<<st, salt, a, b>>, "public_key") = Long(x)
  <2>1. tlv8_find_reassemble(<<st, salt, a, b>>, "public_key") = FrontPart(x) \o BackPart(x)
    BY <1>1, <1>2, FoundAfterTwo
  <2>2. FrontPart(x) \o BackPart(x) = Long(x)
    BY EncodedLong
  <2> QED
    BY <2>1, <2>2
<1> HIDE DEF a, b
<1>6. tlv8_find_reassemble(<<st, short>>, "public_key") = Short(x)
  BY <1>1, <1>3, FoundSecond
<1>7. IndexOf(<<st>>, "public_key") = {} /\ IndexOf(<<>>, "public_key") = {}
  BY <1>1, NoneOfType
<1>8. <<st>> \o <<salt>> \o <<a, b>> = <<st, salt, a, b>> /\ <<st>> \o <<short>> = <<st, short>>
  <2>1. <<st>> \o <<salt>> = <<st, salt>> /\ <<st>> \o <<short>> = <<st, short>>
    BY Pair
  <2>2. <<st, salt>> \o <<a, b>> = <<st, salt, a, b>>
    BY Quad
  <2> QED
    BY <2>1, <2>2
<1> QED
  BY <1>1, <1>2, <1>3, <1>4, <1>5, <1>6, <1>7, <1>8, NotFound

\* A key is not empty, and an X25519 key fills one item.
LEMMA KeysNotEmpty == \A x : Long(x) # <<>> /\ Short(x) # <<>> /\ Len(Short(x)) = Fragment
BY RoomAssumption DEF Long, Short

-----------------------------------------------------------------------------
(* One control connection.                                                  *)

\* The server holds a request and has not answered it.
Busy == reader.at \in {"body", "dispatch", "set_fairplay", "reply"}

\* No request is on the wire, or one.
NoHead == \A i \in DOMAIN wire : wire[i] # "head"
OneHead == \A i, j \in DOMAIN wire : wire[i] = "head" /\ wire[j] = "head" => i = j

\* The answer under way, in the server's hands or on the wire.
Answering == reader.at = "reply" \/ (~Busy /\ NoHead /\ phone.ask # None)
Given == IF reader.at = "reply" THEN reader.reply ELSE answer
Theirs == tlv8_find_reassemble(Given.items, "public_key")
Gives(op) == Answering /\ phone.ask.op = op /\ Given.status = 200 /\ Theirs # <<>>
Asked(op, step) == phone.ask # None /\ phone.ask.op = op /\ phone.ask.step = step

\* The fields the contexts have.
PairShape == pair = [state |-> pair.state, srp |-> pair.srp, session |-> pair.session]
FpShape == fp = [state |-> fp.state, key |-> fp.key, aes |-> fp.aes]
MirrorShape == mirror = [active |-> mirror.active, key |-> mirror.key, iv |-> mirror.iv]
ReaderShape == reader = [at |-> reader.at, got |-> reader.got, then |-> reader.then,
                         reply |-> reader.reply]
PhoneShape == phone = [open |-> phone.open, ask |-> phone.ask, srp |-> phone.srp,
                       session |-> phone.session, pending |-> phone.pending,
                       stream |-> phone.stream]
Shape == /\ PairShape /\ FpShape /\ MirrorShape /\ ReaderShape /\ PhoneShape
         /\ wire \in Seq({"head", "body"})

\* One request at a time: while the server works on it there is no answer yet,
\* and a head waits on the wire only while nothing else does.
TurnInv ==
  /\ phone.open => rtsp # "free"
  /\ phone.ask = None => answer = None
  /\ Busy => phone.ask # None /\ answer = None
  /\ rtsp \in {"free", "TEARDOWN"} => ~Busy
  /\ NoHead \/ (OneHead /\ ~Busy /\ answer = None /\ phone.ask # None)
  /\ ~phone.open => answer = None /\ phone.stream = None
  /\ reader.at \in {"set_fairplay", "reply"} => reader.then # "free"

\* The state of FairPlay says which of its keys there are.
FpInv ==
  \/ fp.state = "INIT" /\ fp.key = None /\ fp.aes = None
  \/ fp.state \in {"STAGE1", "STAGE2"} /\ fp.key \in ServerValues /\ fp.aes = None
  \/ fp.state = "DONE" /\ fp.key \in ServerValues /\ fp.aes = derive_aes_key(fp.key)
  \/ fp.state = "ERROR" /\ (fp.aes = None \/ (fp.key \in ServerValues /\ fp.aes = derive_aes_key(fp.key)))

\* The mirror has nothing before FairPlay is done, then the key and the vector of
\* this session; one by one while the last step of fp-setup sets them.
MirrorInv ==
  rtsp # "free" =>
  /\ fp.aes = None => mirror = NoMirror
  /\ mirror.key \in {None, fp.aes}
  /\ fp.aes # None /\ reader.at # "set_fairplay" => mirror = [active |-> TRUE, key |-> fp.aes, iv |-> fp.key]
  /\ reader.at = "set_fairplay" => fp.state = "DONE" /\ Asked("fp-setup", "3") /\ reader.reply = Plain(200)

\* What the phone keeps of FairPlay is what the server keeps, or is being given
\* it; it streams only when the mirror has been set.
StreamInv ==
  phone.open =>
  /\ fp.state \in {"STAGE1", "STAGE2", "DONE"} =>
       phone.pending = fp.key \/ (Asked("fp-setup", "1") /\ Answering /\ Given.status = 200)
  /\ Answering /\ Asked("fp-setup", "1") /\ Given.status = 200 => fp.state = "STAGE1" /\ Given.key = fp.key
  /\ Answering /\ Asked("fp-setup", "3") /\ Given.status = 200 => fp.state = "DONE"
  /\ phone.stream # None => fp.aes # None /\ reader.at # "set_fairplay" /\ fp.key = phone.stream

\* The server's secrets are the phone's, or what the phone will have made of the
\* answer under way.
KeysInv ==
  phone.open =>
  /\ pair.srp = IF Gives("pair-setup") THEN srp_secret(Long(phone.ask.value), Theirs) ELSE phone.srp
  /\ pair.session = IF Gives("pair-verify")
                    THEN hkdf_sha512("control", x25519_dh(Short(phone.ask.value), Theirs))
                    ELSE phone.session

\* A sealed answer is sealed with the secret of the request it answers.
SealedInv ==
  phone.open /\ Answering /\ Given.sealed # None =>
    Given.sealed =
      IF phone.ask.op = "pair-setup"
      THEN aes128gcm_encrypt(hkdf_sha512("setup", phone.srp), Identity)
      ELSE aes128gcm_encrypt(hkdf_sha512("verify", x25519_dh(Short(phone.ask.value), Theirs)),
                             ed25519_sign(<<Theirs, Short(phone.ask.value)>>))


SessionInv == Shape /\ TurnInv /\ FpInv /\ MirrorInv /\ StreamInv /\ KeysInv /\ SealedInv

LEMMA SessionInit == Init => SessionInv
<1> SUFFICES ASSUME Init PROVE SessionInv
  OBVIOUS
<1> USE DEF Init, NoPair, NoFairplay, NoMirror, NoPhone, Idle
<1>1. Shape
  <2>1. wire \in Seq({"head", "body"})
    BY DEF Init
  <2> QED
    BY <2>1 DEF Shape, PairShape, FpShape, MirrorShape, ReaderShape, PhoneShape
<1>2. ~Busy /\ NoHead /\ phone.ask = None /\ ~Answering
  <2>1. NoHead
    <3>1. \A i \in DOMAIN <<>> : FALSE
      OBVIOUS
    <3> QED
      BY <3>1 DEF NoHead
  <2>2. ~Busy /\ phone.ask = None
    BY DEF Busy
  <2> QED
    BY <2>1, <2>2 DEF Answering, Busy
<1>3. TurnInv
  BY <1>2 DEF TurnInv
<1>4. FpInv /\ MirrorInv
  BY DEF FpInv, MirrorInv
<1>5. StreamInv /\ KeysInv /\ SealedInv
  BY DEF StreamInv, KeysInv, SealedInv
<1> QED
  BY <1>1, <1>3, <1>4, <1>5 DEF SessionInv

\* The part of the invariant the properties follow from.
LEMMA SessionImplies == SessionInv => KeysAgree /\ AnswersOpen /\ OwnStreamKey
<1> SUFFICES ASSUME SessionInv PROVE KeysAgree /\ AnswersOpen /\ OwnStreamKey
  OBVIOUS
<1> USE DEF SessionInv
<1>1. KeysAgree
  BY DEF KeysInv, Gives, Answering, KeysAgree, TurnInv, Busy
<1>2. AnswersOpen
  <2> SUFFICES ASSUME answer # None, answer.sealed # None PROVE AnswersOpen
    BY DEF AnswersOpen
  <2>1. phone.open /\ Answering /\ Given = answer
    BY DEF TurnInv, Answering, Given, Busy
  <2> QED
    BY <2>1 DEF SealedInv, AnswersOpen, Theirs
<1>3. StreamKeyReady
  <2> SUFFICES ASSUME phone.stream # None PROVE StreamKeyReady
    BY DEF StreamKeyReady
  <2>1. phone.open /\ rtsp # "free"
    BY DEF TurnInv
  <2>2. fp.aes # None /\ reader.at # "set_fairplay" /\ fp.key = phone.stream
    BY <2>1 DEF StreamInv
  <2>3. fp.aes = derive_aes_key(fp.key)
    BY <2>2 DEF FpInv
  <2> QED
    BY <2>1, <2>2, <2>3 DEF MirrorInv, StreamKeyReady
<1>4. OwnKeyOnly
  BY DEF MirrorInv, OwnKeyOnly, Serving, NoMirror
<1> QED
  BY <1>1, <1>2, <1>3, <1>4 DEF OwnStreamKey

LEMMA Rest ==
  ASSUME NEW S, NEW s \in Seq(S), NEW n \in Nat, n >= 1
  PROVE  /\ SubSeq(s, n + 1, Len(s)) \in Seq(S)
         /\ \A i \in DOMAIN SubSeq(s, n + 1, Len(s)) :
              \E j \in DOMAIN s : j > 1 /\ SubSeq(s, n + 1, Len(s))[i] = s[j]
<1> DEFINE t == SubSeq(s, n + 1, Len(s))
<1>1. CASE n >= Len(s)
  <2>1. t = <<>>
    BY <1>1
  <2> QED
    BY <2>1
<1>2. CASE n < Len(s)
  <2>1. t \in Seq(S) /\ Len(t) = Len(s) - n
    BY <1>2
  <2>2. \A i \in 1 .. Len(t) : t[i] = s[n + i]
    BY <1>2
  <2> HIDE DEF t
  <2>3. ASSUME NEW i \in DOMAIN t PROVE \E j \in DOMAIN s : j > 1 /\ t[i] = s[j]
    <3>1. i \in 1 .. Len(t) /\ n + i \in 1 .. Len(s) /\ n + i > 1
      BY <2>1
    <3> QED
      BY <3>1, <2>2
  <2> QED
    BY <2>1, <2>3 DEF t
<1> QED
  BY <1>1, <1>2

\* Nothing is under way on a connection that starts, or is over.
LEMMA QuietKeeps ==
  ASSUME wire' = <<>>, reader' = Idle, answer' = None, Shape', phone'.ask = None,
         phone'.srp = None, phone'.session = None, phone'.stream = None, phone'.open => rtsp' # "free",
         rtsp' = "free" \/ (pair' = NoPair /\ fp' = NoFairplay /\ mirror' = NoMirror), FpInv',
         phone'.open => rtsp' # "free"
  PROVE  SessionInv'
<1>1. NoHead' /\ ~Busy' /\ ~Answering'
  <2>1. NoHead'
    BY DEF NoHead
  <2>2. reader'.at = "head"
    BY DEF Idle
  <2> QED
    BY <2>1, <2>2 DEF Answering, Busy
<1>2. TurnInv'
  BY <1>1 DEF TurnInv, Idle
<1>3. MirrorInv'
  BY DEF MirrorInv, NoFairplay, NoMirror, Idle
<1>4. StreamInv'
  BY <1>1 DEF StreamInv, NoFairplay
<1>5. KeysInv'
  BY <1>1 DEF KeysInv, NoPair, Gives
<1>6. SealedInv'
  BY <1>1 DEF SealedInv
<1> QED
  BY <1>2, <1>3, <1>4, <1>5, <1>6 DEF SessionInv

LEMMA OpenKeeps == ASSUME SessionInv, Open PROVE SessionInv'
<1>1. Shape'
  <2>1. PairShape' /\ FpShape' /\ MirrorShape' /\ ReaderShape'
    BY DEF PairShape, FpShape, MirrorShape, ReaderShape, Open, NoPair, NoFairplay, NoMirror, Idle
  <2>2. PhoneShape'
    BY DEF PhoneShape, Open, NoPhone
  <2>3. wire' \in Seq({"head", "body"})
    BY DEF Open
  <2> QED
    BY <2>1, <2>2, <2>3 DEF Shape
<1>2. FpInv'
  BY DEF FpInv, Open, NoFairplay
<1>3. /\ phone'.ask = None /\ phone'.srp = None /\ phone'.session = None /\ phone'.stream = None
      /\ rtsp' # "free"
  BY DEF Open, NoPhone
<1> QED
  BY <1>1, <1>2, <1>3, QuietKeeps DEF Open

LEMMA DestroyKeeps == ASSUME SessionInv, Destroy PROVE SessionInv'
<1>1. Shape'
  <2>1. PairShape' /\ MirrorShape'
    BY DEF SessionInv, Shape, PairShape, MirrorShape, Destroy
  <2>2. FpShape' /\ ReaderShape' /\ PhoneShape'
    BY DEF FpShape, ReaderShape, PhoneShape, Destroy, NoFairplay, NoPhone, Idle
  <2>3. wire' \in Seq({"head", "body"})
    BY DEF Destroy
  <2> QED
    BY <2>1, <2>2, <2>3 DEF Shape
<1>2. FpInv'
  BY DEF FpInv, Destroy, NoFairplay
<1>3. /\ phone'.ask = None /\ phone'.srp = None /\ phone'.session = None /\ phone'.stream = None
      /\ rtsp' = "free" /\ ~phone'.open
  BY DEF Destroy, NoPhone
<1> QED
  BY <1>1, <1>2, <1>3, QuietKeeps DEF Destroy

\* The phone asks only when nothing is under way.
LEMMA AskKeeps == ASSUME SessionInv, NEW r \in Requests, Ask(r) PROVE SessionInv'
<1>1. phone' = [phone EXCEPT !.ask = r] /\ UNCHANGED <<rtsp, pair, fp, mirror, reader, answer>>
  BY DEF Ask
<1>2. /\ phone'.ask = r /\ phone'.open = phone.open /\ phone'.srp = phone.srp
      /\ phone'.session = phone.session /\ phone'.pending = phone.pending
      /\ phone'.stream = phone.stream
  BY <1>1 DEF SessionInv, Shape, PhoneShape
<1>3. phone.open /\ phone.ask = None /\ answer = None /\ ~Busy /\ NoHead /\ ~Answering
  BY DEF Ask, SessionInv, TurnInv, Answering, Busy
<1>4. r # None
  BY NoneAssumption
<1> DEFINE body == [i \in 1 .. Body(r) |-> "body"]
           sent == wire \o <<"head">>
<1>5. Body(r) \in Nat
  BY RoomAssumption DEF Body
<1>6. wire \in Seq({"head", "body"}) /\ body \in Seq({"head", "body"}) /\ Len(body) = Body(r)
      /\ \A i \in DOMAIN body : body[i] = "body"
  BY <1>5 DEF SessionInv, Shape
<1> HIDE DEF body
<1>7. sent \in Seq({"head", "body"}) /\ Len(sent) = Len(wire) + 1 /\ sent[Len(wire) + 1] = "head"
      /\ \A i \in 1 .. Len(sent) : sent[i] = "head" => i = Len(wire) + 1
  BY <1>3, <1>6 DEF NoHead
<1>8. wire' = sent \o body
  BY DEF Ask, body
<1> HIDE DEF sent
<1>9. /\ wire' \in Seq({"head", "body"})
      /\ \A i \in DOMAIN wire' : wire'[i] = "head" => i = Len(wire) + 1
  BY <1>5, <1>6, <1>7, <1>8
<1>10. Len(wire) + 1 \in DOMAIN wire' /\ wire'[Len(wire) + 1] = "head"
  BY <1>5, <1>6, <1>7, <1>8
<1>11. ~Busy' /\ ~Answering' /\ OneHead'
  BY <1>1, <1>3, <1>9, <1>10 DEF Busy, Answering, OneHead, NoHead
<1>12. Shape'
  BY <1>1, <1>9 DEF SessionInv, Shape, PairShape, FpShape, MirrorShape, ReaderShape, PhoneShape
<1>13. TurnInv'
  BY <1>1, <1>2, <1>3, <1>4, <1>11 DEF SessionInv, TurnInv, Busy
<1>14. FpInv' /\ MirrorInv'
  BY <1>1, <1>3 DEF SessionInv, FpInv, MirrorInv, Busy
<1>15. StreamInv'
  BY <1>1, <1>2, <1>3, <1>11 DEF SessionInv, StreamInv
<1>16. KeysInv' /\ SealedInv'
  BY <1>1, <1>2, <1>3, <1>11 DEF SessionInv, KeysInv, SealedInv, Gives
<1> QED
  BY <1>12, <1>13, <1>14, <1>15, <1>16 DEF SessionInv

LEMMA HangKeeps == ASSUME SessionInv, Hang PROVE SessionInv'
<1>1. /\ phone' = [NoPhone EXCEPT !.ask = phone.ask] /\ answer' = None
      /\ UNCHANGED <<rtsp, pair, fp, mirror, reader, wire>>
  BY DEF Hang
<1>2. ~phone'.open /\ phone'.ask = phone.ask /\ phone'.stream = None
  BY <1>1 DEF NoPhone
<1>3. PhoneShape'
  BY <1>1 DEF PhoneShape, NoPhone
<1>4. Shape'
  BY <1>1, <1>3 DEF SessionInv, Shape, PairShape, FpShape, MirrorShape, ReaderShape
<1>5. TurnInv'
  BY <1>1, <1>2 DEF SessionInv, TurnInv, Busy, NoHead, OneHead
<1>6. FpInv' /\ MirrorInv'
  BY <1>1, <1>2 DEF SessionInv, FpInv, MirrorInv, Asked
<1>7. StreamInv' /\ KeysInv' /\ SealedInv'
  BY <1>2 DEF StreamInv, KeysInv, SealedInv
<1> QED
  BY <1>4, <1>5, <1>6, <1>7 DEF SessionInv

\* What the phone takes from an answer is what the server left in its contexts.
LEMMA HearKeeps == ASSUME SessionInv, Hear PROVE SessionInv'
<1> DEFINE r  == phone.ask
           b  == tlv8_find_reassemble(answer.items, "public_key")
           ok == answer.status = 200
<1>1. /\ phone.open /\ answer # None /\ answer' = None
      /\ UNCHANGED <<rtsp, pair, fp, mirror, reader, wire>>
  BY DEF Hear
<1>2. /\ phone'.open /\ phone'.ask = None
      /\ phone'.srp = IF ok /\ r.op = "pair-setup" /\ b # <<>>
                      THEN srp_secret(Long(r.value), b) ELSE phone.srp
      /\ phone'.session = IF ok /\ r.op = "pair-verify" /\ b # <<>>
                          THEN hkdf_sha512("control", x25519_dh(Short(r.value), b))
                          ELSE phone.session
      /\ phone'.pending = IF ok /\ r.op = "fp-setup" /\ r.step = "1" THEN answer.key ELSE phone.pending
      /\ phone'.stream = IF ok /\ r.op = "fp-setup" /\ r.step = "3" THEN phone.pending ELSE phone.stream
  BY DEF Hear, SessionInv, Shape, PhoneShape
<1>3. PhoneShape'
  BY DEF Hear, SessionInv, Shape, PhoneShape
<1>4. phone.ask # None /\ ~Busy /\ NoHead /\ reader.at # "reply" /\ Answering /\ Given = answer
  BY <1>1 DEF SessionInv, TurnInv, Busy, Answering, Given
<1>5. ~Busy' /\ NoHead' /\ ~Answering'
  BY <1>1, <1>2, <1>4 DEF Busy, NoHead, Answering
<1>6. Shape'
  BY <1>1, <1>3 DEF SessionInv, Shape, PairShape, FpShape, MirrorShape, ReaderShape
<1>7. FpInv' /\ MirrorInv'
  BY <1>1, <1>4 DEF SessionInv, FpInv, MirrorInv, Busy
<1>8. TurnInv'
  BY <1>1, <1>2, <1>4, <1>5 DEF SessionInv, TurnInv
<1>9. KeysInv'
  <2>1. Theirs = b
    BY <1>4 DEF Theirs
  <2>2. ~Gives("pair-setup")' /\ ~Gives("pair-verify")'
    BY <1>5 DEF Gives
  <2> QED
    BY <1>1, <1>2, <1>4, <2>1, <2>2 DEF SessionInv, KeysInv, Gives
<1>10. SealedInv'
  BY <1>5 DEF SealedInv
<1>11. StreamInv'
  <2>1. fp.state \in {"STAGE1", "STAGE2", "DONE"} => phone'.pending = fp.key
    BY <1>1, <1>2, <1>4 DEF SessionInv, StreamInv, Asked
  <2>2. CASE ok /\ r.op = "fp-setup" /\ r.step = "3"
    <3>1. fp.state = "DONE" /\ phone'.stream = fp.key
      BY <1>1, <1>2, <1>4, <2>2 DEF SessionInv, StreamInv, Asked
    <3>2. fp.aes \in StreamKeys
      BY <3>1 DEF SessionInv, FpInv, StreamKeys
    <3>3. fp.aes # None
      BY <3>2, NoneAssumption
    <3> QED
      BY <1>1, <1>4, <1>5, <2>1, <3>1, <3>3 DEF StreamInv, Busy
  <2>3. CASE ~(ok /\ r.op = "fp-setup" /\ r.step = "3")
    <3>1. phone'.stream = phone.stream
      BY <1>2, <2>3
    <3> QED
      BY <1>1, <1>5, <2>1, <3>1 DEF SessionInv, StreamInv
  <2> QED
    BY <2>2, <2>3
<1> QED
  BY <1>6, <1>7, <1>8, <1>9, <1>10, <1>11 DEF SessionInv

\* The thread between two requests: nothing under way changes hands.
LEMMA WaitKeeps ==
  ASSUME SessionInv, UNCHANGED <<pair, fp, mirror, wire, answer, phone>>,
         reader.at \in {"head", "body", "over"}, ~phone.open \/ ~Busy,
         reader'.at \in {"head", "over"}, ReaderShape',
         rtsp' = rtsp \/ (rtsp # "free" /\ rtsp' = "TEARDOWN")
  PROVE  SessionInv'
<1>1. ~Busy' /\ Answering' = (NoHead /\ phone.ask # None) /\ Given' = answer /\ NoHead' = NoHead
  BY DEF Busy, Answering, NoHead, Given
<1>2. Shape'
  BY DEF SessionInv, Shape, PairShape, FpShape, MirrorShape, PhoneShape
<1>3. TurnInv'
  BY <1>1 DEF SessionInv, TurnInv, OneHead, Busy
<1>4. FpInv' /\ MirrorInv'
  BY DEF SessionInv, FpInv, MirrorInv
<1>5. CASE ~phone.open
  BY <1>2, <1>3, <1>4, <1>5 DEF SessionInv, StreamInv, KeysInv, SealedInv
<1>6. CASE phone.open /\ ~Busy
  <2>1. Answering' = Answering /\ Given' = Given
    BY <1>1, <1>6 DEF Answering, Given, Busy
  <2>2. Theirs' = Theirs
    BY <2>1 DEF Theirs
  <2>3. StreamInv'
    BY <2>1, <1>6 DEF SessionInv, StreamInv, Asked
  <2>4. KeysInv' /\ SealedInv'
    BY <2>1, <2>2, <1>6 DEF SessionInv, KeysInv, SealedInv, Gives
  <2> QED
    BY <1>2, <1>3, <1>4, <2>3, <2>4 DEF SessionInv
<1> QED
  BY <1>5, <1>6

LEMMA OverKeeps == ASSUME SessionInv, ReadRest \/ ReadEnd \/ Finish PROVE SessionInv'
<1>1. CASE ReadRest
  <2>1. reader'.at = "over" /\ ReaderShape'
    BY <1>1 DEF SessionInv, Shape, ReaderShape, ReadRest, Over
  <2> QED
    BY <1>1, <2>1, WaitKeeps DEF ReadRest, Busy
<1>2. CASE ReadEnd
  <2>1. reader'.at = "over" /\ ReaderShape'
    BY <1>2 DEF SessionInv, Shape, ReaderShape, ReadEnd, Over
  <2> QED
    BY <1>2, <2>1, WaitKeeps DEF ReadEnd
<1>3. CASE Finish
  <2>1. ReaderShape' /\ reader'.at = "over" /\ rtsp # "free"
    BY <1>3 DEF SessionInv, Shape, ReaderShape, Finish, Serving
  <2> QED
    BY <1>3, <2>1, WaitKeeps DEF Finish, Busy
<1> QED
  BY <1>1, <1>2, <1>3

\* A recv takes the head, or more of the body: a request is in the server's hands.
LEMMA TakeKeeps ==
  ASSUME SessionInv, UNCHANGED <<rtsp, pair, fp, mirror, answer, phone>>, ReaderShape',
         reader'.at \in {"body", "dispatch"}, rtsp \notin {"free", "TEARDOWN"},
         NEW n \in Nat, n >= 1, wire' = SubSeq(wire, n + 1, Len(wire)),
         \/ reader.at = "body"
         \/ reader.at = "head" /\ wire # <<>> /\ Head(wire) = "head"
  PROVE  SessionInv'
<1>1. /\ wire \in Seq({"head", "body"}) /\ wire' \in Seq({"head", "body"})
      /\ \A i \in DOMAIN wire' : \E j \in DOMAIN wire : j > 1 /\ wire'[i] = wire[j]
  BY Rest DEF SessionInv, Shape
<1>2. phone.ask # None /\ answer = None /\ NoHead' /\ ~Answering
  <2>1. CASE reader.at = "body"
    BY <1>1, <2>1 DEF SessionInv, TurnInv, Busy, NoHead, Answering
  <2>2. CASE reader.at = "head" /\ wire # <<>> /\ Head(wire) = "head"
    <3>1. 1 \in DOMAIN wire /\ wire[1] = "head" /\ ~NoHead
      BY <1>1, <2>2 DEF NoHead
    <3>2. OneHead /\ answer = None /\ phone.ask # None
      BY <3>1 DEF SessionInv, TurnInv
    <3>3. NoHead'
      BY <1>1, <3>1, <3>2 DEF NoHead, OneHead
    <3> QED
      BY <2>2, <3>1, <3>2, <3>3 DEF Answering
  <2> QED
    BY <2>1, <2>2
<1>3. Busy' /\ ~Answering'
  BY DEF Busy, Answering
<1>4. Shape'
  BY <1>1 DEF SessionInv, Shape, PairShape, FpShape, MirrorShape, PhoneShape
<1>5. TurnInv'
  BY <1>2, <1>3 DEF SessionInv, TurnInv
<1>6. FpInv' /\ MirrorInv'
  BY DEF SessionInv, FpInv, MirrorInv
<1>7. StreamInv'
  BY <1>2, <1>3 DEF SessionInv, StreamInv
<1>8. KeysInv' /\ SealedInv'
  BY <1>2, <1>3 DEF SessionInv, KeysInv, SealedInv, Gives
<1> QED
  BY <1>4, <1>5, <1>6, <1>7, <1>8 DEF SessionInv

LEMMA ReadKeeps == ASSUME SessionInv, ReadHead \/ ReadBody PROVE SessionInv'
<1>1. CASE ReadHead
  <2>1. PICK n \in 1 .. Min({HeaderRoom, Len(wire)}) :
           /\ wire' = SubSeq(wire, n + 1, Len(wire))
           /\ reader' = [reader EXCEPT
                !.at  = IF Body(phone.ask) \in n..BodyRoom THEN "body" ELSE "dispatch",
                !.got = n - 1]
    BY <1>1 DEF ReadHead
  <2>2. n \in Nat /\ n >= 1
    BY <2>1
  <2>3. ReaderShape' /\ reader'.at \in {"body", "dispatch"}
    BY <2>1 DEF SessionInv, Shape, ReaderShape
  <2> QED
    BY <1>1, <2>1, <2>2, <2>3, TakeKeeps DEF ReadHead, Serving
<1>2. CASE ReadBody
  <2>1. PICK n \in 1 .. Min({Body(phone.ask) - reader.got, Len(wire)}) :
           /\ wire' = SubSeq(wire, n + 1, Len(wire))
           /\ reader' = [reader EXCEPT
                !.got = @ + n,
                !.at  = IF reader.got + n = Body(phone.ask) THEN "dispatch" ELSE "body"]
    BY <1>2 DEF ReadBody
  <2>2. n \in Nat /\ n >= 1
    BY <2>1
  <2>3. ReaderShape' /\ reader'.at \in {"body", "dispatch"}
    BY <2>1 DEF SessionInv, Shape, ReaderShape
  <2>4. rtsp \notin {"free", "TEARDOWN"} /\ reader.at = "body"
    BY <1>2 DEF ReadBody, SessionInv, TurnInv, Busy
  <2> QED
    BY <1>2, <2>1, <2>2, <2>3, <2>4, TakeKeeps DEF ReadBody
<1> QED
  BY <1>1, <1>2

-----------------------------------------------------------------------------
(* The handlers.                                                            *)

LEMMA PlainFields == \A k : /\ Plain(k).status = k /\ Plain(k).items = <<>>
                            /\ Plain(k).sealed = None /\ Plain(k).key = None
BY DEF Plain, Answer

\* A handler ends with an answer, or with the key on its way to the mirror.
LEMMA DispatchKeeps ==
  ASSUME SessionInv, reader.at = "dispatch", UNCHANGED <<rtsp, wire, answer, phone>>,
         ReaderShape', PairShape', FpShape', MirrorShape',
         reader'.at \in {"set_fairplay", "reply"}, reader'.then # "free"
  PROVE  /\ Shape' /\ TurnInv' /\ ~Answering /\ (Answering' = (reader'.at = "reply"))
         /\ phone.ask # None /\ rtsp \notin {"free", "TEARDOWN"}
<1>1. Busy /\ Busy' /\ phone.ask # None /\ answer = None /\ rtsp \notin {"free", "TEARDOWN"}
  BY DEF SessionInv, TurnInv, Busy
<1>2. ~Answering /\ (Answering' = (reader'.at = "reply"))
  BY <1>1 DEF Answering
<1>3. Shape'
  BY DEF SessionInv, Shape, PhoneShape
<1>4. NoHead /\ NoHead' = NoHead
  BY <1>1 DEF SessionInv, TurnInv, NoHead
<1>5. TurnInv'
  BY <1>1, <1>4 DEF SessionInv, TurnInv
<1> QED
  BY <1>1, <1>2, <1>3, <1>5

LEMMA ReplyFields ==
  ASSUME SessionInv, NEW a, NEW st, Reply(a, st)
  PROVE  ReaderShape' /\ reader'.at = "reply" /\ reader'.reply = a /\ reader'.then = st
BY DEF SessionInv, Shape, ReaderShape, Reply

\* An answer with no key in it, after which no context has changed.
LEMMA PlainKeeps ==
  ASSUME SessionInv, reader.at = "dispatch",
         UNCHANGED <<rtsp, pair, fp, mirror, wire, answer, phone>>,
         NEW k, NEW st, Reply(Plain(k), st), st # "free", phone.ask.op # "fp-setup" \/ k # 200
  PROVE  SessionInv'
<1>1. ReaderShape' /\ reader'.at = "reply" /\ reader'.reply = Plain(k) /\ reader'.then = st
  BY ReplyFields
<1>2. PairShape' /\ FpShape' /\ MirrorShape'
  BY DEF SessionInv, Shape, PairShape, FpShape, MirrorShape
<1>3. /\ Shape' /\ TurnInv' /\ ~Answering /\ Answering'
      /\ phone.ask # None /\ rtsp \notin {"free", "TEARDOWN"}
  BY <1>1, <1>2, DispatchKeeps
<1>4. Given' = Plain(k) /\ Theirs' = <<>>
  <2>1. Given' = Plain(k)
    BY <1>1 DEF Given
  <2>2. IndexOf(<<>>, "public_key") = {}
    BY NoneOfType
  <2>3. tlv8_find_reassemble(<<>>, "public_key") = <<>>
    BY <2>2, NotFound
  <2> QED
    BY <2>1, <2>3, PlainFields DEF Theirs
<1>5. FpInv' /\ MirrorInv'
  BY <1>1 DEF SessionInv, FpInv, MirrorInv
<1>6. StreamInv'
  BY <1>1, <1>3, <1>4, PlainFields DEF SessionInv, StreamInv, Asked
<1>7. KeysInv' /\ SealedInv'
  BY <1>3, <1>4, PlainFields DEF SessionInv, KeysInv, SealedInv, Gives
<1> QED
  BY <1>3, <1>5, <1>6, <1>7 DEF SessionInv

LEMMA HandleKeeps ==
  ASSUME SessionInv, HandleQuery \/ HandleParameter \/ HandleTeardown \/ HandleStream
  PROVE  SessionInv'
<1>1. reader.at = "dispatch" /\ phone.ask.op # "fp-setup"
      /\ UNCHANGED <<rtsp, pair, fp, mirror, wire, answer, phone>>
  BY DEF HandleQuery, HandleParameter, HandleTeardown, HandleStream, Dispatching
<1>2. rtsp # "free"
  BY <1>1 DEF SessionInv, TurnInv, Busy
<1>3. \E st \in {rtsp, "TEARDOWN", "ready", "RECORDING"} : Reply(Plain(200), st)
  BY DEF HandleQuery, HandleParameter, HandleTeardown, HandleStream
<1> QED
  BY <1>1, <1>2, <1>3, PlainKeeps

\* What a request of a pairing asks for.
LEMMA StepIs == Step = phone.ask.step
<1>1. tlv8_find(Items(phone.ask), "state") = <<phone.ask.step>>
  BY RequestItems
<1> QED
  BY <1>1 DEF Step

\* A pairing answer: the key it carries is the one the secret was made with.
LEMMA PairKeeps ==
  ASSUME SessionInv, HandlePair PROVE SessionInv'
<1>1. /\ reader.at = "dispatch" /\ phone.ask.op \in {"pair-setup", "pair-verify"}
      /\ UNCHANGED <<rtsp, fp, mirror, wire, answer, phone>>
  BY DEF HandlePair, Dispatching
<1>2. rtsp # "free" /\ phone.ask # None
  BY <1>1 DEF SessionInv, TurnInv, Busy
<1>3. FpShape' /\ MirrorShape'
  BY <1>1 DEF SessionInv, Shape, FpShape, MirrorShape
<1> DEFINE Kept ==
      /\ pair'.srp = IF phone.ask.op = "pair-setup" /\ Given'.status = 200 /\ Theirs' # <<>>
                     THEN srp_secret(Long(phone.ask.value), Theirs') ELSE pair.srp
      /\ pair'.session = IF phone.ask.op = "pair-verify" /\ Given'.status = 200 /\ Theirs' # <<>>
                         THEN hkdf_sha512("control", x25519_dh(Short(phone.ask.value), Theirs'))
                         ELSE pair.session
      /\ Given'.sealed # None =>
           Given'.sealed =
             IF phone.ask.op = "pair-setup"
             THEN aes128gcm_encrypt(hkdf_sha512("setup", pair.srp), Identity)
             ELSE aes128gcm_encrypt(hkdf_sha512("verify", x25519_dh(Short(phone.ask.value), Theirs')),
                                    ed25519_sign(<<Theirs', Short(phone.ask.value)>>))
<1>4. ASSUME PairShape', NEW a, NEW st, Reply(a, st), st # "free", Kept PROVE SessionInv'
  <2>1. ReaderShape' /\ reader'.at = "reply" /\ reader'.reply = a /\ reader'.then = st
    BY <1>4, ReplyFields
  <2>2. Shape' /\ TurnInv' /\ ~Answering /\ Answering'
    BY <1>1, <1>3, <1>4, <2>1, DispatchKeeps
  <2>3. phone.open => pair.srp = phone.srp /\ pair.session = phone.session
    BY <2>2 DEF SessionInv, KeysInv, Gives
  <2>4. FpInv' /\ MirrorInv'
    BY <1>1, <2>1 DEF SessionInv, FpInv, MirrorInv
  <2>5. StreamInv'
    BY <1>1, <2>1, <2>2 DEF SessionInv, StreamInv, Asked
  <2>6. KeysInv'
    BY <1>1, <1>4, <2>2, <2>3 DEF KeysInv, Gives
  <2>7. SealedInv'
    BY <1>1, <1>4, <2>2, <2>3 DEF SealedInv
  <2> QED
    BY <2>2, <2>4, <2>5, <2>6, <2>7 DEF SessionInv
<1> HIDE DEF Kept
<1>5. ASSUME NEW a, NEW st, Reply(a, st) PROVE Given' = a /\ Theirs' = tlv8_find_reassemble(a.items, "public_key")
  BY <1>5, ReplyFields DEF Given, Theirs
<1>6. \A status, items, sealed, key : LET a == Answer(status, items, sealed, key)
        IN a.status = status /\ a.items = items /\ a.sealed = sealed /\ a.key = key
  BY DEF Answer
<1>7. CASE phone.ask.op = "pair-setup" /\ PairSetupM1
  <2> DEFINE theirs == tlv8_find_reassemble(Items(phone.ask), "public_key")
             M2(x) == tlv8_encode_item("state", <<"M2">>) \o tlv8_encode_item("salt", <<"salt">>)
                      \o tlv8_encode_item("public_key", Long(x))
  <2>1. theirs # <<>>
    BY <1>7 DEF PairSetupM1
  <2>2. theirs = Long(phone.ask.value)
    BY <1>7, <2>1, RequestItems
  <2>3. PICK x \in ServerValues :
           /\ pair' = [pair EXCEPT !.state = "SETUP_M2", !.srp = srp_secret(theirs, Long(x))]
           /\ Reply(Answer(200, M2(x), None, None), rtsp)
    BY <1>7 DEF PairSetupM1
  <2>4. tlv8_find_reassemble(M2(x), "public_key") = Long(x) /\ Long(x) # <<>>
    BY AnswerItems, KeysNotEmpty
  <2>5. pair'.srp = srp_secret(theirs, Long(x)) /\ pair'.session = pair.session /\ PairShape'
    BY <2>3 DEF SessionInv, Shape, PairShape
  <2> HIDE DEF M2, theirs
  <2>6. Given'.status = 200 /\ Given'.sealed = None /\ Theirs' = Long(x)
    BY <1>5, <1>6, <2>3, <2>4
  <2>7. Kept
    BY <1>7, <2>2, <2>4, <2>5, <2>6 DEF Kept
  <2> QED
    BY <1>2, <1>4, <2>3, <2>5, <2>7
<1>8. CASE phone.ask.op = "pair-setup" /\ PairSetupM3
  <2> DEFINE M4 == tlv8_encode_item("state", <<"M4">>)
             sealed == aes128gcm_encrypt(hkdf_sha512("setup", pair.srp), Identity)
  <2>1. pair' = [pair EXCEPT !.state = "SETUP_DONE"] /\ Reply(Answer(200, M4, sealed, None), "ready")
    BY <1>8 DEF PairSetupM3
  <2>2. tlv8_find_reassemble(M4, "public_key") = <<>>
    BY AnswerItems
  <2>3. pair'.srp = pair.srp /\ pair'.session = pair.session /\ PairShape'
    BY <2>1 DEF SessionInv, Shape, PairShape
  <2> HIDE DEF M4
  <2>4. Given'.sealed = sealed /\ Theirs' = <<>>
    BY <1>5, <1>6, <2>1, <2>2
  <2>5. Kept
    BY <1>8, <2>3, <2>4 DEF Kept
  <2> QED
    BY <1>4, <2>1, <2>3, <2>5
<1>9. CASE phone.ask.op = "pair-verify" /\ PairVerifyM1
  <2> DEFINE theirs == tlv8_find(Items(phone.ask), "public_key")
             M2(x) == tlv8_encode_item("state", <<"M2">>) \o tlv8_encode_item("public_key", Short(x))
             shared(x) == x25519_dh(theirs, Short(x))
             sealed(x) == aes128gcm_encrypt(hkdf_sha512("verify", shared(x)),
                                            ed25519_sign(<<Short(x), theirs>>))
  <2>1. theirs # <<>>
    BY <1>9, RoomAssumption DEF PairVerifyM1
  <2>2. theirs = Short(phone.ask.value)
    BY <1>9, <2>1, RequestItems
  <2>3. PICK x \in ServerValues :
           /\ pair' = [pair EXCEPT !.state = "VERIFY_M2", !.session = hkdf_sha512("control", shared(x))]
           /\ Reply(Answer(200, M2(x), sealed(x), None), rtsp)
    BY <1>9 DEF PairVerifyM1
  <2>4. tlv8_find_reassemble(M2(x), "public_key") = Short(x) /\ Short(x) # <<>>
    BY AnswerItems, KeysNotEmpty
  <2>5. pair'.session = hkdf_sha512("control", shared(x)) /\ pair'.srp = pair.srp /\ PairShape'
    BY <2>3 DEF SessionInv, Shape, PairShape
  <2> HIDE DEF M2, theirs
  <2>6. Given'.status = 200 /\ Given'.sealed = sealed(x) /\ Theirs' = Short(x)
    BY <1>5, <1>6, <2>3, <2>4
  <2>7. Kept
    BY <1>9, <2>2, <2>4, <2>5, <2>6 DEF Kept
  <2> QED
    BY <1>2, <1>4, <2>3, <2>5, <2>7
<1>10. CASE phone.ask.op = "pair-verify" /\ PairVerifyM3
  <2> DEFINE M4 == tlv8_encode_item("state", <<"M4">>)
  <2>1. pair' = [pair EXCEPT !.state = "VERIFIED"] /\ Reply(Answer(200, M4, None, None), "ready")
    BY <1>10 DEF PairVerifyM3
  <2>2. tlv8_find_reassemble(M4, "public_key") = <<>>
    BY AnswerItems
  <2>3. pair'.srp = pair.srp /\ pair'.session = pair.session /\ PairShape'
    BY <2>1 DEF SessionInv, Shape, PairShape
  <2> HIDE DEF M4
  <2>4. Given'.sealed = None /\ Theirs' = <<>>
    BY <1>5, <1>6, <2>1, <2>2
  <2>5. Kept
    BY <1>10, <2>3, <2>4 DEF Kept
  <2> QED
    BY <1>4, <2>1, <2>3, <2>5
<1>11. CASE PairRefused
  <2>1. pair' = pair /\ \E k \in {400, 500} : Reply(Plain(k), rtsp)
    BY <1>11 DEF PairRefused
  <2> QED
    BY <1>1, <1>2, <2>1, PlainKeeps
<1> QED
  BY <1>7, <1>8, <1>9, <1>10, <1>11 DEF HandlePair, Dispatching

LEMMA FairplayKeeps == ASSUME SessionInv, HandleFpSetup PROVE SessionInv'
<1>1. /\ reader.at = "dispatch" /\ phone.ask.op = "fp-setup"
      /\ UNCHANGED <<rtsp, pair, mirror, wire, answer, phone>>
  BY DEF HandleFpSetup, Dispatching
<1>2. rtsp # "free" /\ phone.ask # None /\ ~Answering
  BY <1>1 DEF SessionInv, TurnInv, Busy, Answering
<1>3. PairShape' /\ MirrorShape'
  BY <1>1 DEF SessionInv, Shape, PairShape, MirrorShape
<1>4. phone.open => pair.srp = phone.srp /\ pair.session = phone.session
  BY <1>2 DEF SessionInv, KeysInv, Gives
<1>5. fp.state \in {"STAGE1", "STAGE2", "DONE"} /\ phone.open => phone.pending = fp.key
  BY <1>2 DEF SessionInv, StreamInv
<1>6. ASSUME FpShape', FpInv', MirrorInv', StreamInv', ReaderShape',
             reader'.at \in {"set_fairplay", "reply"}, reader'.then # "free", Given'.sealed = None
      PROVE  SessionInv'
  <2>1. Shape' /\ TurnInv'
    BY <1>1, <1>3, <1>6, DispatchKeeps
  <2>2. KeysInv' /\ SealedInv'
    BY <1>1, <1>4, <1>6 DEF KeysInv, SealedInv, Gives
  <2> QED
    BY <1>6, <2>1, <2>2 DEF SessionInv
<1>7. \A a, st : Reply(a, st) => ReaderShape' /\ reader'.at = "reply" /\ reader'.then = st /\ Given' = a
  BY ReplyFields DEF Given
<1>8. CASE Stage1
  <2>1. PICK x \in ServerValues : /\ fp' = [fp EXCEPT !.state = "STAGE1", !.key = x]
                                  /\ Reply(Answer(200, <<>>, None, x), rtsp)
    BY <1>8 DEF Stage1
  <2>2. FpShape' /\ fp'.state = "STAGE1" /\ fp'.key = x /\ fp'.aes = fp.aes
    BY <2>1 DEF SessionInv, Shape, FpShape
  <2>3. fp.aes = None /\ phone.ask.step = "1"
    BY <1>8 DEF SessionInv, FpInv, Stage1, Follows
  <2>4. Given'.status = 200 /\ Given'.sealed = None /\ Given'.key = x
    BY <1>7, <2>1 DEF Answer
  <2>5. ReaderShape' /\ reader'.at = "reply" /\ reader'.then = rtsp
    BY <1>7, <2>1
  <2>6. FpInv' /\ MirrorInv'
    BY <1>1, <1>2, <2>2, <2>3, <2>5 DEF SessionInv, FpInv, MirrorInv
  <2>7. StreamInv'
    <3>1. phone.open => phone.stream = None
      BY <2>3 DEF SessionInv, StreamInv
    <3>2. Answering' /\ Asked("fp-setup", "1")' /\ ~Asked("fp-setup", "3")'
      BY <1>1, <1>2, <2>3, <2>5 DEF Answering, Asked
    <3> QED
      BY <1>1, <2>2, <2>4, <2>5, <3>1, <3>2 DEF StreamInv
  <2> QED
    BY <1>2, <1>6, <2>2, <2>4, <2>5, <2>6, <2>7
<1>9. CASE Stage2
  <2>1. fp' = [fp EXCEPT !.state = "STAGE2"] /\ Reply(Plain(200), rtsp)
    BY <1>9 DEF Stage2
  <2>2. FpShape' /\ fp'.state = "STAGE2" /\ fp'.key = fp.key /\ fp'.aes = fp.aes
    BY <2>1 DEF SessionInv, Shape, FpShape
  <2>3. fp.state = "STAGE1" /\ fp.aes = None /\ fp.key \in ServerValues /\ phone.ask.step = "2"
    BY <1>9 DEF SessionInv, FpInv, Stage2, Follows
  <2>4. Given'.sealed = None /\ ReaderShape' /\ reader'.at = "reply" /\ reader'.then = rtsp
    BY <1>7, <2>1, PlainFields
  <2>5. FpInv' /\ MirrorInv'
    BY <1>1, <1>2, <2>2, <2>3, <2>4 DEF SessionInv, FpInv, MirrorInv
  <2>6. StreamInv'
    <3>1. ~Asked("fp-setup", "1")' /\ ~Asked("fp-setup", "3")'
      BY <1>1, <2>3 DEF Asked
    <3> QED
      BY <1>1, <1>5, <2>2, <2>3, <2>4, <3>1 DEF SessionInv, StreamInv
  <2> QED
    BY <1>2, <1>6, <2>2, <2>4, <2>5, <2>6
<1>10. CASE Stage3
  <2>1. /\ fp' = [fp EXCEPT !.state = "DONE", !.aes = derive_aes_key(fp.key)]
        /\ reader' = [reader EXCEPT !.at = "set_fairplay", !.reply = Plain(200), !.then = "ready"]
    BY <1>10 DEF Stage3
  <2>2. FpShape' /\ fp'.state = "DONE" /\ fp'.key = fp.key /\ fp'.aes = derive_aes_key(fp.key)
    BY <2>1 DEF SessionInv, Shape, FpShape
  <2>3. fp.state = "STAGE2" /\ fp.aes = None /\ fp.key \in ServerValues /\ phone.ask.step = "3"
    BY <1>10 DEF SessionInv, FpInv, Stage3, Follows
  <2>4. /\ ReaderShape' /\ reader'.at = "set_fairplay" /\ reader'.then = "ready"
        /\ reader'.reply = Plain(200)
    BY <2>1 DEF SessionInv, Shape, ReaderShape
  <2>5. Answering' = FALSE /\ Given' = answer
    BY <1>1, <2>4 DEF Answering, Given, Busy
  <2>6. fp'.aes # None
    <3>1. fp'.aes \in StreamKeys
      BY <2>2, <2>3 DEF StreamKeys
    <3> QED
      BY <3>1, NoneAssumption
  <2>7. FpInv' /\ MirrorInv'
    <3>1. mirror = NoMirror
      BY <1>2, <2>3 DEF SessionInv, MirrorInv
    <3> QED
      BY <1>1, <1>2, <2>2, <2>3, <2>4, <2>6, <3>1 DEF FpInv, MirrorInv, NoMirror, Asked
  <2>8. StreamInv'
    BY <1>1, <1>5, <2>2, <2>3, <2>5 DEF SessionInv, StreamInv
  <2>9. Shape' /\ TurnInv'
    BY <1>1, <1>3, <2>2, <2>4, DispatchKeeps
  <2>10. KeysInv' /\ SealedInv'
    BY <1>1, <1>4, <2>5 DEF KeysInv, SealedInv, Gives
  <2> QED
    BY <2>7, <2>8, <2>9, <2>10 DEF SessionInv
<1>11. CASE StageRefused
  <2>1. fp' = [fp EXCEPT !.state = "ERROR"] /\ Reply(Plain(500), rtsp)
    BY <1>11 DEF StageRefused
  <2>2. FpShape' /\ fp'.state = "ERROR" /\ fp'.key = fp.key /\ fp'.aes = fp.aes
    BY <2>1 DEF SessionInv, Shape, FpShape
  <2>3. /\ Given'.status = 500 /\ Given'.sealed = None
        /\ ReaderShape' /\ reader'.at = "reply" /\ reader'.then = rtsp
    BY <1>7, <2>1, PlainFields
  <2>4. FpInv' /\ MirrorInv'
    BY <1>1, <1>2, <2>2, <2>3 DEF SessionInv, FpInv, MirrorInv
  <2>5. StreamInv'
    BY <1>1, <2>2, <2>3 DEF SessionInv, StreamInv
  <2> QED
    BY <1>2, <1>6, <2>2, <2>3, <2>4, <2>5
<1>12. CASE ~HasBody /\ Reply(Plain(400), rtsp) /\ fp' = fp
  BY <1>1, <1>2, <1>12, PlainKeeps
<1> QED
  BY <1>8, <1>9, <1>10, <1>11, <1>12 DEF HandleFpSetup

\* The three writes: the answer is not out before the last.
LEMMA SetFairplayKeeps == ASSUME SessionInv, SetFairplay PROVE SessionInv'
<1>1. reader.at = "set_fairplay" /\ UNCHANGED <<rtsp, pair, fp, wire, answer, phone>>
  BY DEF SetFairplay
<1>2. /\ rtsp \notin {"free", "TEARDOWN"} /\ phone.ask # None /\ answer = None /\ NoHead /\ ~Answering
      /\ reader.then # "free"
  BY <1>1 DEF SessionInv, TurnInv, Busy, Answering
<1>3. /\ fp.state = "DONE" /\ Asked("fp-setup", "3") /\ reader.reply = Plain(200)
      /\ mirror.key \in {None, fp.aes}
  BY <1>1, <1>2 DEF SessionInv, MirrorInv
<1>4. fp.aes # None
  <2>1. fp.aes \in StreamKeys
    BY <1>3 DEF SessionInv, FpInv, StreamKeys
  <2> QED
    BY <2>1, NoneAssumption
<1>5. MirrorShape' /\ mirror'.key \in {None, fp.aes}
  BY <1>3 DEF SetFairplay, SessionInv, Shape, MirrorShape
<1>6. /\ ReaderShape' /\ reader'.at \in {"set_fairplay", "reply"} /\ reader'.then = reader.then
      /\ reader'.reply = reader.reply
      /\ reader'.at = "reply" => mirror' = [active |-> TRUE, key |-> fp.aes, iv |-> fp.key]
  <2>1. CASE mirror' = [active |-> TRUE, key |-> fp.aes, iv |-> fp.key]
    BY <2>1 DEF SetFairplay, SessionInv, Shape, ReaderShape
  <2>2. CASE mirror' # [active |-> TRUE, key |-> fp.aes, iv |-> fp.key]
    BY <1>1, <2>2 DEF SetFairplay, SessionInv, Shape, ReaderShape
  <2> QED
    BY <2>1, <2>2
<1>7. Shape'
  BY <1>1, <1>5, <1>6 DEF SessionInv, Shape, PairShape, FpShape, PhoneShape
<1>8. TurnInv'
  BY <1>1, <1>2, <1>6 DEF SessionInv, TurnInv, Busy, NoHead
<1>9. FpInv' /\ MirrorInv'
  BY <1>1, <1>3, <1>4, <1>5, <1>6 DEF SessionInv, FpInv, MirrorInv, Asked
<1>10. Given' = reader'.reply \/ ~Answering'
  BY <1>6 DEF Given, Answering, Busy
<1>11. StreamInv'
  BY <1>1, <1>2, <1>3, <1>4, <1>6, <1>10 DEF SessionInv, StreamInv, Asked
<1>12. phone.open => pair.srp = phone.srp /\ pair.session = phone.session
  BY <1>2 DEF SessionInv, KeysInv, Gives
<1>13. KeysInv' /\ SealedInv'
  BY <1>1, <1>3, <1>6, <1>10, <1>12, PlainFields DEF KeysInv, SealedInv, Gives, Asked
<1> QED
  BY <1>7, <1>8, <1>9, <1>11, <1>13 DEF SessionInv

\* The answer passes from the server's hands to the wire.
LEMMA RespondKeeps == ASSUME SessionInv, Respond PROVE SessionInv'
<1>1. reader.at = "reply" /\ UNCHANGED <<pair, fp, mirror, wire, phone>>
  BY DEF Respond
<1>2. phone.ask # None /\ answer = None /\ NoHead /\ rtsp \notin {"free", "TEARDOWN"}
      /\ reader.then # "free"
  BY <1>1 DEF SessionInv, TurnInv, Busy
<1>3. ReaderShape' /\ reader'.at \in {"head", "over"}
  BY DEF Respond, SessionInv, Shape, ReaderShape, Over, Idle
<1>4. Shape'
  BY <1>1, <1>3 DEF SessionInv, Shape, PairShape, FpShape, MirrorShape, PhoneShape
<1>5. NoHead' /\ ~Busy'
  BY <1>1, <1>2, <1>3 DEF NoHead, Busy
<1>6. CASE phone.open /\ answer' = reader.reply /\ rtsp' = reader.then
  <2>1. Answering /\ Answering' /\ Given' = Given /\ Theirs' = Theirs
    BY <1>1, <1>2, <1>3, <1>5, <1>6 DEF Answering, Given, Theirs
  <2>2. TurnInv'
    BY <1>1, <1>2, <1>3, <1>5, <1>6 DEF SessionInv, TurnInv
  <2>3. FpInv' /\ MirrorInv'
    BY <1>1, <1>2, <1>3 DEF SessionInv, FpInv, MirrorInv
  <2>4. StreamInv'
    BY <1>1, <1>3, <2>1 DEF SessionInv, StreamInv, Asked
  <2>5. KeysInv' /\ SealedInv'
    BY <1>1, <2>1 DEF SessionInv, KeysInv, SealedInv, Gives
  <2> QED
    BY <1>4, <2>2, <2>3, <2>4, <2>5 DEF SessionInv
<1>7. CASE ~phone.open /\ rtsp' = rtsp /\ answer' = answer
  <2>1. TurnInv'
    BY <1>1, <1>2, <1>3, <1>5, <1>7 DEF SessionInv, TurnInv
  <2>2. FpInv' /\ MirrorInv'
    BY <1>1, <1>2, <1>3, <1>7 DEF SessionInv, FpInv, MirrorInv
  <2> QED
    BY <1>1, <1>4, <1>7, <2>1, <2>2 DEF SessionInv, StreamInv, KeysInv, SealedInv
<1> QED
  BY <1>6, <1>7 DEF Respond

LEMMA SessionNext == ASSUME SessionInv, [Next]_vars PROVE SessionInv'
<1>1. CASE Phone
  BY <1>1, OpenKeeps, AskKeeps, HangKeeps, HearKeeps DEF Phone
<1>2. CASE Server
  BY <1>2, ReadKeeps, OverKeeps, HandleKeeps, PairKeeps, FairplayKeeps, SetFairplayKeeps,
     RespondKeeps, DestroyKeeps DEF Server
<1>3. CASE UNCHANGED vars
  BY <1>3 DEF vars, SessionInv, Shape, PairShape, FpShape, MirrorShape, ReaderShape, PhoneShape,
     TurnInv, FpInv, MirrorInv, StreamInv, KeysInv, SealedInv, Busy, NoHead, OneHead, Answering,
     Given, Theirs, Gives, Asked
<1> QED
  BY <1>1, <1>2, <1>3 DEF Next

LEMMA SessionSafe == Spec => []SessionInv
<1>1. SessionInv /\ [Next]_vars => SessionInv'
  BY SessionNext
<1> QED
  BY SessionInit, <1>1, PTL DEF Spec

\* Between requests phone and server hold the same secrets.
THEOREM KeysAlwaysAgree == Spec => []KeysAgree
<1>1. SessionInv => KeysAgree
  BY SessionImplies
<1> QED
  BY SessionSafe, <1>1, PTL

THEOREM AnswersAlwaysOpen == Spec => []AnswersOpen
<1>1. SessionInv => AnswersOpen
  BY SessionImplies
<1> QED
  BY SessionSafe, <1>1, PTL

THEOREM StreamKeyOwn == Spec => []OwnStreamKey
<1>1. SessionInv => OwnStreamKey
  BY SessionImplies
<1> QED
  BY SessionSafe, <1>1, PTL

-----------------------------------------------------------------------------
(* The types of a session.  The values its contexts hold are ones that were *)
(* drawn, or derived from ones that were: a request's public value read     *)
(* from its body, in one piece or two, is the one the phone drew.           *)

RtspStates == {"free", "ready", "RECORDING", "TEARDOWN"}
Holding == {"set_fairplay", "reply"}
ThreadRange == /\ rtsp \in RtspStates
               /\ reader.at \in {"head", "body", "dispatch", "set_fairplay", "reply", "over"}
               /\ reader.at \in Holding => reader.then \in RtspStates
PairRange == /\ pair.state \in {"SETUP_M1", "SETUP_M2", "SETUP_DONE", "VERIFY_M2", "VERIFIED"}
             /\ pair.srp \in SrpSecrets \cup {None} /\ pair.session \in SessionKeys \cup {None}
FpRange == fp.key \in ServerValues \cup {None}
MirrorRange == /\ mirror.active \in BOOLEAN /\ mirror.key \in StreamKeys \cup {None}
               /\ mirror.iv \in ServerValues \cup {None}
PhoneRange == phone.open \in BOOLEAN /\ phone.ask \in Requests \cup {None}

SessionRange == ThreadRange /\ PairRange /\ FpRange /\ MirrorRange /\ PhoneRange

LEMMA FpKeys ==
  ASSUME FpInv, FpRange
  PROVE  /\ fp.state \in {"INIT", "STAGE1", "STAGE2", "DONE", "ERROR"}
         /\ fp.aes \in StreamKeys \cup {None}
BY DEF FpInv, FpRange, StreamKeys

LEMMA RangeIsType == ASSUME SessionInv, SessionRange PROVE TypeOK
<1>1. fp.state \in {"INIT", "STAGE1", "STAGE2", "DONE", "ERROR"} /\ fp.aes \in StreamKeys \cup {None}
  BY FpKeys DEF SessionInv, SessionRange
<1>2. /\ pair \in [state : {"SETUP_M1", "SETUP_M2", "SETUP_DONE", "VERIFY_M2", "VERIFIED"},
                   srp : SrpSecrets \cup {None}, session : SessionKeys \cup {None}]
  BY Zenon DEF SessionInv, Shape, PairShape, SessionRange, PairRange
<1>3. /\ fp \in [state : {"INIT", "STAGE1", "STAGE2", "DONE", "ERROR"},
                 key : ServerValues \cup {None}, aes : StreamKeys \cup {None}]
  BY <1>1, Zenon DEF SessionInv, Shape, FpShape, SessionRange, FpRange
<1>4. mirror \in [active : BOOLEAN, key : StreamKeys \cup {None}, iv : ServerValues \cup {None}]
  BY Zenon DEF SessionInv, Shape, MirrorShape, SessionRange, MirrorRange
<1> QED
  BY <1>2, <1>3, <1>4 DEF TypeOK, SessionRange, ThreadRange, PhoneRange, RtspStates

\* A pairing request's value is one the phone draws.
LEMMA RequestValue ==
  ASSUME NEW r \in Requests, r.op \in {"pair-setup", "pair-verify"}, r.value # None
  PROVE  r.value \in ClientValues
BY DEF Requests, Request

LEMMA PairRangeKeeps == ASSUME SessionInv, SessionRange, HandlePair PROVE PairRange'
<1>1. /\ phone.ask \in Requests /\ phone.ask.op \in {"pair-setup", "pair-verify"}
      /\ PairShape /\ PairRange
  BY DEF HandlePair, Dispatching, SessionInv, TurnInv, Busy, SessionRange, PhoneRange, Shape
<1>2. CASE PairSetupM1 /\ phone.ask.op = "pair-setup"
  <2> DEFINE theirs == tlv8_find_reassemble(Items(phone.ask), "public_key")
  <2>0. theirs # <<>>
    BY <1>2, Zenon DEF PairSetupM1
  <2>1. PICK x \in ServerValues :
          pair' = [pair EXCEPT !.state = "SETUP_M2", !.srp = srp_secret(theirs, Long(x))]
    BY <1>2, Zenon DEF PairSetupM1
  <2>2. phone.ask.value # None /\ theirs = Long(phone.ask.value)
    BY <1>2, <2>0, RequestItems
  <2>3. phone.ask.value \in ClientValues
    BY <1>1, <2>2, RequestValue
  <2> HIDE DEF theirs
  <2>4. srp_secret(theirs, Long(x)) \in SrpSecrets
    BY <2>2, <2>3 DEF SrpSecrets
  <2>5. /\ pair'.state = "SETUP_M2" /\ pair'.session = pair.session
        /\ pair'.srp = srp_secret(theirs, Long(x))
    BY <1>1, <2>1 DEF PairShape
  <2> QED
    BY <1>1, <2>4, <2>5 DEF PairRange
<1>3. CASE PairVerifyM1 /\ phone.ask.op = "pair-verify"
  <2> DEFINE theirs == tlv8_find(Items(phone.ask), "public_key")
  <2>0. Len(theirs) = Fragment
    BY <1>3, Zenon DEF PairVerifyM1
  <2>1. PICK x \in ServerValues :
          pair' = [pair EXCEPT !.state = "VERIFY_M2",
                     !.session = hkdf_sha512("control", x25519_dh(theirs, Short(x)))]
    BY <1>3, Zenon DEF PairVerifyM1
  <2>2. phone.ask.value # None
    <3>1. CASE phone.ask.value = None
      <4>1. theirs = <<>> /\ Len(<<>>) = 0
        BY <3>1, RequestItems
      <4> QED
        BY <2>0, <4>1, RoomAssumption
    <3> QED
      BY <3>1
  <2>3. theirs = Short(phone.ask.value) /\ phone.ask.value \in ClientValues
    BY <1>1, <1>3, <2>2, RequestItems, RequestValue
  <2> HIDE DEF theirs
  <2>4. hkdf_sha512("control", x25519_dh(theirs, Short(x))) \in SessionKeys
    BY <2>3 DEF SessionKeys
  <2>5. /\ pair'.state = "VERIFY_M2" /\ pair'.srp = pair.srp
        /\ pair'.session = hkdf_sha512("control", x25519_dh(theirs, Short(x)))
    BY <1>1, <2>1 DEF PairShape
  <2> QED
    BY <1>1, <2>4, <2>5 DEF PairRange
<1>4. CASE PairSetupM3 \/ PairVerifyM3
  <2>1. /\ pair'.state \in {"SETUP_DONE", "VERIFIED"}
        /\ pair'.srp = pair.srp /\ pair'.session = pair.session
    BY <1>1, <1>4 DEF PairSetupM3, PairVerifyM3, PairShape
  <2> QED
    BY <1>1, <2>1 DEF PairRange
<1>5. CASE PairRefused
  BY <1>1, <1>5 DEF PairRefused, PairRange
<1> QED
  BY <1>2, <1>3, <1>4, <1>5 DEF HandlePair, Dispatching

\* A handler that answers at once goes on in the state it was in, or in "ready".
RepliesAtOnce == \E a : Reply(a, rtsp) \/ Reply(a, "ready")

LEMMA PairReplies == ASSUME HandlePair PROVE RepliesAtOnce
<1>1. CASE PairSetupM1
  BY <1>1, Zenon DEF PairSetupM1, RepliesAtOnce
<1>2. CASE PairSetupM3
  BY <1>2, Zenon DEF PairSetupM3, RepliesAtOnce
<1>3. CASE PairVerifyM1
  BY <1>3, Zenon DEF PairVerifyM1, RepliesAtOnce
<1>4. CASE PairVerifyM3
  BY <1>4, Zenon DEF PairVerifyM3, RepliesAtOnce
<1>5. CASE PairRefused
  BY <1>5, Zenon DEF PairRefused, RepliesAtOnce
<1> QED
  BY <1>1, <1>2, <1>3, <1>4, <1>5, Zenon DEF HandlePair

LEMMA FairplayReplies == ASSUME HandleFpSetup PROVE RepliesAtOnce \/ Stage3
<1>1. CASE Stage1
  BY <1>1, Zenon DEF Stage1, RepliesAtOnce
<1>2. CASE Stage2
  BY <1>2, Zenon DEF Stage2, RepliesAtOnce
<1>3. CASE StageRefused
  BY <1>3, Zenon DEF StageRefused, RepliesAtOnce
<1>4. CASE Reply(Plain(400), rtsp)
  BY <1>4, Zenon DEF RepliesAtOnce
<1> QED
  BY <1>1, <1>2, <1>3, <1>4, Zenon DEF HandleFpSetup

LEMMA FairplayKey == ASSUME FpShape, HandleFpSetup PROVE fp'.key \in ServerValues \cup {fp.key}
<1>1. CASE Stage1
  <2>1. PICK x \in ServerValues : fp' = [fp EXCEPT !.state = "STAGE1", !.key = x]
    BY <1>1, Zenon DEF Stage1
  <2> QED
    BY <2>1 DEF FpShape
<1>2. CASE Stage2
  <2>1. fp' = [fp EXCEPT !.state = "STAGE2"]
    BY <1>2, Zenon DEF Stage2
  <2> QED
    BY <2>1 DEF FpShape
<1>3. CASE Stage3
  <2>1. PICK y : fp' = [fp EXCEPT !.state = "DONE", !.aes = y]
    BY <1>3, Zenon DEF Stage3
  <2> QED
    BY <2>1 DEF FpShape
<1>4. CASE StageRefused
  <2>1. fp' = [fp EXCEPT !.state = "ERROR"]
    BY <1>4, Zenon DEF StageRefused
  <2> QED
    BY <2>1 DEF FpShape
<1>5. CASE fp' = fp
  BY <1>5
<1> QED
  BY <1>1, <1>2, <1>3, <1>4, <1>5, Zenon DEF HandleFpSetup

LEMMA ThreadRangeKeeps == ASSUME SessionInv, SessionRange, Server PROVE ThreadRange'
<1>1. /\ ReaderShape /\ ThreadRange
      /\ reader.at \in {"body", "dispatch"} \cup Holding => rtsp \notin {"free", "TEARDOWN"}
  BY DEF SessionInv, Shape, SessionRange, TurnInv, Busy, Holding
<1>2. ASSUME NEW a, NEW st \in RtspStates, Reply(a, st), UNCHANGED rtsp PROVE ThreadRange'
  <2>1. reader'.at = "reply" /\ reader'.then = st
    BY <1>2, ReplyFields
  <2> QED
    BY <1>1, <1>2, <2>1 DEF ThreadRange
<1>3. rtsp \in RtspStates /\ {"ready", "RECORDING", "TEARDOWN"} \subseteq RtspStates
  BY <1>1 DEF ThreadRange, RtspStates
<1>4. CASE ReadHead \/ ReadBody
  <2>1. rtsp' = rtsp
    BY <1>4, Zenon DEF ReadHead, ReadBody
  <2> DEFINE Moved(n, p) == reader' = [reader EXCEPT !.at = p, !.got = n]
  <2>2. \E n : Moved(n, "body") \/ Moved(n, "dispatch")
    <3>1. CASE ReadHead
      <4>1. PICK n : reader' = [reader EXCEPT
                        !.at  = IF Body(phone.ask) \in n..BodyRoom THEN "body" ELSE "dispatch",
                        !.got = n - 1]
        BY <3>1, Zenon DEF ReadHead
      <4>2. Moved(n - 1, "body") \/ Moved(n - 1, "dispatch")
        BY <4>1, Zenon
      <4> QED
        BY <4>2, Zenon
    <3>2. CASE ReadBody
      <4>1. PICK n : reader' = [reader EXCEPT
                        !.got = reader.got + n,
                        !.at  = IF reader.got + n = Body(phone.ask) THEN "dispatch" ELSE "body"]
        BY <3>2, Zenon DEF ReadBody
      <4>2. \/ reader' = [reader EXCEPT !.got = reader.got + n, !.at = "dispatch"]
            \/ reader' = [reader EXCEPT !.got = reader.got + n, !.at = "body"]
        BY <4>1, Zenon
      <4>3. \A m, q : [reader EXCEPT !.got = m, !.at = q] = [reader EXCEPT !.at = q, !.got = m]
        BY <1>1 DEF ReaderShape
      <4>4. Moved(reader.got + n, "body") \/ Moved(reader.got + n, "dispatch")
        BY <4>2, <4>3, Zenon
      <4> QED
        BY <4>4, Zenon
    <3> QED
      BY <1>4, <3>1, <3>2, Zenon
  <2>3. reader'.at \in {"body", "dispatch"}
    BY <1>1, <2>2 DEF ReaderShape
  <2> QED
    BY <1>3, <2>1, <2>3 DEF ThreadRange, Holding
<1>5. CASE ReadRest \/ ReadEnd
  <2>1. reader'.at = "over" /\ rtsp' = rtsp
    BY <1>1, <1>5 DEF ReadRest, ReadEnd, Over, ReaderShape
  <2> QED
    BY <1>3, <2>1 DEF ThreadRange, Holding
<1>6. CASE HandleQuery \/ HandleParameter \/ HandleStream \/ HandleTeardown
  BY <1>2, <1>3, <1>6 DEF HandleQuery, HandleParameter, HandleStream, HandleTeardown
<1>7. CASE HandlePair
  <2>1. UNCHANGED rtsp
    BY <1>7 DEF HandlePair
  <2> QED
    BY <1>2, <1>3, <1>7, <2>1, PairReplies DEF RepliesAtOnce
<1>8. CASE HandleFpSetup
  <2>1. UNCHANGED rtsp
    BY <1>8 DEF HandleFpSetup
  <2>2. CASE Stage3
    <3>1. reader'.at = "set_fairplay" /\ reader'.then = "ready"
      BY <1>1, <2>2 DEF Stage3, ReaderShape
    <3> QED
      BY <1>3, <2>1, <3>1 DEF ThreadRange
  <2> QED
    BY <1>2, <1>3, <1>8, <2>1, <2>2, FairplayReplies DEF RepliesAtOnce
<1>9. CASE SetFairplay
  <2>1. /\ reader'.at \in Holding /\ reader'.then = reader.then /\ reader.at \in Holding
        /\ rtsp' = rtsp
    <3>1. reader.at = "set_fairplay" /\ rtsp' = rtsp
      BY <1>9 DEF SetFairplay
    <3>2. reader' = [reader EXCEPT !.at = "reply"] \/ reader' = reader
      BY <1>9, Zenon DEF SetFairplay
    <3> QED
      BY <1>1, <3>1, <3>2 DEF ReaderShape, Holding
  <2> QED
    BY <1>1, <1>3, <2>1 DEF ThreadRange, Holding
<1>10. CASE Respond
  <2>1. reader.at = "reply" /\ reader'.at \in {"head", "over"} /\ rtsp' \in {rtsp, reader.then}
    BY <1>1, <1>10 DEF Respond, Over, ReaderShape, Idle
  <2> QED
    BY <1>1, <1>3, <2>1 DEF ThreadRange, Holding
<1>11. CASE Finish
  BY <1>3, <1>11 DEF Finish, ThreadRange, Holding
<1>12. CASE Destroy
  BY <1>12 DEF Destroy, ThreadRange, Holding, Idle, RtspStates
<1> QED
  BY <1>4, <1>5, <1>6, <1>7, <1>8, <1>9, <1>10, <1>11, <1>12 DEF Server

LEMMA RangeKeeps == ASSUME SessionInv, SessionRange, [Next]_vars PROVE SessionRange'
<1> USE DEF SessionRange
<1>1. /\ PairShape /\ FpShape /\ MirrorShape /\ PhoneShape
      /\ fp.aes \in StreamKeys \cup {None}
  BY FpKeys DEF SessionInv, Shape
<1>2. CASE Open
  BY <1>2 DEF Open, NoPair, NoFairplay, NoMirror, NoPhone, Idle, ThreadRange, PairRange, FpRange,
     MirrorRange, PhoneRange, RtspStates, Holding
<1>3. CASE \E r \in Requests : Ask(r)
  <2>1. UNCHANGED <<rtsp, pair, fp, mirror, reader>>
    BY <1>3 DEF Ask
  <2>2. PICK r \in Requests : phone' = [phone EXCEPT !.ask = r]
    BY <1>3 DEF Ask
  <2>3. phone'.open = phone.open /\ phone'.ask = r
    BY <1>1, <2>2 DEF PhoneShape
  <2> QED
    BY <2>1, <2>3 DEF ThreadRange, PairRange, FpRange, MirrorRange, PhoneRange
<1>4. CASE Hang \/ Hear
  <2>1. UNCHANGED <<rtsp, pair, fp, mirror, reader>>
    BY <1>4 DEF Hang, Hear
  <2>2. phone'.open \in BOOLEAN /\ phone'.ask \in {phone.ask, None}
    <3>1. CASE Hang
      BY <3>1 DEF Hang, NoPhone
    <3>2. CASE Hear
      BY <1>1, <3>2 DEF Hear, PhoneShape, PhoneRange
    <3> QED
      BY <1>4, <3>1, <3>2
  <2> QED
    BY <2>1, <2>2 DEF ThreadRange, PairRange, FpRange, MirrorRange, PhoneRange
<1>5. CASE Destroy
  <2>1. ThreadRange'
    BY <1>5, ThreadRangeKeeps DEF Server
  <2>2. /\ pair'.state = pair.state /\ pair'.srp = None /\ pair'.session = None
        /\ mirror'.active = mirror.active /\ mirror'.key = None /\ mirror'.iv = None
        /\ fp' = NoFairplay /\ phone' = NoPhone
    BY <1>1, <1>5 DEF Destroy, PairShape, MirrorShape
  <2> QED
    BY <2>1, <2>2 DEF PairRange, FpRange, MirrorRange, PhoneRange, NoFairplay, NoPhone
<1>6. CASE HandlePair
  <2>1. UNCHANGED <<fp, mirror, phone>> /\ ThreadRange' /\ PairRange'
    BY <1>6, ThreadRangeKeeps, PairRangeKeeps DEF Server, HandlePair
  <2> QED
    BY <2>1 DEF FpRange, MirrorRange, PhoneRange
<1>7. CASE HandleFpSetup
  <2>1. UNCHANGED <<pair, mirror, phone>> /\ ThreadRange'
    BY <1>7, ThreadRangeKeeps DEF Server, HandleFpSetup
  <2>2. fp'.key \in ServerValues \cup {fp.key}
    BY <1>1, <1>7, FairplayKey
  <2> QED
    BY <2>1, <2>2 DEF PairRange, FpRange, MirrorRange, PhoneRange
<1>8. CASE SetFairplay
  <2>1. UNCHANGED <<pair, fp, phone>> /\ ThreadRange'
    BY <1>8, ThreadRangeKeeps DEF Server, SetFairplay
  <2>2. \/ mirror' = [mirror EXCEPT !.key = fp.aes]
        \/ mirror' = [mirror EXCEPT !.iv = fp.key]
        \/ mirror' = [mirror EXCEPT !.active = TRUE]
    BY <1>8, Zenon DEF SetFairplay
  <2>3. /\ mirror'.active \in {mirror.active, TRUE} /\ mirror'.key \in {mirror.key, fp.aes}
        /\ mirror'.iv \in {mirror.iv, fp.key}
    BY <1>1, <2>2 DEF MirrorShape
  <2>4. MirrorRange'
    BY <1>1, <2>3 DEF FpRange, MirrorRange
  <2> QED
    BY <2>1, <2>4 DEF PairRange, FpRange, PhoneRange
<1>9. CASE \/ ReadHead \/ ReadBody \/ ReadRest \/ ReadEnd
           \/ HandleQuery \/ HandleParameter \/ HandleStream \/ HandleTeardown
           \/ Respond \/ Finish
  <2>1. ThreadRange'
    BY <1>9, ThreadRangeKeeps DEF Server
  <2>2. CASE ReadHead \/ ReadBody \/ ReadRest \/ ReadEnd \/ Respond \/ Finish
    <3>1. UNCHANGED <<pair, fp, mirror, phone>>
      BY <2>2, Zenon DEF ReadHead, ReadBody, ReadRest, ReadEnd, Respond, Finish
    <3> QED
      BY <2>1, <3>1 DEF PairRange, FpRange, MirrorRange, PhoneRange
  <2>3. CASE HandleQuery \/ HandleParameter \/ HandleStream \/ HandleTeardown
    BY <2>1, <2>3 DEF HandleQuery, HandleParameter, HandleStream, HandleTeardown,
       PairRange, FpRange, MirrorRange, PhoneRange
  <2> QED
    BY <1>9, <2>2, <2>3
<1>10. CASE UNCHANGED vars
  BY <1>10 DEF vars, ThreadRange, PairRange, FpRange, MirrorRange, PhoneRange
<1> QED
  BY <1>2, <1>3, <1>4, <1>5, <1>6, <1>7, <1>8, <1>9, <1>10 DEF Next, Phone, Server

\* The type of the state: the secrets, keys and vectors a session holds are ones
\* the two ends drew, or derived from them, whatever the phone asks in whatever
\* order and however its bytes are cut (rtsp_session_handle, pair_setup_process,
\* pair_verify_process, fairplay_process).
THEOREM SessionTypes == Spec => []TypeOK
<1>1. Init => SessionRange
  BY DEF Init, NoPair, NoFairplay, NoMirror, NoPhone, Idle, SessionRange, ThreadRange, PairRange,
     FpRange, MirrorRange, PhoneRange, RtspStates, Holding
<1>2. SessionInv /\ SessionRange /\ [Next]_vars => SessionInv' /\ SessionRange'
  BY SessionNext, RangeKeeps
<1>3. SessionInv /\ SessionRange => TypeOK
  BY RangeIsType
<1> QED
  BY SessionInit, <1>1, <1>2, <1>3, PTL DEF Spec

-----------------------------------------------------------------------------
(* The AirPlay server: its acceptor, the two threads of every slot and the stop. *)

\* Nothing more comes from the RTSP listener, and nothing is to be placed.
Closing == ~rtspOpen /\ rtspQueue = <<>>
NoMore == Closing /\ acceptor.at # "place"

\* The stop has seen the slot, and gone on.
Passed(s) == \/ stop.at \in {"slots", "join"} /\ s < stop.slot
             \/ stop.at \in {"lock", "clean", "done"}

ConnType == /\ conn \in [Conns -> {"none", "up", "gone"}] /\ calls \in Nat
            /\ rtspQueue \in Seq(Conns) /\ mirrorQueue \in Seq(Conns)
            /\ zero \in Descriptors \cup {Stdin} /\ isZero \subseteq Conns
SlotType == /\ slot \in [Slots -> [active : BOOLEAN, rtsp : Descriptors, mirror : Descriptors]]
            /\ fd \in [Slots -> Descriptors] /\ mirrorFd \in [Slots -> Descriptors]
ThreadType == /\ rtspAt \in [Slots -> {"none", "init", "serving", "recording", "joining", "leaving",
                                       "cleanup"}]
              /\ mirrorAt \in [Slots -> {"none", "lock", "accept", "streaming", "returned"}]
LockType == /\ sessionsLock \in Slots \cup {Unlocked, Stopper}
            /\ cleaning \in [slot : 0 .. MaxSessions, step : 0 .. 2]
OthersType == /\ acceptor \in [at : {"off", "accept", "place", "spawn", "done"},
                               conn : Descriptors, slot : 0 .. MaxSessions]
              /\ stop \in [at : {"no", "rtsp", "mirror", "slots", "join", "lock", "clean", "done",
                                 "crashed", "exited"},
                           slot : 0 .. MaxSessions + 1]
ServerType == /\ MaxSessions \in Nat \ {0} /\ MaxCalls \in Nat
              /\ ConnType /\ SlotType /\ ThreadType /\ LockType /\ OthersType

LEMMA Distinct == NoOne \notin Conns /\ Stdin \notin Conns /\ NoOne # Stdin
BY DEF NoOne, Conns, Stdin

\* What the phones do.
LEMMA PhoneTypes == ASSUME ServerType, Phones PROVE ServerType'
<1> USE DEF ServerType
<1>1. CASE Dial
  <2>1. Rtsp(calls + 1) \in Conns
    BY <1>1 DEF Dial, Rtsp, Conns, Calls, ConnType
  <2>2. ConnType'
    BY <1>1, <2>1 DEF Dial, ConnType, serverVars, numVars
  <2> QED
    BY <1>1, <2>2 DEF Dial, SlotType, ThreadType, LockType, OthersType, serverVars,
       numVars, slotVars,
       threadVars, lockVars
<1>2. ASSUME NEW c \in Calls, OpenMirror(c) PROVE ServerType'
  <2>1. Mirror(c) \in Conns
    BY DEF Mirror, Conns
  <2>2. ConnType'
    BY <1>2, <2>1 DEF OpenMirror, ConnType, serverVars, numVars
  <2> QED
    BY <1>2, <2>2 DEF OpenMirror, SlotType, ThreadType, LockType, OthersType, serverVars,
       numVars,
       slotVars, threadVars, lockVars
<1>3. ASSUME NEW k, HangUp(k) PROVE ServerType'
  <2>2. ConnType'
    BY <1>3 DEF HangUp, ConnType, serverVars, numVars
  <2> QED
    BY <1>3, <2>2 DEF HangUp, SlotType, ThreadType, LockType, OthersType, serverVars,
       numVars,
       slotVars, threadVars, lockVars
<1> QED
  BY <1>1, <1>2, <1>3 DEF Phones

\* What is closed is gone, whatever its number denotes now; nothing else changes.
Drops == /\ conn' \in [Conns -> {"none", "up", "gone"}]
         /\ \A k \in Conns : conn'[k] = conn[k] \/ (conn[k] = "up" /\ conn'[k] = "gone")
LEMMA ClosedIs ==
  ASSUME ConnType, NEW ks, conn' = Closed(ks)
  PROVE  Drops /\ \A k \in ks \cap Conns : conn'[k] # "up"
BY DEF ConnType, Closed, Drops

ZeroInv == \A k \in isZero : conn[k] # "none" /\ (conn[k] = "up" => zero = k)

LEMMA CloseIs ==
  ASSUME ConnType, ZeroInv, NEW ks, NEW also \in BOOLEAN, Close(ks, also), isZero' = isZero
  PROVE  /\ Drops /\ ZeroInv' /\ zero' \in Descriptors \cup {Stdin}
         /\ \A k \in ks \cap Conns : conn'[k] # "up"
<1> DEFINE too == also \/ ks \cap isZero # {}
           all == {Denotes(k) : k \in ks} \cup (IF too THEN {zero} ELSE {})
<1>1. conn' = Closed(all) /\ zero' = IF too THEN NoOne ELSE zero
  BY DEF Close
<1>2. ASSUME NEW k \in ks \cap Conns, conn[k] = "up" PROVE k \in all
  <2>1. CASE k \in isZero
    BY <1>2, <2>1 DEF ZeroInv
  <2>2. CASE k \notin isZero
    BY <2>2 DEF Denotes
  <2> QED
    BY <2>1, <2>2
<1>3. too => zero \in all
  OBVIOUS
<1> HIDE DEF all
<1>4. Drops /\ \A k \in all \cap Conns : conn'[k] # "up"
  BY <1>1, ClosedIs
<1>5. \A k \in ks \cap Conns : conn'[k] # "up"
  BY <1>2, <1>4 DEF Drops
<1>6. ZeroInv'
  <2> SUFFICES ASSUME NEW k \in isZero PROVE conn'[k] # "none" /\ (conn'[k] = "up" => zero' = k)
    BY DEF ZeroInv
  <2>1. k \in Conns /\ conn[k] # "none" /\ (conn[k] = "up" => zero = k)
    BY DEF ConnType, ZeroInv
  <2>2. conn'[k] # "none" /\ (conn'[k] = "up" => conn[k] = "up")
    BY <1>4, <2>1 DEF Drops
  <2>3. conn'[k] = "up" => ~too
    BY <1>3, <1>4, <2>1, <2>2
  <2> QED
    BY <1>1, <2>1, <2>2, <2>3
<1> QED
  BY <1>1, <1>4, <1>5, <1>6 DEF ConnType, Descriptors

LEMMA NumberIs ==
  ASSUME ConnType, ZeroInv, NEW k \in Conns, conn[k] # "none", NumberFor(k), conn' = conn
  PROVE  zero' \in Descriptors \cup {Stdin} /\ isZero' \subseteq Conns /\ ZeroInv'
<1>1. CASE zero = NoOne
  <2>1. zero' = k /\ isZero' = isZero \cup {k}
    BY <1>1 DEF NumberFor
  <2>2. \A j \in isZero : conn[j] # "none" /\ conn[j] # "up"
    BY <1>1, Distinct DEF ConnType, ZeroInv
  <2> QED
    BY <2>1, <2>2 DEF ConnType, ZeroInv, Descriptors
<1>2. CASE zero # NoOne
  BY <1>2 DEF NumberFor, ConnType, ZeroInv
<1> QED
  BY <1>1, <1>2

\* One slot, its two threads and what the stop has made of it.
SlotInv(s) ==
  /\ mirrorAt[s] # "none" => rtspAt[s] \in {"serving", "recording", "joining"}
  /\ ~slot[s].active => slot[s].rtsp = NoOne /\ (rtspAt[s] = "none" \/ NoMore)
  /\ slot[s].active /\ rtspAt[s] = "none" => acceptor.at = "spawn" /\ acceptor.slot = s
  /\ Passed(s) => NoMore \/ (~slot[s].active /\ rtspAt[s] = "none")
  /\ rtspAt[s] = "cleanup" => sessionsLock = s
FdInv(s) ==
  /\ slot[s].rtsp # NoOne => conn[slot[s].rtsp] # "none"
  /\ rtspAt[s] \in {"none", "init"} => fd[s] = NoOne
  /\ rtspAt[s] \notin {"none", "init"} =>
       fd[s] \in {NoOne, slot[s].rtsp} \/ conn[fd[s]] = "gone"

ThreadInv == \A s \in Slots : SlotInv(s)
FdsInv == \A s \in Slots : FdInv(s)

StopInv == /\ stop.at \notin {"no", "rtsp"} => ~rtspOpen /\ rtspQueue = <<>>
           /\ stop.at = "join" => stop.slot \in Slots
           /\ stop.at = "slots" => stop.slot >= 1

LockInv == /\ sessionsLock = Stopper <=> stop.at = "clean"
           /\ sessionsLock \in Slots =>
                cleaning.slot = sessionsLock /\ rtspAt[sessionsLock] = "cleanup"
           /\ sessionsLock = Unlocked => cleaning.slot = 0
           /\ cleaning.slot = 0 <=> cleaning.step = 0
           /\ sessionsLock = Stopper /\ cleaning.slot # 0 => slot[cleaning.slot].active

AcceptorInv ==
  /\ starter # "up" => acceptor.at = "off"
  /\ acceptor.at \in {"off", "accept", "done"} => acceptor.conn = NoOne
  /\ acceptor.at \in {"place", "spawn"} =>
       acceptor.conn \in Conns /\ conn[acceptor.conn] # "none"
  /\ acceptor.at = "spawn" => /\ acceptor.slot \in Slots /\ rtspAt[acceptor.slot] = "none"
                              /\ \/ slot[acceptor.slot].rtsp = acceptor.conn
                                 \/ conn[acceptor.conn] = "gone"
                              /\ slot[acceptor.slot].active \/ Closing

QueueInv ==
  /\ \A c \in Calls : c > calls => conn[Rtsp(c)] = "none"
  /\ \A i \in 1 .. Len(rtspQueue) : conn[rtspQueue[i]] # "none"
  /\ \A i \in 1 .. Len(mirrorQueue) : conn[mirrorQueue[i]] # "none"

ServerInv == /\ ServerType /\ ZeroInv /\ QueueInv /\ ThreadInv /\ FdsInv
             /\ StopInv /\ LockInv /\ AcceptorInv /\ NothingLeaks

LEMMA SlotsAre == ASSUME ServerType
  PROVE  Slots \subseteq Nat /\ 0 \notin Slots /\ Stopper \notin Slots
                                      /\ Unlocked \notin Slots /\ Stopper # Unlocked
BY DEF ServerType, Slots, Stopper, Unlocked

\* Where a connection is kept that may not be lost.
Kept(k) ==
  \/ \E i \in 1 .. Len(rtspQueue) : rtspQueue[i] = k
  \/ \E i \in 1 .. Len(mirrorQueue) : mirrorQueue[i] = k
  \/ acceptor.conn = k
  \/ \E s \in Slots : slot[s].rtsp = k \/ (rtspAt[s] # "none" /\ fd[s] = k)
  \/ \E s \in Slots : mirrorAt[s] = "streaming" /\ mirrorFd[s] = k

LEMMA LeakIs == NothingLeaks <=> \A k \in Conns : conn[k] = "up" => Kept(k)
BY DEF NothingLeaks, Kept

-----------------------------------------------------------------------------
\* A session's threads go on, with no descriptor opened or closed.
SessionMoves(s) == \/ Record(s) \/ Disconnected(s) \/ Teardown(s) \/ JoinMirror(s)
                   \/ LockAccept(s) \/ AcceptMirrorFails(s) \/ Leave(s)

LEMMA MovesTo ==
  ASSUME ServerInv, NEW s \in Slots, SessionMoves(s)
  PROVE  /\ UNCHANGED <<phoneVars, serverVars, numVars, slotVars, acceptor>>
         /\ \E r \in {"serving", "recording", "joining", "leaving", "cleanup"},
               m \in {"none", "accept", "streaming", "returned", mirrorAt[s]} :
              /\ rtspAt' = [rtspAt EXCEPT ![s] = r] /\ mirrorAt' = [mirrorAt EXCEPT ![s] = m]
              /\ m # "none" => r \in {"serving", "recording", "joining"}
              /\ mirrorAt[s] = "streaming" => m = "streaming"
              /\ rtspAt[s] \notin {"none", "init", "cleanup"}
              /\ \/ r # "cleanup" /\ UNCHANGED <<sessionsLock, cleaning>>
                 \/ /\ r = "cleanup" /\ sessionsLock = Unlocked /\ sessionsLock' = s
                    /\ cleaning' = [slot |-> s, step |-> 1]
<1> DEFINE To(r, m) ==
      /\ rtspAt' = [rtspAt EXCEPT ![s] = r] /\ mirrorAt' = [mirrorAt EXCEPT ![s] = m]
      /\ UNCHANGED <<phoneVars, serverVars, numVars, slotVars, acceptor>>
<1>1. /\ rtspAt = [rtspAt EXCEPT ![s] = rtspAt[s]] /\ mirrorAt = [mirrorAt EXCEPT ![s] = mirrorAt[s]]
  BY DEF ServerInv, ServerType, ThreadType
<1>2. mirrorAt[s] # "none" => rtspAt[s] \in {"serving", "recording", "joining"}
  BY DEF ServerInv, ThreadInv, SlotInv
<1>3. CASE Record(s)
  <2>1. To("recording", mirrorAt[s]) /\ rtspAt[s] = "serving" /\ UNCHANGED <<sessionsLock,
                                                                             cleaning>>
    BY <1>1, <1>3 DEF Record, lockVars
  <2> QED
    BY <2>1
<1>4. CASE Disconnected(s) \/ Teardown(s)
  <2>1. /\ To("joining", mirrorAt[s]) /\ rtspAt[s] \in {"serving", "recording"}
        /\ UNCHANGED <<sessionsLock, cleaning>>
    BY <1>1, <1>4 DEF Disconnected, Teardown, EndSession, lockVars
  <2> QED
    BY <2>1
<1>5. CASE JoinMirror(s)
  <2>1. /\ To("leaving", "none") /\ rtspAt[s] = "joining" /\ mirrorAt[s] = "returned"
        /\ UNCHANGED <<sessionsLock, cleaning>>
    BY <1>5 DEF JoinMirror, lockVars
  <2> QED
    BY <2>1
<1>6. CASE LockAccept(s)
  <2>1. /\ To(rtspAt[s], "accept") /\ mirrorAt[s] = "lock" /\ UNCHANGED <<sessionsLock, cleaning>>
    BY <1>1, <1>6 DEF LockAccept, lockVars
  <2> QED
    BY <1>2, <2>1
<1>7. CASE AcceptMirrorFails(s)
  <2>1. /\ To(rtspAt[s], "returned") /\ mirrorAt[s] = "accept" /\ UNCHANGED <<sessionsLock,
                                                                              cleaning>>
    BY <1>1, <1>7 DEF AcceptMirrorFails, lockVars
  <2> QED
    BY <1>2, <2>1
<1>8. CASE Leave(s)
  <2>1. /\ To("cleanup", mirrorAt[s]) /\ rtspAt[s] = "leaving" /\ sessionsLock = Unlocked
        /\ sessionsLock' = s /\ cleaning' = [slot |-> s, step |-> 1]
    BY <1>1, <1>8 DEF Leave
  <2>2. mirrorAt[s] = "none"
    BY <1>2, <2>1
  <2> QED
    BY <2>1, <2>2
<1> QED
  BY <1>3, <1>4, <1>5, <1>6, <1>7, <1>8 DEF SessionMoves

LEMMA SessionMovesKeep == ASSUME ServerInv, NEW s \in Slots, SessionMoves(s) PROVE ServerInv'
<1>1. UNCHANGED <<phoneVars, serverVars, numVars, slotVars, acceptor>>
  BY MovesTo
<1>2. PICK r \in {"serving", "recording", "joining", "leaving", "cleanup"},
           m \in {"none", "accept", "streaming", "returned", mirrorAt[s]} :
              /\ rtspAt' = [rtspAt EXCEPT ![s] = r] /\ mirrorAt' = [mirrorAt EXCEPT ![s] = m]
              /\ m # "none" => r \in {"serving", "recording", "joining"}
              /\ mirrorAt[s] = "streaming" => m = "streaming"
              /\ rtspAt[s] \notin {"none", "init", "cleanup"}
              /\ \/ r # "cleanup" /\ UNCHANGED <<sessionsLock, cleaning>>
                 \/ /\ r = "cleanup" /\ sessionsLock = Unlocked /\ sessionsLock' = s
                    /\ cleaning' = [slot |-> s, step |-> 1]
  BY MovesTo
<1>3. ServerType' /\ ZeroInv' /\ QueueInv' /\ StopInv'
  <2>1. ThreadType'
    BY <1>2 DEF ServerInv, ServerType, ThreadType
  <2>2. LockType'
    BY <1>2 DEF ServerInv, ServerType, LockType, Slots
  <2>3. ConnType' /\ SlotType' /\ OthersType'
    BY <1>1 DEF ServerInv, ServerType, ConnType, SlotType, OthersType, phoneVars, serverVars,
       numVars,
       slotVars
  <2> QED
    BY <1>1, <2>1, <2>2, <2>3 DEF ServerInv, ServerType, ZeroInv, QueueInv, StopInv, phoneVars,
       serverVars, numVars
<1>4. \A t \in Slots : /\ rtspAt'[t] = IF t = s THEN r ELSE rtspAt[t]
                       /\ mirrorAt'[t] = IF t = s THEN m ELSE mirrorAt[t]
  BY <1>2 DEF ServerInv, ServerType, ThreadType
<1>5. ThreadInv'
  <2> SUFFICES ASSUME NEW t \in Slots PROVE SlotInv(t)'
    BY DEF ThreadInv
  <2>1. SlotInv(t)
    BY DEF ServerInv, ThreadInv
  <2>2. rtspAt[t] = "cleanup" /\ t # s => sessionsLock' = sessionsLock
    BY <1>2, <2>1, SlotsAre DEF ServerInv, SlotInv
  <2> QED
    BY <1>1, <1>2, <1>4, <2>1, <2>2 DEF SlotInv, NoMore, Closing, Passed, phoneVars,
       serverVars, slotVars
<1>6. FdsInv'
  BY <1>1, <1>2, <1>4 DEF ServerInv, FdsInv, FdInv, phoneVars, slotVars
<1>7. LockInv'
  <2>1. CASE r # "cleanup"
    BY <1>1, <1>2, <1>4, <2>1 DEF ServerInv, LockInv, serverVars, slotVars
  <2>2. CASE r = "cleanup"
    BY <1>1, <1>2, <1>4, <2>2, SlotsAre DEF ServerInv, LockInv, serverVars, slotVars
  <2> QED
    BY <2>1, <2>2
<1>8. AcceptorInv'
  BY <1>1, <1>2, <1>4 DEF ServerInv, AcceptorInv, phoneVars, slotVars, serverVars, Closing
<1>9. NothingLeaks'
  <2>1. ASSUME NEW k, Kept(k) PROVE Kept(k)'
    BY <1>1, <1>2, <1>4, <2>1 DEF Kept, phoneVars, slotVars
  <2> QED
    BY <1>1, <2>1, LeakIs DEF ServerInv, phoneVars, NothingLeaks, Kept
<1> QED
  BY <1>3, <1>5, <1>6, <1>7, <1>8, <1>9 DEF ServerInv

-----------------------------------------------------------------------------
\* The start and the stop go on, with no descriptor opened or closed.
StopMoves == \/ Start \/ StopBegins \/ StopJoins \/ StopLocks \/ StopCleans \/ StopEnds \/ Exit

LEMMA StopMovesTo ==
  ASSUME ServerInv, StopMoves
  PROVE  /\ UNCHANGED <<phoneVars, rtspOpen, mirrorOpen, numVars, slotVars,
                        threadVars, acceptor>>
         /\ \/ /\ stop' = stop /\ UNCHANGED <<sessionsLock, cleaning>>
            \/ stop.at = "no" /\ stop' = [at |-> "rtsp", slot |-> 0] /\ UNCHANGED <<sessionsLock,
                                                                                    cleaning>>
            \/ stop.at # "clean" /\ stop'.at \in {"crashed", "exited"} /\ stop'.slot = 0
               /\ stop' = [at |-> stop'.at, slot |-> 0] /\ stop.at \notin {"no", "rtsp"}
               /\ UNCHANGED <<sessionsLock, cleaning>>
            \/ /\ stop.at = "join" /\ ~slot[stop.slot].active /\ rtspAt[stop.slot] = "none"
               /\ stop' = [at |-> "slots", slot |-> stop.slot + 1] /\ UNCHANGED <<sessionsLock,
                                                                                  cleaning>>
            \/ /\ stop.at = "slots" /\ stop.slot \notin Slots /\ sessionsLock = Unlocked
               /\ stop' = [at |-> "clean", slot |-> 1] /\ sessionsLock' = Stopper /\ cleaning' = cleaning
            \/ /\ stop.at = "clean" /\ cleaning.slot = 0 /\ stop.slot \in Slots
               /\ slot[stop.slot].active /\ cleaning' = [slot |-> stop.slot, step |-> 1]
               /\ stop' = stop /\ sessionsLock' = sessionsLock
            \/ /\ stop.at = "clean" /\ stop.slot \in Slots
               /\ stop' = [at |-> "clean", slot |-> stop.slot + 1] /\ UNCHANGED <<sessionsLock,
                                                                                  cleaning>>
            \/ /\ stop.at = "clean" /\ cleaning.slot = 0
               /\ stop' = [at |-> "done", slot |-> 0] /\ sessionsLock' = Unlocked /\ cleaning' = cleaning
<1>1. CASE Start
  BY <1>1 DEF Start, lockVars
<1>2. CASE StopBegins
  BY <1>2 DEF StopBegins, StopGoes, lockVars
<1>3. CASE StopJoins
  <2>1. stop.at = "join" /\ stop.slot \in Slots
    BY <1>3 DEF StopJoins, ServerInv, StopInv
  <2>2. slot[stop.slot].active /\ rtspAt[stop.slot] = "none" =>
          acceptor.at = "spawn" /\ acceptor.slot = stop.slot
    BY <2>1 DEF ServerInv, ThreadInv, SlotInv
  <2> QED
    BY <1>3, <2>1, <2>2 DEF StopJoins, StopGoes, lockVars
<1>4. CASE StopLocks
  BY <1>4 DEF StopLocks, StopGoes
<1>5. CASE StopCleans
  BY <1>5 DEF StopCleans, StopGoes
<1>6. CASE StopEnds
  BY <1>6 DEF StopEnds, StopGoes
<1>7. CASE Exit
  BY <1>7 DEF Exit, StopGoes, lockVars
<1> QED
  BY <1>1, <1>2, <1>3, <1>4, <1>5, <1>6, <1>7 DEF StopMoves

LEMMA StopMovesKeep == ASSUME ServerInv, StopMoves PROVE ServerInv'
<1>1. UNCHANGED <<phoneVars, rtspOpen, mirrorOpen, numVars, slotVars, threadVars,
                  acceptor>>
  BY StopMovesTo
<1>2. LockType' /\ OthersType'
  <2>1. sessionsLock' \in Slots \cup {Unlocked, Stopper}
    BY StopMovesTo DEF ServerInv, ServerType, LockType
  <2>2. cleaning' \in [slot : 0 .. MaxSessions, step : 0 .. 2]
    BY StopMovesTo DEF ServerInv, ServerType, LockType, Slots
  <2>3. stop' \in [at : {"no", "rtsp", "mirror", "slots", "join", "lock", "clean", "done",
                        "crashed", "exited"},
                   slot : 0 .. MaxSessions + 1]
    <3>1. stop.at = "join" => stop.slot \in Slots
      BY DEF ServerInv, StopInv
    <3> QED
      BY <3>1, StopMovesTo DEF ServerInv, ServerType, OthersType, Slots
  <2> QED
    BY <1>1, <2>1, <2>2, <2>3 DEF ServerInv, ServerType, LockType, OthersType
<1>3. ServerType' /\ ZeroInv' /\ QueueInv' /\ FdsInv'
  BY <1>1, <1>2 DEF ServerInv, ServerType, ConnType, SlotType, ThreadType, ZeroInv, QueueInv, FdsInv,
     FdInv, phoneVars, numVars, slotVars, threadVars
<1>8. AcceptorInv'
  <2>1. starter' # "up" => starter # "up"
    BY DEF StopMoves, Start, StopBegins, StopJoins, StopLocks, StopCleans,
       StopEnds, Exit
  <2> QED
    BY <1>1, <2>1 DEF ServerInv, AcceptorInv, phoneVars, slotVars, threadVars, Closing
<1>4. StopInv'
  BY <1>1, StopMovesTo DEF ServerInv, StopInv, ServerType, OthersType, Slots, phoneVars
<1>5. LockInv'
  BY <1>1, StopMovesTo, SlotsAre DEF ServerInv, LockInv, slotVars, threadVars
<1>6. ThreadInv'
  <2> SUFFICES ASSUME NEW s \in Slots PROVE SlotInv(s)'
    BY DEF ThreadInv
  <2>1. SlotInv(s) /\ NoMore' = NoMore
    BY <1>1 DEF ServerInv, ThreadInv, NoMore, Closing, phoneVars
  <2>2. Passed(s)' => Passed(s) \/ (~slot[s].active /\ rtspAt[s] = "none")
    <3>1. stop.slot \in Nat /\ s \in Nat /\ s <= MaxSessions /\ MaxSessions \in Nat
      BY DEF ServerInv, ServerType, OthersType, Slots
    <3>2. stop.at = "slots" /\ stop.slot \notin Slots => s < stop.slot
      BY <3>1 DEF ServerInv, StopInv, Slots
    <3> QED
      BY <3>1, <3>2, StopMovesTo DEF Passed
  <2>3. rtspAt[s] = "cleanup" => sessionsLock' = s
    BY <2>1, StopMovesTo, SlotsAre DEF SlotInv, ServerInv, LockInv
  <2> QED
    BY <1>1, <2>1, <2>2, <2>3 DEF SlotInv, slotVars, threadVars
<1>7. NothingLeaks'
  BY <1>1 DEF ServerInv, NothingLeaks, phoneVars, slotVars, threadVars
<1> QED
  BY <1>3, <1>4, <1>5, <1>6, <1>7, <1>8 DEF ServerInv

\* The acceptor starts, or finds its listener closed.
LEMMA AcceptorMovesKeep == ASSUME ServerInv, StartAccepting \/ AcceptFails PROVE ServerInv'
<1>1. /\ UNCHANGED <<phoneVars, rtspOpen, stop, numVars, slotVars, threadVars,
                     lockVars>>
      /\ acceptor'.at \in {"accept", "done"} /\ acceptor'.conn = NoOne
      /\ acceptor' = [at |-> acceptor'.at, conn |-> NoOne, slot |-> 0]
  BY DEF StartAccepting, AcceptFails, Again, serverVars
<1>2. acceptor.at \in {"off", "accept"} /\ acceptor.conn = NoOne
  BY DEF StartAccepting, AcceptFails, ServerInv, AcceptorInv
<1>3. OthersType'
  BY <1>1 DEF ServerInv, ServerType, OthersType, Descriptors
<1>4. ServerType' /\ ZeroInv' /\ QueueInv' /\ FdsInv' /\ StopInv' /\ LockInv'
  BY <1>1, <1>3 DEF ServerInv, ServerType, ConnType, SlotType, ThreadType, LockType, ZeroInv, QueueInv,
     FdsInv, FdInv, StopInv, LockInv, phoneVars, numVars, slotVars, threadVars,
     lockVars
<1>5. AcceptorInv'
  BY <1>1, <1>2 DEF StartAccepting, AcceptFails, ServerInv, AcceptorInv, serverVars
<1>6. ThreadInv'
  BY <1>1, <1>2 DEF ServerInv, ThreadInv, SlotInv, NoMore, Closing, Passed, phoneVars,
     slotVars, threadVars,
     lockVars
<1>7. NothingLeaks'
  <2>1. ASSUME NEW k \in Conns, Kept(k) PROVE Kept(k)'
    BY <1>1, <1>2, <2>1, Distinct DEF Kept, phoneVars, slotVars, threadVars
  <2> QED
    BY <1>1, <2>1 DEF ServerInv, phoneVars, NothingLeaks, Kept
<1> QED
  BY <1>4, <1>5, <1>6, <1>7 DEF ServerInv

-----------------------------------------------------------------------------
(* Connections come and go.                                                 *)

\* What a step may do to a connection.
Later == \A k \in Conns : /\ conn[k] # "none" => conn'[k] # "none"
                          /\ conn[k] = "gone" => conn'[k] = "gone"

LEMMA DropsLater == ASSUME Drops PROVE Later
BY DEF Drops, Later

\* The threads and the acceptor keep what they have.
LEMMA LaterKeeps ==
  ASSUME ServerInv, Later, UNCHANGED <<starter, slot, fd, rtspAt, mirrorAt, sessionsLock,
                                       acceptor>>,
         Closing => Closing',
         \A s \in Slots : Passed(s)' => Passed(s) \/ NoMore \/ (~slot[s].active /\ rtspAt[s] = "none")
  PROVE  ThreadInv' /\ FdsInv' /\ AcceptorInv'
<1>1. ThreadInv'
  BY DEF ServerInv, ThreadInv, SlotInv, NoMore
<1>2. FdsInv'
  <2> SUFFICES ASSUME NEW s \in Slots PROVE FdInv(s)'
    BY DEF FdsInv
  <2>1. FdInv(s) /\ slot[s].rtsp \in Descriptors /\ fd[s] \in Descriptors
    BY DEF ServerInv, FdsInv, ServerType, SlotType
  <2>2. slot[s].rtsp # NoOne => conn'[slot[s].rtsp] # "none"
    BY <2>1 DEF FdInv, Later, Descriptors
  <2>3. fd[s] # NoOne /\ conn[fd[s]] = "gone" => conn'[fd[s]] = "gone"
    BY <2>1 DEF Later, Descriptors
  <2> QED
    BY <2>1, <2>2, <2>3 DEF FdInv
<1>3. AcceptorInv'
  BY DEF ServerInv, AcceptorInv, Later
<1> QED
  BY <1>1, <1>2, <1>3

LEMMA DialKeeps == ASSUME ServerInv, Dial PROVE ServerInv'
<1>12. PICK new : new = Rtsp(calls + 1)
  OBVIOUS
<1>1. /\ conn' = [conn EXCEPT ![new] = "up"] /\ rtspQueue' = Append(rtspQueue, new)
      /\ calls' = calls + 1 /\ calls < MaxCalls /\ rtspOpen
      /\ UNCHANGED <<mirrorQueue, serverVars, numVars, slotVars, threadVars,
                     lockVars, acceptor>>
  BY <1>12 DEF Dial
<1>2. calls + 1 \in Calls /\ calls \in Nat /\ new \in Conns /\ conn[new] = "none"
  <2>1. calls + 1 \in Calls /\ calls \in Nat /\ calls + 1 > calls
    BY <1>1 DEF ServerInv, ServerType, ConnType, Calls
  <2>2. new \in Conns
    BY <1>12, <2>1 DEF Rtsp, Conns
  <2> QED
    BY <1>12, <2>1, <2>2 DEF ServerInv, QueueInv
<1>3. \A c \in Calls : c > calls + 1 => Rtsp(c) # new /\ Rtsp(c) \in Conns
  BY <1>2, <1>12 DEF Rtsp, Conns, Calls
<1>4. /\ conn'[new] = "up" /\ \A k \in Conns : k # new => conn'[k] = conn[k]
  BY <1>1, <1>2 DEF ServerInv, ServerType, ConnType
<1>5. ServerType'
  BY PhoneTypes DEF Phones, ServerInv
<1>6. ZeroInv'
  BY <1>1, <1>2, <1>4 DEF ServerInv, ZeroInv, ServerType, ConnType, numVars
<1>7. QueueInv'
  <2>1. \A c \in Calls : c > calls' => conn'[Rtsp(c)] = "none"
    BY <1>1, <1>2, <1>3, <1>4 DEF ServerInv, QueueInv, Calls
  <2>2. \A i \in 1 .. Len(mirrorQueue') : conn'[mirrorQueue'[i]] # "none"
    BY <1>1, <1>4 DEF ServerInv, QueueInv, ServerType, ConnType
  <2>3. ASSUME NEW i \in 1 .. Len(rtspQueue') PROVE conn'[rtspQueue'[i]] # "none"
    <3>1. rtspQueue \in Seq(Conns) /\ \A j \in 1 .. Len(rtspQueue) : conn[rtspQueue[j]] # "none"
      BY DEF ServerInv, QueueInv, ServerType, ConnType
    <3>2. (i \in 1 .. Len(rtspQueue) /\ rtspQueue'[i] = rtspQueue[i]) \/ rtspQueue'[i] = new
      BY <1>1, <3>1
    <3> QED
      BY <1>2, <1>4, <3>1, <3>2
  <2> QED
    BY <2>1, <2>2, <2>3 DEF QueueInv
<1>8. StopInv'
  BY <1>1 DEF ServerInv, StopInv, serverVars
<1>11. LockInv'
  BY <1>1 DEF ServerInv, LockInv, serverVars, slotVars, threadVars, lockVars
<1>9. ThreadInv' /\ FdsInv' /\ AcceptorInv'
  <2>1. Later
    BY <1>2, <1>4 DEF Later
  <2>2. Closing' = Closing /\ \A s : Passed(s)' = Passed(s)
    BY <1>1 DEF Closing, Passed, serverVars
  <2> QED
    BY <1>1, <2>1, <2>2, LaterKeeps DEF slotVars, threadVars, lockVars, serverVars
<1>10. NothingLeaks'
  <2>1. /\ \A i \in 1 .. Len(rtspQueue) : i \in 1 .. Len(rtspQueue') /\ rtspQueue'[i] = rtspQueue[i]
        /\ \E i \in 1 .. Len(rtspQueue') : rtspQueue'[i] = new
    <3>1. rtspQueue \in Seq(Conns)
      BY DEF ServerInv, ServerType, ConnType
    <3>2. Len(rtspQueue') = Len(rtspQueue) + 1 /\ rtspQueue'[Len(rtspQueue) + 1] = new
          /\ Len(rtspQueue) \in Nat
      BY <1>1, <1>2, <3>1
    <3>3. \A i \in 1 .. Len(rtspQueue) : rtspQueue'[i] = rtspQueue[i]
      BY <1>1, <1>2, <3>1
    <3> QED
      BY <3>2, <3>3
  <2>2. ASSUME NEW k \in Conns, Kept(k) PROVE Kept(k)'
    BY <1>1, <2>1, <2>2 DEF Kept, slotVars, threadVars
  <2>3. Kept(new)'
    BY <2>1 DEF Kept
  <2> QED
    BY <1>4, <2>2, <2>3 DEF ServerInv, NothingLeaks, Kept
<1> QED
  BY <1>5, <1>6, <1>7, <1>8, <1>9, <1>10, <1>11 DEF ServerInv

LEMMA MirrorKeeps == ASSUME ServerInv, NEW c \in Calls, OpenMirror(c) PROVE ServerInv'
<1> DEFINE new == Mirror(c)
<1>1. /\ conn' = [conn EXCEPT ![new] = "up"] /\ mirrorQueue' = Append(mirrorQueue, new)
      /\ conn[new] = "none"
      /\ UNCHANGED <<calls, rtspQueue, serverVars, numVars, slotVars, threadVars,
                     lockVars, acceptor>>
  BY DEF OpenMirror
<1>2. new \in Conns /\ \A d \in Calls : Rtsp(d) # new /\ Rtsp(d) \in Conns
  BY DEF Mirror, Rtsp, Conns
<1> HIDE DEF new
<1>4. /\ conn'[new] = "up" /\ \A k \in Conns : k # new => conn'[k] = conn[k]
  BY <1>1, <1>2 DEF ServerInv, ServerType, ConnType
<1>5. ServerType'
  BY PhoneTypes DEF Phones, ServerInv
<1>6. ZeroInv'
  BY <1>1, <1>2, <1>4 DEF ServerInv, ZeroInv, ServerType, ConnType, numVars
<1>7. QueueInv'
  <2>1. \A d \in Calls : d > calls' => conn'[Rtsp(d)] = "none"
    BY <1>1, <1>2, <1>4 DEF ServerInv, QueueInv
  <2>2. \A i \in 1 .. Len(rtspQueue') : conn'[rtspQueue'[i]] # "none"
    BY <1>1, <1>4 DEF ServerInv, QueueInv, ServerType, ConnType
  <2>3. ASSUME NEW i \in 1 .. Len(mirrorQueue') PROVE conn'[mirrorQueue'[i]] # "none"
    <3>1. mirrorQueue \in Seq(Conns) /\ \A j \in 1 .. Len(mirrorQueue) : conn[mirrorQueue[j]] # "none"
      BY DEF ServerInv, QueueInv, ServerType, ConnType
    <3>2. (i \in 1 .. Len(mirrorQueue) /\ mirrorQueue'[i] = mirrorQueue[i]) \/ mirrorQueue'[i] = new
      BY <1>1, <3>1
    <3> QED
      BY <1>2, <1>4, <3>1, <3>2
  <2> QED
    BY <2>1, <2>2, <2>3 DEF QueueInv
<1>8. StopInv'
  BY <1>1 DEF ServerInv, StopInv, serverVars
<1>11. LockInv'
  BY <1>1 DEF ServerInv, LockInv, serverVars, slotVars, threadVars, lockVars
<1>9. ThreadInv' /\ FdsInv' /\ AcceptorInv'
  <2>1. Later
    BY <1>1, <1>4 DEF Later
  <2>2. Closing' = Closing /\ \A s : Passed(s)' = Passed(s)
    BY <1>1 DEF Closing, Passed, serverVars
  <2> QED
    BY <1>1, <2>1, <2>2, LaterKeeps DEF slotVars, threadVars, lockVars, serverVars
<1>10. NothingLeaks'
  <2>1. /\ \A i \in 1 .. Len(mirrorQueue) : i \in 1 .. Len(mirrorQueue') /\ mirrorQueue'[i] = mirrorQueue[i]
        /\ \E i \in 1 .. Len(mirrorQueue') : mirrorQueue'[i] = new
    <3>1. mirrorQueue \in Seq(Conns)
      BY DEF ServerInv, ServerType, ConnType
    <3>2. Len(mirrorQueue') = Len(mirrorQueue) + 1 /\ mirrorQueue'[Len(mirrorQueue) + 1] = new
          /\ Len(mirrorQueue) \in Nat
      BY <1>1, <1>2, <3>1
    <3>3. \A i \in 1 .. Len(mirrorQueue) : mirrorQueue'[i] = mirrorQueue[i]
      BY <1>1, <1>2, <3>1
    <3> QED
      BY <3>2, <3>3
  <2>2. ASSUME NEW k \in Conns, Kept(k) PROVE Kept(k)'
    BY <1>1, <2>1, <2>2 DEF Kept, slotVars, threadVars
  <2>3. Kept(new)'
    BY <2>1 DEF Kept
  <2> QED
    BY <1>4, <2>2, <2>3 DEF ServerInv, NothingLeaks, Kept
<1> QED
  BY <1>5, <1>6, <1>7, <1>8, <1>9, <1>10, <1>11 DEF ServerInv

\* A connection ends, and every number keeps its meaning.
LEMMA DropKeeps ==
  ASSUME ServerInv, Drops, UNCHANGED <<calls, serverVars, slot, fd, rtspAt, mirrorAt, mirrorFd,
                                       sessionsLock, acceptor, rtspQueue, mirrorQueue, isZero>>,
         ZeroInv', zero' \in Descriptors \cup {Stdin}, LockType', LockInv'
  PROVE  ServerInv'
<1>1. ServerType'
  BY DEF Drops, ServerInv, ServerType, ConnType, SlotType, ThreadType, OthersType, serverVars
<1>2. QueueInv'
  <2>1. \A c \in Calls : Rtsp(c) \in Conns
    BY DEF Rtsp, Conns
  <2> QED
    BY <2>1 DEF ServerInv, QueueInv, Drops, ServerType, ConnType
<1>3. StopInv'
  BY DEF ServerInv, StopInv, serverVars
<1>4. ThreadInv' /\ FdsInv' /\ AcceptorInv'
  <2>1. Closing' = Closing /\ \A s : Passed(s)' = Passed(s)
    BY DEF Closing, Passed, serverVars
  <2> QED
    BY <2>1, LaterKeeps, DropsLater DEF serverVars
<1>5. NothingLeaks'
  BY DEF ServerInv, NothingLeaks, Drops
<1> QED
  BY <1>1, <1>2, <1>3, <1>4, <1>5 DEF ServerInv

LEMMA HangUpKeeps == ASSUME ServerInv, NEW k \in Conns, HangUp(k) PROVE ServerInv'
<1>1. Drops
  BY DEF HangUp, Drops, ServerInv, ServerType, ConnType
<1>2. ZeroInv'
  BY <1>1 DEF HangUp, Drops, ServerInv, ServerType, ConnType, ZeroInv, numVars
<1>3. zero' \in Descriptors \cup {Stdin} /\ LockType' /\ LockInv'
  BY DEF HangUp, ServerInv, ServerType, ConnType, LockType, LockInv, numVars, lockVars,
     serverVars,
     slotVars, threadVars
<1> QED
  BY <1>1, <1>2, <1>3, DropKeeps DEF HangUp, numVars, slotVars, threadVars, lockVars

LEMMA CleanupClosesKeeps == ASSUME ServerInv, CleanupCloses PROVE ServerInv'
<1>1. PICK ks : /\ Close(ks, TRUE) /\ cleaning.step = 1 /\ cleaning' = [cleaning EXCEPT !.step = 2]
                /\ UNCHANGED <<calls, rtspQueue, mirrorQueue, serverVars, isZero,
                               slotVars, threadVars,
                               sessionsLock, acceptLock, acceptor>>
  BY DEF CleanupCloses
<1>2. Drops /\ ZeroInv' /\ zero' \in Descriptors \cup {Stdin}
  BY <1>1, CloseIs DEF ServerInv, ServerType
<1>3. LockType' /\ LockInv'
  BY <1>1 DEF ServerInv, ServerType, LockType, LockInv, serverVars, slotVars, threadVars
<1> QED
  BY <1>1, <1>2, <1>3, DropKeeps DEF slotVars, threadVars

\* What the stop closes itself.
LEMMA StopDropKeeps ==
  ASSUME ServerInv, Drops, UNCHANGED <<calls, zero, isZero, starter, slot, fd, rtspAt, mirrorAt,
                                       mirrorFd,
                                       lockVars, acceptor>>,
         stop.at # "clean", stop'.at # "clean", OthersType', StopInv', Closing => Closing',
         \A s \in Slots : Passed(s)' => Passed(s) \/ NoMore \/ (~slot[s].active /\ rtspAt[s] = "none"),
         rtspQueue' = rtspQueue \/ (rtspQueue' = <<>> /\
                        \A i \in 1 .. Len(rtspQueue) : conn'[rtspQueue[i]] # "up"),
         mirrorQueue' = mirrorQueue \/ (mirrorQueue' = <<>> /\
                          \A i \in 1 .. Len(mirrorQueue) : conn'[mirrorQueue[i]] # "up")
  PROVE  ServerInv'
<1>1. ServerType'
  <2>1. rtspQueue' \in Seq(Conns) /\ mirrorQueue' \in Seq(Conns)
    <3>1. rtspQueue \in Seq(Conns) /\ mirrorQueue \in Seq(Conns)
      BY DEF ServerInv, ServerType, ConnType
    <3>2. <<>> \in Seq(Conns)
      OBVIOUS
    <3> QED
      BY <3>1, <3>2
  <2>2. ConnType'
    BY <2>1 DEF Drops, ServerInv, ServerType, ConnType
  <2> QED
    BY <2>2 DEF ServerInv, ServerType, SlotType, ThreadType, LockType, lockVars
<1>2. QueueInv'
  <2>1. \A c \in Calls : Rtsp(c) \in Conns
    BY DEF Rtsp, Conns
  <2>2. \A c \in Calls : c > calls' => conn'[Rtsp(c)] = "none"
    BY <2>1 DEF ServerInv, QueueInv, Drops, ServerType, ConnType
  <2>3. \A i \in 1 .. Len(rtspQueue') : conn'[rtspQueue'[i]] # "none"
    BY DEF ServerInv, QueueInv, Drops, ServerType, ConnType
  <2>4. \A i \in 1 .. Len(mirrorQueue') : conn'[mirrorQueue'[i]] # "none"
    BY DEF ServerInv, QueueInv, Drops, ServerType, ConnType
  <2> QED
    BY <2>2, <2>3, <2>4 DEF QueueInv
<1>3. ZeroInv' /\ LockInv'
  BY DEF ServerInv, ZeroInv, LockInv, Drops, ServerType, ConnType, lockVars
<1>4. ThreadInv' /\ FdsInv' /\ AcceptorInv'
  BY LaterKeeps, DropsLater DEF lockVars
<1>5. NothingLeaks'
  <2>1. ASSUME NEW k \in Conns, conn'[k] = "up" PROVE Kept(k)'
    <3>1. Kept(k)
      BY <2>1 DEF Drops, ServerInv, NothingLeaks, Kept
    <3> QED
      BY <2>1, <3>1 DEF Kept
  <2> QED
    BY <2>1 DEF NothingLeaks, Kept
<1> QED
  BY <1>1, <1>2, <1>3, <1>4, <1>5 DEF ServerInv

LEMMA ShutsDownKeeps == ASSUME ServerInv, StopShutsDown PROVE ServerInv'
<1>1. /\ stop.at = "slots" /\ stop.slot \in Slots /\ UNCHANGED <<rtspOpen, acceptor, rtspQueue>>
      /\ \/ /\ slot[stop.slot].active /\ stop' = [at |-> "join", slot |-> stop.slot]
            /\ \E ks : conn' = Closed(ks)
         \/ /\ ~slot[stop.slot].active /\ stop' = [at |-> "slots", slot |-> stop.slot + 1]
            /\ conn' = conn
  BY DEF StopShutsDown, StopGoes
<1>2. Drops
  BY <1>1, ClosedIs DEF ServerInv, ServerType, ConnType, Drops
<1>3. stop'.at \in {"join", "slots"}
  BY <1>1
<1>4. stop.slot \in 1 .. MaxSessions /\ MaxSessions \in Nat
  BY <1>1 DEF ServerInv, ServerType, Slots
<1>5. OthersType' /\ StopInv'
  BY <1>1, <1>4 DEF ServerInv, ServerType, OthersType, StopInv, Slots
<1>6. ASSUME NEW s \in Slots, Passed(s)'
      PROVE  Passed(s) \/ NoMore \/ (~slot[s].active /\ rtspAt[s] = "none")
  <2>1. s \in Nat /\ (s < stop'.slot)
    BY <1>1, <1>3, <1>4, <1>6 DEF Passed, Slots
  <2>2. CASE s < stop.slot
    BY <1>1, <2>2 DEF Passed
  <2>3. CASE s = stop.slot
    BY <1>1, <1>4, <2>1, <2>3 DEF ServerInv, ThreadInv, SlotInv
  <2> QED
    BY <1>1, <1>4, <2>1, <2>2, <2>3
<1>7. Closing => Closing'
  BY <1>1 DEF Closing
<1> QED
  BY <1>1, <1>2, <1>3, <1>5, <1>6, <1>7, StopDropKeeps
  DEF StopShutsDown, numVars, slotVars, threadVars

LEMMA ClosesRtspKeeps == ASSUME ServerInv, CloseRtspListener PROVE ServerInv'
<1>1. /\ stop.at = "rtsp" /\ stop' = [at |-> "mirror", slot |-> 0]
      /\ rtspOpen' = FALSE /\ rtspQueue' = <<>> /\ acceptor' = acceptor
      /\ conn' = Closed({rtspQueue[i] : i \in 1 .. Len(rtspQueue)})
  BY DEF CloseRtspListener, StopGoes
<1>2. Drops /\ \A i \in 1 .. Len(rtspQueue) : conn'[rtspQueue[i]] # "up"
  <2>1. \A i \in 1 .. Len(rtspQueue) : rtspQueue[i] \in Conns
    BY DEF ServerInv, ServerType, ConnType
  <2> QED
    BY <1>1, <2>1, ClosedIs DEF ServerInv, ServerType
<1>3. OthersType' /\ StopInv'
  BY <1>1 DEF ServerInv, ServerType, OthersType, StopInv
<1>4. (Closing => Closing') /\ \A s : ~Passed(s)'
  BY <1>1 DEF Closing, Passed
<1> QED
  BY <1>1, <1>2, <1>3, <1>4, StopDropKeeps
  DEF CloseRtspListener, numVars, slotVars, threadVars

LEMMA ClosesMirrorKeeps == ASSUME ServerInv, CloseMirrorListener PROVE ServerInv'
<1>1. /\ stop.at = "mirror" /\ stop' = [at |-> "slots", slot |-> 1]
      /\ mirrorQueue' = <<>> /\ UNCHANGED <<acceptor, rtspQueue, rtspOpen>>
      /\ conn' = Closed({mirrorQueue[i] : i \in 1 .. Len(mirrorQueue)})
  BY DEF CloseMirrorListener, StopGoes
<1>2. Drops /\ \A i \in 1 .. Len(mirrorQueue) : conn'[mirrorQueue[i]] # "up"
  <2>1. \A i \in 1 .. Len(mirrorQueue) : mirrorQueue[i] \in Conns
    BY DEF ServerInv, ServerType, ConnType
  <2> QED
    BY <1>1, <2>1, ClosedIs DEF ServerInv, ServerType
<1>3. OthersType' /\ StopInv'
  BY <1>1 DEF ServerInv, ServerType, OthersType, StopInv
<1>4. (Closing => Closing') /\ \A s \in Slots : ~Passed(s)'
  BY <1>1 DEF Closing, Passed, Slots
<1> QED
  BY <1>1, <1>2, <1>3, <1>4, StopDropKeeps
  DEF CloseMirrorListener, numVars, slotVars, threadVars

-----------------------------------------------------------------------------
(* The acceptor.                                                            *)

LEMMA HeadIs ==
  ASSUME NEW S, NEW s \in Seq(S), s # <<>>
  PROVE  /\ Head(s) \in S /\ Head(s) = s[1] /\ 1 \in 1 .. Len(s) /\ Tail(s) \in Seq(S)
         /\ \A i \in 1 .. Len(Tail(s)) : i + 1 \in 1 .. Len(s) /\ Tail(s)[i] = s[i + 1]
         /\ \A i \in 1 .. Len(s) : i = 1 \/ (i - 1 \in 1 .. Len(Tail(s)) /\ s[i] = Tail(s)[i - 1])
<1>1. Len(s) \in Nat /\ Len(s) >= 1
  OBVIOUS
<1>2. Tail(s) \in Seq(S) /\ Len(Tail(s)) = Len(s) - 1
      /\ \A i \in 1 .. Len(s) - 1 : Tail(s)[i] = s[i + 1]
  BY <1>1
<1>3. Head(s) = s[1] /\ s[1] \in S
  BY <1>1
<1> QED
  BY <1>1, <1>2, <1>3

LEMMA AcceptRtspKeeps == ASSUME ServerInv, AcceptRtsp PROVE ServerInv'
<1>1. PICK k : k = Head(rtspQueue)
  OBVIOUS
<1>2. /\ acceptor.at = "accept" /\ rtspQueue # <<>> /\ rtspQueue' = Tail(rtspQueue) /\ NumberFor(k)
      /\ acceptor' = [acceptor EXCEPT !.at = "place", !.conn = k]
      /\ UNCHANGED <<calls, conn, mirrorQueue, serverVars, slotVars, threadVars,
                     lockVars>>
  BY <1>1 DEF AcceptRtsp
<1>3. rtspQueue \in Seq(Conns)
  BY DEF ServerInv, ServerType, ConnType
<1>4. k \in Conns /\ k = rtspQueue[1] /\ 1 \in 1 .. Len(rtspQueue) /\ rtspQueue' \in Seq(Conns)
  BY <1>1, <1>2, <1>3, HeadIs
<1>5. /\ \A i \in 1 .. Len(rtspQueue') : i + 1 \in 1 .. Len(rtspQueue) /\ rtspQueue'[i] = rtspQueue[i + 1]
      /\ \A i \in 1 .. Len(rtspQueue) :
           i = 1 \/ (i - 1 \in 1 .. Len(rtspQueue') /\ rtspQueue[i] = rtspQueue'[i - 1])
  BY <1>2, <1>3, HeadIs
<1>6. conn[k] # "none"
  BY <1>4 DEF ServerInv, QueueInv
<1>7. zero' \in Descriptors \cup {Stdin} /\ isZero' \subseteq Conns /\ ZeroInv'
  BY <1>2, <1>4, <1>6, NumberIs DEF ServerInv, ServerType
<1>8. acceptor.conn = NoOne /\ stop.at \in {"no", "rtsp"}
  BY <1>2 DEF ServerInv, AcceptorInv, StopInv
<1>9. acceptor'.at = "place" /\ acceptor'.conn = k
  BY <1>2 DEF ServerInv, ServerType, OthersType
<1>10. ServerType'
  <2>1. ConnType'
    BY <1>2, <1>4, <1>7 DEF ServerInv, ServerType, ConnType
  <2>2. OthersType'
    BY <1>2, <1>4 DEF ServerInv, ServerType, OthersType, Descriptors, serverVars
  <2> QED
    BY <1>2, <2>1, <2>2 DEF ServerInv, ServerType, SlotType, ThreadType, LockType, slotVars,
       threadVars,
       lockVars
<1>11. QueueInv'
  BY <1>2, <1>5 DEF ServerInv, QueueInv
<1>12. StopInv' /\ LockInv' /\ FdsInv'
  BY <1>2, <1>8 DEF ServerInv, StopInv, LockInv, FdsInv, FdInv, serverVars, slotVars,
     threadVars,
     lockVars
<1>13. ThreadInv'
  <2>1. ~NoMore /\ \A s : ~Passed(s) /\ ~Passed(s)'
    BY <1>2, <1>8 DEF NoMore, Closing, Passed, serverVars
  <2> QED
    BY <1>2, <2>1 DEF ServerInv, ThreadInv, SlotInv, slotVars, threadVars, lockVars
<1>14. AcceptorInv'
  BY <1>2, <1>4, <1>6, <1>9 DEF ServerInv, AcceptorInv, serverVars
<1>15. NothingLeaks'
  <2>1. ASSUME NEW j \in Conns, Kept(j) PROVE Kept(j)'
    <3>1. CASE \E i \in 1 .. Len(rtspQueue) : rtspQueue[i] = j
      BY <1>4, <1>5, <1>9, <3>1 DEF Kept
    <3>2. CASE ~\E i \in 1 .. Len(rtspQueue) : rtspQueue[i] = j
      BY <1>2, <1>8, <2>1, <3>2, Distinct DEF Kept, slotVars, threadVars
    <3> QED
      BY <3>1, <3>2
  <2> QED
    BY <1>2, <2>1 DEF ServerInv, NothingLeaks, Kept
<1> QED
  BY <1>7, <1>10, <1>11, <1>12, <1>13, <1>14, <1>15 DEF ServerInv

LEMMA RejectKeeps == ASSUME ServerInv, Reject PROVE ServerInv'
<1>1. /\ acceptor.at = "place" /\ Close({acceptor.conn}, FALSE) /\ acceptor' = Again
      /\ UNCHANGED <<calls, rtspQueue, mirrorQueue, serverVars, isZero, slotVars,
                     threadVars, lockVars>>
  BY DEF Reject
<1>2. /\ acceptor'.at \in {"accept", "done"} /\ acceptor'.conn = NoOne
      /\ acceptor' = [at |-> acceptor'.at, conn |-> NoOne, slot |-> 0]
  BY <1>1 DEF Again
<1>3. acceptor.conn \in Conns
  BY <1>1 DEF ServerInv, AcceptorInv
<1>4. Drops /\ ZeroInv' /\ zero' \in Descriptors \cup {Stdin} /\ conn'[acceptor.conn] # "up"
  BY <1>1, <1>3, CloseIs DEF ServerInv, ServerType
<1>5. ServerType'
  <2>1. ConnType' /\ OthersType'
    BY <1>1, <1>2, <1>4 DEF ServerInv, ServerType, ConnType, OthersType, Drops, Descriptors,
       serverVars
  <2> QED
    BY <1>1, <2>1 DEF ServerInv, ServerType, SlotType, ThreadType, LockType, slotVars,
       threadVars,
       lockVars
<1>6. QueueInv'
  <2>1. \A c \in Calls : Rtsp(c) \in Conns
    BY DEF Rtsp, Conns
  <2> QED
    BY <1>1, <1>4, <2>1 DEF ServerInv, QueueInv, Drops, ServerType, ConnType
<1>7. StopInv' /\ LockInv'
  BY <1>1 DEF ServerInv, StopInv, LockInv, serverVars, slotVars, threadVars, lockVars
<1>8. ThreadInv'
  <2>1. ~NoMore /\ \A s : Passed(s)' = Passed(s)
    BY <1>1 DEF NoMore, Closing, Passed, serverVars
  <2> QED
    BY <1>1, <2>1 DEF ServerInv, ThreadInv, SlotInv, slotVars, threadVars, lockVars
<1>9. FdsInv'
  <2> SUFFICES ASSUME NEW s \in Slots PROVE FdInv(s)'
    BY DEF FdsInv
  <2>1. FdInv(s) /\ slot[s].rtsp \in Descriptors /\ fd[s] \in Descriptors
    BY DEF ServerInv, FdsInv, ServerType, SlotType
  <2> QED
    BY <1>1, <1>4, <2>1 DEF FdInv, Drops, Descriptors, slotVars, threadVars
<1>10. AcceptorInv'
  BY <1>1, <1>2 DEF ServerInv, AcceptorInv, serverVars
<1>11. NothingLeaks'
  <2>1. ASSUME NEW k \in Conns, conn'[k] = "up" PROVE Kept(k)'
    <3>1. Kept(k) /\ k # acceptor.conn
      BY <1>4, <2>1 DEF Drops, ServerInv, NothingLeaks, Kept
    <3> QED
      BY <1>1, <3>1 DEF Kept, slotVars, threadVars
  <2> QED
    BY <2>1 DEF NothingLeaks, Kept
<1> QED
  BY <1>4, <1>5, <1>6, <1>7, <1>8, <1>9, <1>10, <1>11 DEF ServerInv

\* The first free slot is one.
LEMMA FirstFreeIs == ASSUME ServerType, Free # {} PROVE FirstFree \in Free
<1>1. Free \in SUBSET Nat
  BY SlotsAre DEF Free
<1>2. \E s \in Free : \A t \in Free : s <= t
  BY <1>1, LeastElement DEF Least
<1> QED
  BY <1>2 DEF FirstFree

\* A slot is given to a new session only when nothing of an earlier one runs.
LEMMA PlaceFinds ==
  ASSUME ServerInv, Place
  PROVE  \E s \in Slots :
           /\ ~slot[s].active /\ slot[s].rtsp = NoOne /\ rtspAt[s] = "none" /\ mirrorAt[s] = "none"
           /\ slot' = [slot EXCEPT ![s] = [active |-> TRUE, rtsp |-> acceptor.conn, mirror |-> NoOne]]
           /\ acceptor' = [acceptor EXCEPT !.at = "spawn", !.slot = s]
<1>1. PICK s : s = FirstFree
  OBVIOUS
<1>2. s \in Slots /\ ~slot[s].active
  BY <1>1, FirstFreeIs DEF Place, ServerInv, Free
<1>3. ~NoMore
  BY DEF Place, NoMore, Closing
<1>4. slot[s].rtsp = NoOne /\ rtspAt[s] = "none" /\ mirrorAt[s] = "none"
  BY <1>2, <1>3 DEF ServerInv, ThreadInv, SlotInv
<1> QED
  BY <1>1, <1>2, <1>4 DEF Place

LEMMA PlaceKeeps == ASSUME ServerInv, Place PROVE ServerInv'
<1>1. PICK s \in Slots :
           /\ ~slot[s].active /\ slot[s].rtsp = NoOne /\ rtspAt[s] = "none" /\ mirrorAt[s] = "none"
           /\ slot' = [slot EXCEPT ![s] = [active |-> TRUE, rtsp |-> acceptor.conn, mirror |-> NoOne]]
           /\ acceptor' = [acceptor EXCEPT !.at = "spawn", !.slot = s]
  BY PlaceFinds
<1>2. /\ acceptor.at = "place" /\ sessionsLock = Unlocked
      /\ UNCHANGED <<phoneVars, serverVars, numVars, fd, mirrorFd, threadVars,
                     lockVars>>
  BY DEF Place
<1>3. acceptor.conn \in Conns /\ conn[acceptor.conn] # "none"
  BY <1>2 DEF ServerInv, AcceptorInv
<1>4. acceptor'.at = "spawn" /\ acceptor'.conn = acceptor.conn /\ acceptor'.slot = s
  BY <1>1 DEF ServerInv, ServerType, OthersType
<1>5. /\ slot'[s].active /\ slot'[s].rtsp = acceptor.conn
      /\ \A t \in Slots : t # s => slot'[t] = slot[t]
  BY <1>1 DEF ServerInv, ServerType, SlotType
<1>6. ServerType'
  <2>1. SlotType'
    BY <1>1, <1>2, <1>3 DEF ServerInv, ServerType, SlotType, Descriptors
  <2>2. OthersType'
    <3>1. s \in 0 .. MaxSessions
      BY DEF ServerInv, ServerType, Slots
    <3>2. acceptor' = [at |-> "spawn", conn |-> acceptor.conn, slot |-> s]
      BY <1>1 DEF ServerInv, ServerType, OthersType
    <3> QED
      BY <1>2, <1>3, <3>1, <3>2 DEF ServerInv, ServerType, OthersType, Descriptors, serverVars
  <2> QED
    BY <1>2, <2>1, <2>2 DEF ServerInv, ServerType, ConnType, ThreadType, LockType, phoneVars,
       numVars,
       threadVars, lockVars
<1>7. ZeroInv' /\ QueueInv' /\ StopInv'
  BY <1>2 DEF ServerInv, ZeroInv, QueueInv, StopInv, phoneVars, numVars, serverVars
<1>8. LockInv'
  BY <1>2, SlotsAre DEF ServerInv, LockInv, serverVars, threadVars, lockVars
<1>9. ThreadInv'
  <2> SUFFICES ASSUME NEW t \in Slots PROVE SlotInv(t)'
    BY DEF ThreadInv
  <2>1. SlotInv(t) /\ SlotInv(s) /\ Passed(t)' = Passed(t) /\ (NoMore => NoMore')
    BY <1>2, <1>4 DEF ServerInv, ThreadInv, Passed, NoMore, Closing, serverVars, phoneVars
  <2>2. Passed(t) => NoMore'
    BY <1>2, <1>4 DEF Passed, NoMore, Closing, ServerInv, StopInv, serverVars, phoneVars
  <2>3. CASE t = s
    BY <1>1, <1>2, <1>4, <1>5, <2>1, <2>2, <2>3 DEF SlotInv, threadVars
  <2>4. CASE t # s
    <3>1. ~(slot[t].active /\ rtspAt[t] = "none")
      BY <1>2, <2>1 DEF SlotInv
    <3> QED
      BY <1>1, <1>2, <1>4, <1>5, <2>1, <2>2, <2>4, <3>1 DEF SlotInv, threadVars, lockVars
  <2> QED
    BY <2>3, <2>4
<1>10. FdsInv'
  <2> SUFFICES ASSUME NEW t \in Slots PROVE FdInv(t)'
    BY DEF FdsInv
  <2>1. FdInv(t)
    BY DEF ServerInv, FdsInv
  <2>2. CASE t = s
    BY <1>1, <1>2, <1>3, <1>5, <2>1, <2>2 DEF FdInv, threadVars, phoneVars
  <2>3. CASE t # s
    BY <1>2, <1>5, <2>1, <2>3 DEF FdInv, threadVars, phoneVars
  <2> QED
    BY <2>2, <2>3
<1>11. AcceptorInv'
  BY <1>1, <1>2, <1>3, <1>4, <1>5 DEF ServerInv, AcceptorInv, threadVars, phoneVars,
     serverVars
<1>12. NothingLeaks'
  <2>1. ASSUME NEW k \in Conns, Kept(k) PROVE Kept(k)'
    <3>1. \A t \in Slots : slot[t].rtsp = k => slot'[t].rtsp = k
      BY <1>1, <1>5, Distinct
    <3> QED
      BY <1>2, <1>4, <2>1, <3>1 DEF Kept, threadVars, phoneVars
  <2> QED
    BY <1>2, <2>1 DEF ServerInv, NothingLeaks, Kept, phoneVars
<1> QED
  BY <1>6, <1>7, <1>8, <1>9, <1>10, <1>11, <1>12 DEF ServerInv

LEMMA SpawnKeeps == ASSUME ServerInv, Spawn PROVE ServerInv'
<1>1. PICK s : s = acceptor.slot
  OBVIOUS
<1>2. /\ acceptor.at = "spawn" /\ rtspAt' = [rtspAt EXCEPT ![s] = "init"] /\ acceptor' = Again
      /\ UNCHANGED <<phoneVars, serverVars, numVars, slotVars, mirrorAt,
                     lockVars>>
  BY <1>1 DEF Spawn
<1>3. /\ acceptor'.at \in {"accept", "done"} /\ acceptor'.conn = NoOne
      /\ acceptor' = [at |-> acceptor'.at, conn |-> NoOne, slot |-> 0]
  BY <1>2 DEF Again
<1>4. /\ s \in Slots /\ rtspAt[s] = "none" /\ acceptor.conn \in Conns
      /\ slot[s].rtsp = acceptor.conn \/ conn[acceptor.conn] = "gone"
  BY <1>1, <1>2 DEF ServerInv, AcceptorInv
<1>5. rtspAt'[s] = "init" /\ \A t \in Slots : t # s => rtspAt'[t] = rtspAt[t]
  BY <1>2, <1>4 DEF ServerInv, ServerType, ThreadType
<1>6. ServerType'
  <2>1. ThreadType'
    BY <1>2 DEF ServerInv, ServerType, ThreadType
  <2>2. OthersType'
    BY <1>2, <1>3 DEF ServerInv, ServerType, OthersType, Descriptors, serverVars
  <2> QED
    BY <1>2, <2>1, <2>2 DEF ServerInv, ServerType, ConnType, SlotType, LockType, phoneVars,
       numVars,
       slotVars, lockVars
<1>7. ZeroInv' /\ QueueInv' /\ StopInv'
  BY <1>2 DEF ServerInv, ZeroInv, QueueInv, StopInv, phoneVars, numVars, serverVars
<1>8. LockInv'
  BY <1>2, <1>4, <1>5 DEF ServerInv, LockInv, serverVars, slotVars, lockVars
<1>9. ThreadInv'
  <2> SUFFICES ASSUME NEW t \in Slots PROVE SlotInv(t)'
    BY DEF ThreadInv
  <2>1. SlotInv(t) /\ Passed(t)' = Passed(t) /\ (NoMore => NoMore')
    BY <1>2, <1>3 DEF ServerInv, ThreadInv, Passed, NoMore, Closing, serverVars, phoneVars
  <2>2. CASE t = s
    <3>1. ~slot[s].active => slot[s].rtsp = NoOne
      BY <2>1, <2>2 DEF SlotInv
    <3>2. ~rtspOpen /\ rtspQueue = <<>> => NoMore'
      BY <1>2, <1>3 DEF NoMore, Closing, serverVars, phoneVars
    <3>3. Passed(s) => NoMore'
      BY <3>2 DEF Passed, ServerInv, StopInv
    <3>4. ~slot[s].active => NoMore'
      BY <1>1, <1>2, <3>2 DEF ServerInv, AcceptorInv, Closing
    <3> QED
      BY <1>2, <1>4, <1>5, <2>1, <2>2, <3>1, <3>3, <3>4 DEF SlotInv, slotVars
  <2>3. CASE t # s
    BY <1>1, <1>2, <1>5, <2>1, <2>3 DEF SlotInv, slotVars, lockVars
  <2> QED
    BY <2>2, <2>3
<1>10. FdsInv'
  <2> SUFFICES ASSUME NEW t \in Slots PROVE FdInv(t)'
    BY DEF FdsInv
  <2>1. FdInv(t)
    BY DEF ServerInv, FdsInv
  <2>2. CASE t = s
    BY <1>2, <1>4, <1>5, <2>1, <2>2 DEF FdInv, slotVars, phoneVars
  <2>3. CASE t # s
    BY <1>2, <1>5, <2>1, <2>3 DEF FdInv, slotVars, phoneVars
  <2> QED
    BY <2>2, <2>3
<1>11. AcceptorInv'
  BY <1>2, <1>3 DEF ServerInv, AcceptorInv, serverVars
<1>12. NothingLeaks'
  <2>1. ASSUME NEW k \in Conns, conn[k] = "up", Kept(k) PROVE Kept(k)'
    <3>1. CASE acceptor.conn = k
      BY <1>2, <1>4, <2>1, <3>1 DEF Kept, slotVars
    <3>2. CASE acceptor.conn # k
      <4>1. \A t \in Slots : rtspAt[t] # "none" => rtspAt'[t] # "none"
        BY <1>4, <1>5
      <4> QED
        BY <1>2, <2>1, <3>2, <4>1 DEF Kept, slotVars, phoneVars
    <3> QED
      BY <3>1, <3>2
  <2> QED
    BY <1>2, <2>1 DEF ServerInv, NothingLeaks, Kept, phoneVars
<1> QED
  BY <1>6, <1>7, <1>8, <1>9, <1>10, <1>11, <1>12 DEF ServerInv

-----------------------------------------------------------------------------
(* A session begins and ends.                                               *)

LEMMA DropsQueue ==
  ASSUME ServerInv, Drops, UNCHANGED <<calls, rtspQueue, mirrorQueue>> PROVE QueueInv'
<1>1. \A c \in Calls : Rtsp(c) \in Conns
  BY DEF Rtsp, Conns
<1> QED
  BY <1>1 DEF ServerInv, QueueInv, Drops, ServerType, ConnType

LEMMA InitSessionKeeps == ASSUME ServerInv, NEW s \in Slots, InitSession(s) PROVE ServerInv'
<1>1. PICK r \in {"serving", "leaving"}, m \in {"lock", mirrorAt[s]} :
        /\ rtspAt[s] = "init" /\ (m = "lock" <=> r = "serving")
        /\ rtspAt' = [rtspAt EXCEPT ![s] = r] /\ mirrorAt' = [mirrorAt EXCEPT ![s] = m]
  <2>1. mirrorAt = [mirrorAt EXCEPT ![s] = mirrorAt[s]] /\ mirrorAt[s] = "none"
    BY DEF InitSession, ServerInv, ServerType, ThreadType, ThreadInv, SlotInv
  <2> QED
    BY <2>1 DEF InitSession
<1>2. mirrorAt[s] = "none"
  BY <1>1 DEF ServerInv, ThreadInv, SlotInv
<1>3. /\ fd' = [fd EXCEPT ![s] = slot[s].rtsp]
      /\ UNCHANGED <<phoneVars, serverVars, numVars, slot, mirrorFd, lockVars,
                     acceptor>>
  BY DEF InitSession
<1>4. \A t \in Slots : /\ rtspAt'[t] = IF t = s THEN r ELSE rtspAt[t]
                       /\ mirrorAt'[t] = IF t = s THEN m ELSE mirrorAt[t]
                       /\ fd'[t] = IF t = s THEN slot[s].rtsp ELSE fd[t]
  BY <1>1, <1>3 DEF ServerInv, ServerType, ThreadType, SlotType
<1>5. ServerType'
  <2>1. ThreadType'
    BY <1>1 DEF ServerInv, ServerType, ThreadType
  <2>2. SlotType'
    <3>1. slot[s].rtsp \in Descriptors
      BY DEF ServerInv, ServerType, SlotType
    <3> QED
      BY <1>3, <3>1 DEF ServerInv, ServerType, SlotType
  <2> QED
    BY <1>3, <2>1, <2>2 DEF ServerInv, ServerType, ConnType, LockType, OthersType, phoneVars,
       numVars,
       serverVars, lockVars
<1>6. ZeroInv' /\ QueueInv' /\ StopInv'
  BY <1>3 DEF ServerInv, ZeroInv, QueueInv, StopInv, phoneVars, numVars, serverVars
<1>7. LockInv'
  BY <1>1, <1>3, <1>4 DEF ServerInv, LockInv, serverVars, lockVars
<1>8. ThreadInv'
  <2> SUFFICES ASSUME NEW t \in Slots PROVE SlotInv(t)'
    BY DEF ThreadInv
  <2>1. SlotInv(t)
    BY DEF ServerInv, ThreadInv
  <2> QED
    BY <1>1, <1>2, <1>3, <1>4, <2>1
    DEF SlotInv, NoMore, Closing, Passed, phoneVars, serverVars, lockVars
<1>9. FdsInv'
  BY <1>1, <1>3, <1>4 DEF ServerInv, FdsInv, FdInv, phoneVars
<1>10. AcceptorInv'
  BY <1>1, <1>3, <1>4 DEF ServerInv, AcceptorInv, Closing, phoneVars, serverVars
<1>11. NothingLeaks'
  <2>1. ASSUME NEW k \in Conns, Kept(k) PROVE Kept(k)'
    <3>1. \A t \in Slots : mirrorAt[t] = "streaming" => t # s
      BY <1>2
    <3>2. \A t \in Slots : rtspAt[t] # "none" /\ fd[t] = k => t # s
      BY <1>1, Distinct DEF ServerInv, FdsInv, FdInv
    <3> QED
      BY <1>3, <1>4, <2>1, <3>1, <3>2 DEF Kept, phoneVars
  <2> QED
    BY <1>3, <2>1 DEF ServerInv, NothingLeaks, Kept, phoneVars
<1> QED
  BY <1>5, <1>6, <1>7, <1>8, <1>9, <1>10, <1>11 DEF ServerInv

\* Freeing a slot closes what the slot names, and nothing a queue or another slot names changes.
LEMMA FreeSlotIs ==
  ASSUME ServerInv, NEW s \in Slots, FreeSlot(s), isZero' = isZero
  PROVE  /\ Drops /\ ZeroInv' /\ zero' \in Descriptors \cup {Stdin}
         /\ slot[s].rtsp \in Conns => conn'[slot[s].rtsp] = "gone"
         /\ slot' = [slot EXCEPT ![s] = NoSession]
         /\ \A t \in Slots : slot'[t] = IF t = s THEN NoSession ELSE slot[t]
         /\ slot' \in [Slots -> [active : BOOLEAN, rtsp : Descriptors, mirror : Descriptors]]
<1> DEFINE ks == {slot[s].rtsp, slot[s].mirror} \ {NoOne}
<1>1. Close(ks, TRUE) /\ slot' = [slot EXCEPT ![s] = NoSession]
  BY DEF FreeSlot
<1>2. slot[s].rtsp \in Conns => slot[s].rtsp \in ks
  BY Distinct
<1> HIDE DEF ks
<1>3. Drops /\ ZeroInv' /\ zero' \in Descriptors \cup {Stdin} /\ \A k \in ks \cap Conns : conn'[k] # "up"
  BY <1>1, CloseIs DEF ServerInv, ServerType
<1>4. slot[s].rtsp \in Conns => conn[slot[s].rtsp] \in {"up", "gone"}
  BY Distinct DEF ServerInv, FdsInv, FdInv, ServerType, ConnType
<1>5. slot[s].rtsp \in Conns => conn'[slot[s].rtsp] = "gone"
  BY <1>2, <1>3, <1>4 DEF Drops
<1>6. NoSession \in [active : BOOLEAN, rtsp : Descriptors, mirror : Descriptors]
  BY DEF NoSession, Descriptors
<1> QED
  BY <1>1, <1>3, <1>5, <1>6 DEF ServerInv, ServerType, SlotType

\* What both ends of session_cleanup have in common: slot s is freed.
LEMMA FreeingKeeps ==
  ASSUME ServerInv, NEW s \in Slots, FreeSlot(s), NEW r \in {"none", rtspAt[s]}, NEW f \in {NoOne, fd[s]},
         rtspAt' = [rtspAt EXCEPT ![s] = r], fd' = [fd EXCEPT ![s] = f],
         r = "none" => f = NoOne /\ mirrorAt[s] = "none", r # "none" => f = fd[s] /\ NoMore,
         r = "cleanup" => sessionsLock' = s,
         \A t \in Slots : t # s /\ rtspAt[t] = "cleanup" => sessionsLock' = t,
         acceptor.at = "spawn" /\ acceptor.slot = s => Closing,
         LockType', LockInv',
         UNCHANGED <<calls, rtspQueue, mirrorQueue, serverVars, isZero, mirrorFd, mirrorAt,
                     acceptor>>
  PROVE  ServerInv'
<1>1. /\ Drops /\ ZeroInv' /\ zero' \in Descriptors \cup {Stdin}
      /\ slot[s].rtsp \in Conns => conn'[slot[s].rtsp] = "gone"
      /\ \A t \in Slots : slot'[t] = IF t = s THEN NoSession ELSE slot[t]
      /\ slot' \in [Slots -> [active : BOOLEAN, rtsp : Descriptors, mirror : Descriptors]]
  BY FreeSlotIs
<1>2. \A t \in Slots : /\ rtspAt'[t] = IF t = s THEN r ELSE rtspAt[t]
                       /\ fd'[t] = IF t = s THEN f ELSE fd[t]
  BY DEF ServerInv, ServerType, ThreadType, SlotType
<1>3. NoSession.active = FALSE /\ NoSession.rtsp = NoOne
  BY DEF NoSession
<1>4. ServerType'
  <2>1. ConnType'
    BY <1>1 DEF Drops, ServerInv, ServerType, ConnType
  <2>2. SlotType'
    <3>1. f \in Descriptors
      BY DEF ServerInv, ServerType, SlotType, Descriptors
    <3> QED
      BY <1>1, <3>1 DEF ServerInv, ServerType, SlotType
  <2>3. ThreadType'
    BY DEF ServerInv, ServerType, ThreadType
  <2> QED
    BY <2>1, <2>2, <2>3 DEF ServerInv, ServerType, OthersType, serverVars
<1>5. QueueInv' /\ StopInv'
  BY <1>1, DropsQueue DEF ServerInv, StopInv, serverVars
<1>6. ThreadInv'
  <2> SUFFICES ASSUME NEW t \in Slots PROVE SlotInv(t)'
    BY DEF ThreadInv
  <2>1. SlotInv(t) /\ NoMore' = NoMore /\ Passed(t)' = Passed(t)
    BY DEF ServerInv, ThreadInv, NoMore, Closing, Passed, serverVars
  <2>2. CASE t = s
    <3>1. ~slot'[s].active /\ slot'[s].rtsp = NoOne /\ rtspAt'[s] = r
      BY <1>1, <1>2, <1>3
    <3> QED
      BY <2>1, <2>2, <3>1 DEF SlotInv
  <2>3. CASE t # s
    BY <1>1, <1>2, <2>1, <2>3 DEF SlotInv
  <2> QED
    BY <2>2, <2>3
<1>7. FdsInv'
  <2> SUFFICES ASSUME NEW t \in Slots PROVE FdInv(t)'
    BY DEF FdsInv
  <2>1. FdInv(t) /\ slot[t].rtsp \in Descriptors /\ fd[t] \in Descriptors
    BY DEF ServerInv, FdsInv, ServerType, SlotType
  <2>2. CASE t = s
    <3>1. slot'[s].rtsp = NoOne /\ rtspAt'[s] = r /\ fd'[s] = f
      BY <1>1, <1>2, <1>3
    <3>2. CASE r = "none"
      BY <2>2, <3>1, <3>2 DEF FdInv
    <3>3. CASE r # "none"
      <4>1. rtspAt[s] \notin {"none", "init"} => f \in {NoOne, slot[s].rtsp} \/ conn[f] = "gone"
        BY <2>1, <2>2, <3>3 DEF FdInv
      <4>2. f # NoOne => f \in Conns
        BY <2>1, <2>2, <3>3 DEF Descriptors
      <4>3. rtspAt[s] \notin {"none", "init"} => f = NoOne \/ conn'[f] = "gone"
        BY <1>1, <4>1, <4>2 DEF Drops
      <4>4. rtspAt[s] = "init" => f = NoOne
        BY <2>1, <2>2, <3>3 DEF FdInv
      <4> QED
        BY <2>2, <3>1, <3>3, <4>3, <4>4 DEF FdInv
    <3> QED
      BY <3>2, <3>3
  <2>3. CASE t # s
    <3>1. slot'[t] = slot[t] /\ rtspAt'[t] = rtspAt[t] /\ fd'[t] = fd[t]
      BY <1>1, <1>2, <2>3
    <3>2. \A k \in Descriptors : k # NoOne =>
            (conn[k] # "none" => conn'[k] # "none") /\ (conn[k] = "gone" => conn'[k] = "gone")
      BY <1>1 DEF Drops, Descriptors
    <3> QED
      BY <2>1, <3>1, <3>2 DEF FdInv
  <2> QED
    BY <2>2, <2>3
<1>8. AcceptorInv'
  <2>1. AcceptorInv /\ Closing' = Closing
    BY DEF ServerInv, Closing, serverVars
  <2>2. CASE acceptor.at = "spawn" /\ acceptor.slot = s
    <3>1. acceptor.conn \in Conns /\ conn[acceptor.conn] # "none" /\ rtspAt[s] = "none"
          /\ (slot[s].rtsp = acceptor.conn \/ conn[acceptor.conn] = "gone") /\ starter = "up"
      BY <2>1, <2>2 DEF AcceptorInv
    <3>2. conn'[acceptor.conn] = "gone"
      BY <1>1, <3>1 DEF Drops
    <3>3. rtspAt'[s] = "none"
      BY <1>2, <3>1
    <3> QED
      BY <2>1, <2>2, <3>1, <3>2, <3>3 DEF AcceptorInv, serverVars
  <2>3. CASE ~(acceptor.at = "spawn" /\ acceptor.slot = s)
    <3>1. \A t \in Slots : t # s => slot'[t] = slot[t] /\ rtspAt'[t] = rtspAt[t]
      BY <1>1, <1>2
    <3> QED
      BY <1>1, <2>1, <2>3, <3>1 DEF AcceptorInv, Drops, serverVars
  <2> QED
    BY <2>2, <2>3
<1>9. NothingLeaks'
  <2>1. ASSUME NEW k \in Conns, conn'[k] = "up" PROVE Kept(k)'
    <3>1. Kept(k) /\ conn[k] = "up"
      BY <1>1, <2>1 DEF Drops, ServerInv, NothingLeaks, Kept
    <3>2. slot[s].rtsp # k
      BY <1>1, <2>1
    <3>3. ~(rtspAt[s] # "none" /\ fd[s] = k)
      <4>1. FdInv(s) /\ k # NoOne
        BY <2>1, Distinct DEF ServerInv, FdsInv
      <4> QED
        BY <3>1, <3>2, <4>1 DEF FdInv
    <3>4. \A t \in Slots : t # s => slot'[t] = slot[t] /\ rtspAt'[t] = rtspAt[t] /\ fd'[t] = fd[t]
      BY <1>1, <1>2
    <3>5. CASE \E t \in Slots : slot[t].rtsp = k \/ (rtspAt[t] # "none" /\ fd[t] = k)
      BY <3>2, <3>3, <3>4, <3>5 DEF Kept
    <3>6. CASE ~\E t \in Slots : slot[t].rtsp = k \/ (rtspAt[t] # "none" /\ fd[t] = k)
      BY <3>1, <3>6 DEF Kept
    <3> QED
      BY <3>5, <3>6
  <2> QED
    BY <2>1 DEF NothingLeaks, Kept
<1> QED
  BY <1>1, <1>4, <1>5, <1>6, <1>7, <1>8, <1>9 DEF ServerInv

LEMMA CleanupEndsKeeps == ASSUME ServerInv, CleanupEnds PROVE ServerInv'
<1>1. PICK s : s = cleaning.slot
  OBVIOUS
<1>2. /\ sessionsLock \in Slots /\ FreeSlot(s) /\ fd' = [fd EXCEPT ![s] = NoOne]
      /\ rtspAt' = [rtspAt EXCEPT ![s] = "none"] /\ sessionsLock' = Unlocked /\ cleaning' = NotCleaning
      /\ UNCHANGED <<calls, rtspQueue, mirrorQueue, serverVars, isZero, mirrorFd, mirrorAt,
                     acceptLock,
                     acceptor>>
  BY <1>1 DEF CleanupEnds
<1>3. s = sessionsLock /\ s \in Slots /\ rtspAt[s] = "cleanup"
  BY <1>1, <1>2 DEF ServerInv, LockInv
<1>4. mirrorAt[s] = "none"
  BY <1>3 DEF ServerInv, ThreadInv, SlotInv
<1>5. \A t \in Slots : t # s => rtspAt[t] # "cleanup"
  BY <1>3 DEF ServerInv, ThreadInv, SlotInv
<1>6. ~(acceptor.at = "spawn" /\ acceptor.slot = s)
  BY <1>3 DEF ServerInv, AcceptorInv
<1>7. LockType'
  BY <1>2 DEF LockType, NotCleaning, ServerInv, ServerType
<1>8. stop.at # "clean"
  BY <1>2, SlotsAre DEF ServerInv, LockInv
<1>9. LockInv'
  BY <1>2, <1>8, SlotsAre DEF ServerInv, LockInv, NotCleaning, serverVars
<1> QED
  BY <1>2, <1>3, <1>4, <1>5, <1>6, <1>7, <1>9, FreeingKeeps

LEMMA StopFreesKeeps == ASSUME ServerInv, StopFrees PROVE ServerInv'
<1>1. PICK s : s = cleaning.slot
  OBVIOUS
<1>2. /\ cleaning.step = 2 /\ sessionsLock = Stopper /\ FreeSlot(s) /\ cleaning' = NotCleaning
      /\ UNCHANGED <<calls, rtspQueue, mirrorQueue, serverVars, isZero, fd, mirrorFd,
                     threadVars,
                     sessionsLock, acceptLock, acceptor>>
  BY <1>1 DEF StopFrees
<1>3. s \in Slots /\ slot[s].active
  BY <1>1, <1>2 DEF ServerInv, LockInv, ServerType, LockType, Slots
<1>4. stop.at = "clean" /\ Passed(s) /\ Closing
  BY <1>2 DEF ServerInv, LockInv, StopInv, Passed, Closing
<1>5. NoMore
  BY <1>3, <1>4 DEF ServerInv, ThreadInv, SlotInv
<1>6. rtspAt' = [rtspAt EXCEPT ![s] = rtspAt[s]] /\ fd' = [fd EXCEPT ![s] = fd[s]]
  BY <1>2, <1>3 DEF ServerInv, ServerType, ThreadType, SlotType, threadVars
<1>7. \A t \in Slots : rtspAt[t] # "cleanup"
  BY <1>2, SlotsAre DEF ServerInv, ThreadInv, SlotInv
<1>8. rtspAt[s] = "none" => fd[s] = NoOne /\ mirrorAt[s] = "none"
  BY <1>3 DEF ServerInv, ThreadInv, SlotInv, FdsInv, FdInv
<1>9. LockType'
  BY <1>2 DEF LockType, NotCleaning, ServerInv, ServerType
<1>10. LockInv'
  BY <1>2, <1>4, SlotsAre DEF ServerInv, LockInv, NotCleaning, serverVars
<1> QED
  BY <1>2, <1>3, <1>4, <1>5, <1>6, <1>7, <1>8, <1>9, <1>10, FreeingKeeps DEF threadVars

-----------------------------------------------------------------------------
(* The mirror stream.                                                       *)

LEMMA AcceptMirrorKeeps == ASSUME ServerInv, NEW s \in Slots, AcceptMirror(s)
  PROVE  ServerInv'
<1>1. PICK k : k = Head(mirrorQueue)
  OBVIOUS
<1>2. /\ mirrorAt[s] = "accept" /\ mirrorQueue # <<>> /\ mirrorQueue' = Tail(mirrorQueue) /\ NumberFor(k)
      /\ mirrorAt' = [mirrorAt EXCEPT ![s] = "streaming"] /\ mirrorFd' = [mirrorFd EXCEPT ![s] = k]
      /\ slot' = [slot EXCEPT ![s].mirror = k]
      /\ UNCHANGED <<calls, conn, rtspQueue, serverVars, fd, rtspAt, sessionsLock, cleaning,
                     acceptor>>
  BY <1>1 DEF AcceptMirror
<1>3. mirrorQueue \in Seq(Conns)
  BY DEF ServerInv, ServerType, ConnType
<1>4. k \in Conns /\ k = mirrorQueue[1] /\ 1 \in 1 .. Len(mirrorQueue) /\ mirrorQueue' \in Seq(Conns)
  BY <1>1, <1>2, <1>3, HeadIs
<1>5. /\ \A i \in 1 .. Len(mirrorQueue') : i + 1 \in 1 .. Len(mirrorQueue) /\ mirrorQueue'[i] = mirrorQueue[i + 1]
      /\ \A i \in 1 .. Len(mirrorQueue) :
           i = 1 \/ (i - 1 \in 1 .. Len(mirrorQueue') /\ mirrorQueue[i] = mirrorQueue'[i - 1])
  BY <1>2, <1>3, HeadIs
<1>6. conn[k] # "none"
  BY <1>4 DEF ServerInv, QueueInv
<1>7. zero' \in Descriptors \cup {Stdin} /\ isZero' \subseteq Conns /\ ZeroInv'
  BY <1>2, <1>4, <1>6, NumberIs DEF ServerInv, ServerType
<1>8. \A t \in Slots : slot'[t].active = slot[t].active /\ slot'[t].rtsp = slot[t].rtsp
  BY <1>2 DEF ServerInv, ServerType, SlotType
<1>9. \A t \in Slots : /\ mirrorAt'[t] = IF t = s THEN "streaming" ELSE mirrorAt[t]
                       /\ mirrorFd'[t] = IF t = s THEN k ELSE mirrorFd[t]
  BY <1>2 DEF ServerInv, ServerType, ThreadType, SlotType
<1>10. ServerType'
  <2>1. ConnType'
    BY <1>2, <1>4, <1>7 DEF ServerInv, ServerType, ConnType
  <2>2. SlotType'
    <3>1. k \in Descriptors
      BY <1>4 DEF Descriptors
    <3>2. slot' \in [Slots -> [active : BOOLEAN, rtsp : Descriptors, mirror : Descriptors]]
      BY <1>2, <3>1 DEF ServerInv, ServerType, SlotType
    <3> QED
      BY <1>2, <3>1, <3>2 DEF ServerInv, ServerType, SlotType
  <2>3. ThreadType'
    BY <1>2 DEF ServerInv, ServerType, ThreadType
  <2> QED
    BY <1>2, <2>1, <2>2, <2>3 DEF ServerInv, ServerType, LockType, OthersType, serverVars
<1>11. QueueInv'
  BY <1>2, <1>5 DEF ServerInv, QueueInv
<1>12. StopInv'
  BY <1>2 DEF ServerInv, StopInv, serverVars
<1>13. LockInv'
  <2>1. cleaning.slot # 0 => cleaning.slot \in Slots
    BY DEF ServerInv, ServerType, LockType, Slots
  <2> QED
    BY <1>2, <1>8, <2>1 DEF ServerInv, LockInv, serverVars
<1>14. ThreadInv'
  <2> SUFFICES ASSUME NEW t \in Slots PROVE SlotInv(t)'
    BY DEF ThreadInv
  <2>1. SlotInv(t) /\ NoMore' = NoMore /\ Passed(t)' = Passed(t)
    BY <1>2 DEF ServerInv, ThreadInv, NoMore, Closing, Passed, serverVars
  <2> QED
    BY <1>2, <1>8, <1>9, <2>1 DEF SlotInv
<1>15. FdsInv'
  BY <1>2, <1>8 DEF ServerInv, FdsInv, FdInv
<1>16. AcceptorInv'
  BY <1>2, <1>8 DEF ServerInv, AcceptorInv, Closing, serverVars
<1>17. NothingLeaks'
  <2>1. ASSUME NEW j \in Conns, Kept(j) PROVE Kept(j)'
    <3>1. CASE \E i \in 1 .. Len(mirrorQueue) : mirrorQueue[i] = j
      BY <1>4, <1>5, <1>9, <3>1 DEF Kept
    <3>2. CASE ~\E i \in 1 .. Len(mirrorQueue) : mirrorQueue[i] = j
      BY <1>2, <1>8, <1>9, <2>1, <3>2 DEF Kept
    <3> QED
      BY <3>1, <3>2
  <2> QED
    BY <1>2, <2>1 DEF ServerInv, NothingLeaks, Kept
<1> QED
  BY <1>7, <1>10, <1>11, <1>12, <1>13, <1>14, <1>15, <1>16, <1>17 DEF ServerInv

LEMMA StreamEndsKeeps ==
  ASSUME ServerInv, NEW s \in Slots, NEW atOnce, EndStream(s, atOnce) PROVE ServerInv'
<1>1. /\ mirrorAt[s] = "streaming" /\ Close({mirrorFd[s]}, FALSE)
      /\ mirrorAt' = [mirrorAt EXCEPT ![s] = "returned"] /\ mirrorFd' = [mirrorFd EXCEPT ![s] = NoOne]
      /\ slot' = [slot EXCEPT ![s].mirror = NoOne]
      /\ UNCHANGED <<calls, rtspQueue, mirrorQueue, serverVars, isZero, fd, rtspAt,
                     lockVars, acceptor>>
  BY DEF EndStream
<1>2. /\ Drops /\ ZeroInv' /\ zero' \in Descriptors \cup {Stdin}
      /\ mirrorFd[s] \in Conns => conn'[mirrorFd[s]] # "up"
  BY <1>1, CloseIs DEF ServerInv, ServerType
<1>3. \A t \in Slots : slot'[t].active = slot[t].active /\ slot'[t].rtsp = slot[t].rtsp
  BY <1>1 DEF ServerInv, ServerType, SlotType
<1>4. \A t \in Slots : /\ mirrorAt'[t] = IF t = s THEN "returned" ELSE mirrorAt[t]
                       /\ mirrorFd'[t] = IF t = s THEN NoOne ELSE mirrorFd[t]
  BY <1>1 DEF ServerInv, ServerType, ThreadType, SlotType
<1>5. ServerType'
  <2>1. ConnType'
    BY <1>1, <1>2 DEF Drops, ServerInv, ServerType, ConnType
  <2>2. SlotType'
    <3>1. NoOne \in Descriptors
      BY DEF Descriptors
    <3>2. slot' \in [Slots -> [active : BOOLEAN, rtsp : Descriptors, mirror : Descriptors]]
      BY <1>1, <3>1 DEF ServerInv, ServerType, SlotType
    <3> QED
      BY <1>1, <3>1, <3>2 DEF ServerInv, ServerType, SlotType
  <2>3. ThreadType'
    BY <1>1 DEF ServerInv, ServerType, ThreadType
  <2> QED
    BY <1>1, <2>1, <2>2, <2>3 DEF ServerInv, ServerType, LockType, OthersType, serverVars,
       lockVars
<1>6. QueueInv' /\ StopInv'
  BY <1>1, <1>2, DropsQueue DEF ServerInv, StopInv, serverVars
<1>7. LockInv'
  <2>1. cleaning.slot # 0 => cleaning.slot \in Slots
    BY DEF ServerInv, ServerType, LockType, Slots
  <2> QED
    BY <1>1, <1>3, <2>1 DEF ServerInv, LockInv, serverVars, lockVars
<1>8. ThreadInv'
  <2> SUFFICES ASSUME NEW t \in Slots PROVE SlotInv(t)'
    BY DEF ThreadInv
  <2>1. SlotInv(t) /\ NoMore' = NoMore /\ Passed(t)' = Passed(t)
    BY <1>1 DEF ServerInv, ThreadInv, NoMore, Closing, Passed, serverVars
  <2> QED
    BY <1>1, <1>3, <1>4, <2>1 DEF SlotInv, lockVars
<1>9. FdsInv'
  <2> SUFFICES ASSUME NEW t \in Slots PROVE FdInv(t)'
    BY DEF FdsInv
  <2>1. FdInv(t) /\ slot[t].rtsp \in Descriptors /\ fd[t] \in Descriptors
    BY DEF ServerInv, FdsInv, ServerType, SlotType
  <2>2. \A k \in Descriptors : k # NoOne =>
            (conn[k] # "none" => conn'[k] # "none") /\ (conn[k] = "gone" => conn'[k] = "gone")
    BY <1>2 DEF Drops, Descriptors
  <2> QED
    BY <1>1, <1>3, <2>1, <2>2 DEF FdInv
<1>10. AcceptorInv'
  BY <1>1, <1>2, <1>3 DEF ServerInv, AcceptorInv, Drops, Closing, serverVars
<1>11. NothingLeaks'
  <2>1. ASSUME NEW k \in Conns, conn'[k] = "up" PROVE Kept(k)'
    <3>1. Kept(k) /\ mirrorFd[s] # k
      BY <1>2, <2>1 DEF Drops, ServerInv, NothingLeaks, Kept
    <3> QED
      BY <1>1, <1>3, <1>4, <3>1 DEF Kept
  <2> QED
    BY <2>1 DEF NothingLeaks, Kept
<1> QED
  BY <1>2, <1>5, <1>6, <1>7, <1>8, <1>9, <1>10, <1>11 DEF ServerInv

-----------------------------------------------------------------------------
LEMMA ServerStarts == ASSUME ServerInit PROVE ServerInv
<1>1. MaxSessions \in Nat \ {0} /\ MaxCalls \in Nat
  BY BoundsAssumption
<1>2. ConnType
  <2>1. <<>> \in Seq(Conns) /\ {} \subseteq Conns
    OBVIOUS
  <2> QED
    BY <2>1 DEF ServerInit, ConnType
<1>3. SlotType
  BY DEF ServerInit, SlotType, NoSession, Descriptors
<1>4. ThreadType
  BY DEF ServerInit, ThreadType
<1>5. LockType /\ OthersType
  BY <1>1 DEF ServerInit, LockType, OthersType, NotCleaning, Unlocked, Descriptors
<1>6. ServerType
  BY <1>1, <1>2, <1>3, <1>4, <1>5 DEF ServerType
<1>7. ZeroInv /\ FdsInv /\ StopInv
  BY DEF ServerInit, ZeroInv, FdsInv, FdInv, NoSession, StopInv
<1>8. QueueInv
  <2>1. \A c \in Calls : Rtsp(c) \in Conns
    BY DEF Rtsp, Conns
  <2>2. Len(<<>>) = 0
    OBVIOUS
  <2> QED
    BY <2>1, <2>2 DEF ServerInit, QueueInv
<1>9. ThreadInv
  BY DEF ServerInit, ThreadInv, SlotInv, Passed, NoSession
<1>10. LockInv /\ AcceptorInv
  BY <1>6, SlotsAre DEF ServerInit, LockInv, AcceptorInv, NotCleaning
<1>11. NothingLeaks
  BY DEF ServerInit, NothingLeaks
<1> QED
  BY <1>6, <1>7, <1>8, <1>9, <1>10, <1>11 DEF ServerInv

LEMMA ServerStutters == ASSUME ServerInv, UNCHANGED airPlayVars PROVE ServerInv'
<1>1. UNCHANGED <<phoneVars, serverVars, numVars, slotVars, threadVars,
                  lockVars, acceptor>>
  BY DEF airPlayVars
<1>2. ServerType' /\ ZeroInv' /\ QueueInv' /\ StopInv'
  BY <1>1 DEF ServerInv, ServerType, ConnType, SlotType, ThreadType, LockType, OthersType, ZeroInv,
     QueueInv, StopInv, phoneVars, serverVars, numVars, slotVars, threadVars,
     lockVars
<1>3. FdsInv' /\ LockInv' /\ AcceptorInv' /\ NothingLeaks'
  BY <1>1 DEF ServerInv, FdsInv, FdInv, LockInv, AcceptorInv, Closing, NothingLeaks, phoneVars,
     serverVars, slotVars, threadVars, lockVars
<1>4. ThreadInv'
  BY <1>1 DEF ServerInv, ThreadInv, SlotInv, NoMore, Closing, Passed, phoneVars, serverVars,
     slotVars,
     threadVars, lockVars
<1> QED
  BY <1>2, <1>3, <1>4 DEF ServerInv

LEMMA ServerSteps == ASSUME ServerInv, ServerNext PROVE ServerInv'
<1>1. CASE Phones
  <2>1. \A c \in Calls : Rtsp(c) \in Conns /\ Mirror(c) \in Conns
    BY DEF Rtsp, Mirror, Conns
  <2> QED
    BY <1>1, <2>1, DialKeeps, MirrorKeeps, HangUpKeeps DEF Phones
<1>2. CASE Start \/ StopBegins
  BY <1>2, StopMovesKeep DEF StopMoves
<1>3. CASE StartAccepting \/ AcceptFails
  BY <1>3, AcceptorMovesKeep
<1>4. CASE AcceptThread
  BY <1>3, <1>4, AcceptRtspKeeps, PlaceKeeps, RejectKeeps, SpawnKeeps DEF AcceptThread
<1>5. CASE Cleanup
  BY <1>5, CleanupClosesKeeps, CleanupEndsKeeps DEF Cleanup
<1>6. CASE StopCall
  BY <1>6, StopMovesKeep, ShutsDownKeeps, ClosesRtspKeeps, ClosesMirrorKeeps, StopFreesKeeps
  DEF StopCall, StopMoves
<1>7. ASSUME NEW s \in Slots, RtspThread(s) \/ MirrorThread(s) PROVE ServerInv'
  BY <1>7, SessionMovesKeep, InitSessionKeeps, AcceptMirrorKeeps, StreamEndsKeeps
  DEF RtspThread, MirrorThread, SessionMoves, StreamEnds
<1>8. ASSUME NEW s \in Slots, Record(s) \/ Teardown(s) \/ BadPacket(s) PROVE ServerInv'
  BY <1>8, SessionMovesKeep, StreamEndsKeeps DEF SessionMoves, BadPacket
<1> QED
  BY <1>1, <1>2, <1>3, <1>4, <1>5, <1>6, <1>7, <1>8 DEF ServerNext, Handlers

LEMMA ServerInvariant == ServerSpec => []ServerInv
<1>1. ServerInit => ServerInv
  BY ServerStarts
<1>2. ServerInv /\ [ServerNext]_airPlayVars => ServerInv'
  BY ServerSteps, ServerStutters
<1> QED
  BY <1>1, <1>2, PTL DEF ServerSpec

\* No connection is lost by the AirPlay server: one that is still up waits in a backlog, is in
\* the acceptor's hands, or is read by a thread, for any number of slots and connections.
THEOREM ConnectionsAccountedFor == ServerSpec => []NothingLeaks
<1>1. ServerSpec => []ServerInv
  BY ServerInvariant
<1>2. ServerInv => NothingLeaks
  BY DEF ServerInv
<1> QED
  BY <1>1, <1>2, PTL

\* Only Place puts a session into a slot.
LEMMA OnlyPlaceActivates ==
  ASSUME ServerInv, ServerNext, NEW s \in Slots, ~slot[s].active, ~Place PROVE ~slot'[s].active
<1>1. CASE UNCHANGED slot
  BY <1>1
<1>2. CASE CleanupEnds \/ StopFrees
  <2>1. cleaning.slot \in Slots
    BY <1>2 DEF CleanupEnds, StopFrees, ServerInv, LockInv, ServerType, LockType, Slots
  <2>2. slot' = [slot EXCEPT ![cleaning.slot] = NoSession]
    BY <1>2 DEF CleanupEnds, StopFrees, FreeSlot
  <2> QED
    BY <2>1, <2>2 DEF NoSession, ServerInv, ServerType, SlotType
<1>3. ASSUME NEW t \in Slots, AcceptMirror(t) \/ StreamEnds(t) \/ BadPacket(t) PROVE ~slot'[s].active
  <2>1. PICK m : slot' = [slot EXCEPT ![t].mirror = m]
    BY <1>3 DEF AcceptMirror, StreamEnds, BadPacket, EndStream
  <2> QED
    BY <2>1 DEF ServerInv, ServerType, SlotType
<1>4. CASE Phones
  BY <1>1, <1>4 DEF Phones, Dial, OpenMirror, HangUp, slotVars
<1>5. CASE Start \/ StopBegins \/ StartAccepting
  BY <1>1, <1>5 DEF Start, StopBegins, StartAccepting, slotVars
<1>6. CASE AcceptThread
  BY <1>1, <1>6 DEF AcceptThread, AcceptRtsp, AcceptFails, Reject, Spawn,
     slotVars
<1>7. CASE Cleanup
  BY <1>1, <1>2, <1>7 DEF Cleanup, CleanupCloses, slotVars
<1>8. CASE StopCall
  BY <1>1, <1>2, <1>8 DEF StopCall, CloseRtspListener, CloseMirrorListener,
     StopShutsDown, StopJoins,
     StopLocks, StopCleans, StopEnds, Exit, slotVars
<1>9. ASSUME NEW t \in Slots, RtspThread(t) \/ MirrorThread(t) \/ Record(t) \/ Teardown(t)
                                   \/ BadPacket(t)
      PROVE  ~slot'[s].active
  <2>1. CASE AcceptMirror(t) \/ StreamEnds(t) \/ BadPacket(t)
    BY <1>3, <2>1
  <2>2. CASE InitSession(t)
    BY <1>1, <2>2 DEF InitSession
  <2>3. CASE SessionMoves(t)
    BY <1>1, <2>3, MovesTo DEF slotVars
  <2> QED
    BY <1>9, <2>1, <2>2, <2>3 DEF RtspThread, MirrorThread, SessionMoves
<1> QED
  BY <1>4, <1>5, <1>6, <1>7, <1>8, <1>9 DEF ServerNext, Handlers

\* The acceptor zeroes a slot for a new session only when both threads of the one before are
\* over, whichever way it ended: they would go on with pointers into the slot.
THEOREM SlotsReusedLate == ServerSpec => ReuseAfterThreads
<1>1. ServerSpec => []ServerInv
  BY ServerInvariant
<1>2. ASSUME ServerInv, [ServerNext]_airPlayVars, NEW s \in Slots, ~slot[s].active, slot'[s].active
      PROVE  rtspAt[s] = "none" /\ mirrorAt[s] = "none"
  <2>1. ServerNext
    BY <1>2 DEF airPlayVars, slotVars
  <2>2. Place
    BY <1>2, <2>1, OnlyPlaceActivates
  <2>3. PICK t \in Slots :
           /\ rtspAt[t] = "none" /\ mirrorAt[t] = "none"
           /\ slot' = [slot EXCEPT ![t] = [active |-> TRUE, rtsp |-> acceptor.conn, mirror |-> NoOne]]
    <3>1. ServerInv
      BY <1>2
    <3>2. PICK t \in Slots :
           /\ ~slot[t].active /\ slot[t].rtsp = NoOne /\ rtspAt[t] = "none" /\ mirrorAt[t] = "none"
           /\ slot' = [slot EXCEPT ![t] = [active |-> TRUE, rtsp |-> acceptor.conn, mirror |-> NoOne]]
           /\ acceptor' = [acceptor EXCEPT !.at = "spawn", !.slot = t]
      BY <2>2, <3>1, PlaceFinds, ZenonT(30)
    <3> QED
      BY <3>2
  <2>4. s = t
    BY <1>2, <2>3 DEF ServerInv, ServerType, SlotType
  <2> QED
    BY <2>3, <2>4
<1>3. ServerInv /\ [ServerNext]_airPlayVars =>
        [\A s \in Slots : ~slot[s].active /\ slot'[s].active => rtspAt[s] = "none" /\ mirrorAt[s] = "none"]_airPlayVars
  BY <1>2
<1> QED
  BY <1>1, <1>3, PTL DEF ReuseAfterThreads, ServerSpec

-----------------------------------------------------------------------------
(* mirror_accept_lock, and the types of the server's variables.             *)

AcceptLockInv ==
  /\ starter \in {"new", "registering", "up"} /\ acceptLock \in Slots \cup {Unlocked}
  /\ \A s \in Slots : mirrorAt[s] = "accept" => acceptLock = s

\* The mirror threads are where they were, but for slot s.
LEMMA AcceptLockMoves ==
  ASSUME ServerInv, AcceptLockInv, NEW s \in Slots, RtspThread(s) \/ MirrorThread(s) \/ BadPacket(s)
  PROVE  AcceptLockInv'
<1>1. mirrorAt \in [Slots -> {"none", "lock", "accept", "streaming", "returned"}]
  BY DEF ServerInv, ServerType, ThreadType
<1>2. Slots \subseteq Nat /\ Unlocked \notin Slots
  BY SlotsAre DEF ServerInv
<1>3. CASE InitSession(s) \/ JoinMirror(s) \/ Disconnected(s) \/ Leave(s) \/ StreamEnds(s) \/ BadPacket(s)
  <2>1. acceptLock' = acceptLock /\ starter' = starter
    BY <1>3 DEF InitSession, JoinMirror, Disconnected, EndSession, Leave, StreamEnds, BadPacket,
       EndStream, lockVars,
       serverVars
  <2>2. \A t \in Slots : mirrorAt'[t] = "accept" => mirrorAt[t] = "accept"
    BY <1>1, <1>3 DEF InitSession, JoinMirror, Disconnected, EndSession, Leave, StreamEnds, BadPacket,
       EndStream
  <2> QED
    BY <2>1, <2>2 DEF AcceptLockInv
<1>4. CASE LockAccept(s)
  <2>1. acceptLock = Unlocked /\ acceptLock' = s /\ starter' = starter
    BY <1>4 DEF LockAccept, serverVars
  <2>2. \A t \in Slots : mirrorAt[t] # "accept"
    BY <1>2, <2>1 DEF AcceptLockInv
  <2>3. \A t \in Slots : mirrorAt'[t] = "accept" => t = s
    BY <1>1, <1>4, <2>2 DEF LockAccept
  <2> QED
    BY <2>1, <2>3 DEF AcceptLockInv
<1>5. CASE AcceptMirror(s) \/ AcceptMirrorFails(s)
  <2>1. mirrorAt[s] = "accept" /\ acceptLock' = Unlocked /\ starter' = starter
    BY <1>5 DEF AcceptMirror, AcceptMirrorFails, serverVars
  <2>2. \A t \in Slots : mirrorAt[t] = "accept" => t = s
    BY <2>1 DEF AcceptLockInv
  <2>3. \A t \in Slots : mirrorAt'[t] # "accept"
    BY <1>1, <1>5, <2>2 DEF AcceptMirror, AcceptMirrorFails
  <2> QED
    BY <2>1, <2>3 DEF AcceptLockInv
<1> QED
  BY <1>3, <1>4, <1>5 DEF RtspThread, MirrorThread

LEMMA AcceptLockKeeps ==
  ASSUME ServerInv, AcceptLockInv, [ServerNext]_airPlayVars PROVE AcceptLockInv'
<1>1. CASE starter' \in {"new", "registering", "up"} /\ UNCHANGED <<acceptLock, mirrorAt>>
  BY <1>1 DEF AcceptLockInv
<1>2. starter \in {"new", "registering", "up"}
  BY DEF AcceptLockInv
<1>3. CASE Phones
  BY <1>1, <1>2, <1>3 DEF Phones, Dial, OpenMirror, HangUp, serverVars, threadVars, lockVars
<1>4. CASE Start \/ StartAccepting \/ StopBegins
  BY <1>1, <1>2, <1>4 DEF Start, StartAccepting, StopBegins, threadVars, lockVars
<1>5. CASE AcceptThread
  BY <1>1, <1>2, <1>5 DEF AcceptThread, AcceptRtsp, AcceptFails, Place, Reject, Spawn, serverVars,
     threadVars, lockVars
<1>6. CASE Cleanup
  BY <1>1, <1>2, <1>6 DEF Cleanup, CleanupCloses, CleanupEnds, serverVars, threadVars
<1>7. CASE StopCall
  BY <1>1, <1>2, <1>7 DEF StopCall, CloseRtspListener, CloseMirrorListener, StopShutsDown,
     StopJoins, StopLocks, StopCleans, StopFrees, StopEnds, Exit, serverVars, threadVars, lockVars
<1>8. ASSUME NEW s \in Slots, RtspThread(s) \/ MirrorThread(s) \/ BadPacket(s) PROVE AcceptLockInv'
  BY <1>8, AcceptLockMoves
<1>9. ASSUME NEW s \in Slots, Record(s) \/ Teardown(s) PROVE AcceptLockInv'
  BY <1>1, <1>2, <1>9 DEF Record, Teardown, EndSession, serverVars, lockVars
<1>10. CASE UNCHANGED airPlayVars
  BY <1>1, <1>2, <1>10 DEF airPlayVars, serverVars, threadVars, lockVars
<1> QED
  BY <1>3, <1>4, <1>5, <1>6, <1>7, <1>8, <1>9, <1>10 DEF ServerNext, Handlers

LEMMA AcceptLockHolds == ServerSpec => [](ServerInv /\ AcceptLockInv)
<1>1. ServerInit => AcceptLockInv
  BY DEF ServerInit, AcceptLockInv
<1>2. ServerInv /\ AcceptLockInv /\ [ServerNext]_airPlayVars => AcceptLockInv'
  BY AcceptLockKeeps
<1> QED
  BY <1>1, <1>2, ServerInvariant, PTL DEF ServerSpec

\* Every variable of the AirPlay server keeps its type.
THEOREM ServerTypes == ServerSpec => []ServerTypeOK
<1>1. ServerInv /\ AcceptLockInv => ServerTypeOK
  <2> SUFFICES ASSUME ServerInv, AcceptLockInv PROVE ServerTypeOK
    OBVIOUS
  <2>1. acceptor.at \in {"off", "accept", "place", "spawn", "done"}
    BY DEF ServerInv, ServerType, OthersType
  <2>2. stop.at \in {"no", "rtsp", "mirror", "slots", "join", "lock", "clean", "done",
                     "crashed", "exited"}
    BY DEF ServerInv, ServerType, OthersType
  <2> QED
    BY <2>1, <2>2 DEF ServerInv, ServerType, ConnType, SlotType, ThreadType, LockType,
       AcceptLockInv, ServerTypeOK
<1> QED
  BY <1>1, AcceptLockHolds, PTL

\* The two locks of airplay_server.c do what they are for.  One mirror thread at a time is in
\* accept() (mirror_accept_lock), and one session_cleanup at a time is under way: of the RTSP
\* threads no two, and none while airplay_server_stop frees the slots (sessions_lock).
THEOREM LocksExclude ==
  ServerSpec => [](\A s, t \in Slots :
                     /\ mirrorAt[s] = "accept" /\ mirrorAt[t] = "accept" => s = t
                     /\ rtspAt[s] = "cleanup" /\ rtspAt[t] = "cleanup" => s = t
                     /\ rtspAt[s] = "cleanup" => stop.at # "clean" /\ cleaning.slot = s)
<1> DEFINE Alone(s, t) == /\ mirrorAt[s] = "accept" /\ mirrorAt[t] = "accept" => s = t
                          /\ rtspAt[s] = "cleanup" /\ rtspAt[t] = "cleanup" => s = t
                          /\ rtspAt[s] = "cleanup" => stop.at # "clean" /\ cleaning.slot = s
<1>1. ASSUME ServerInv, AcceptLockInv, NEW s \in Slots, NEW t \in Slots PROVE Alone(s, t)
  <2>1. /\ rtspAt[s] = "cleanup" => sessionsLock = s
        /\ rtspAt[t] = "cleanup" => sessionsLock = t
    BY <1>1 DEF ServerInv, ThreadInv, SlotInv
  <2>2. s # Stopper
    BY <1>1, SlotsAre DEF ServerInv
  <2>3. sessionsLock = s => stop.at # "clean" /\ cleaning.slot = s
    BY <1>1, <2>2 DEF ServerInv, LockInv
  <2> QED
    BY <1>1, <2>1, <2>3 DEF AcceptLockInv
<1>2. ServerInv /\ AcceptLockInv => \A s, t \in Slots : Alone(s, t)
  BY <1>1
<1> QED
  BY <1>2, AcceptLockHolds, PTL
=============================================================================
